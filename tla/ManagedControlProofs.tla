------------------------ MODULE ManagedControlProofs ------------------------
(***************************************************************************)
(* Proofs about ManagedControl, and about ManagedSource that drives it,    *)
(* for every set of configurations and networks, every number of attempts, *)
(* losses, calls and starts.                                               *)
(***************************************************************************)
EXTENDS ManagedSource, SequenceTheorems, TLAPS

Access == [kind: {"put", "get"}, register: Registers, value: Values]
  \cup [kind: {"read", "fetch"}, register: Registers, value: {None}]

Requests == [id: Nat \ {0}, attempt: Nat, access: Access]
Responses == [id: Nat \ {0}, attempt: Nat, value: Values \cup {None}]

SessionTypes ==
  /\ session \in [requested: Configs, applied: Configs \cup {None},
                  running: BOOLEAN, described: BOOLEAN]
  /\ conn \in Connections \cup {None}
  /\ call \in CallRecords \cup {None}
  /\ tainted \in BOOLEAN /\ abandoned \in BOOLEAN
  /\ result \in {"none", "pending", "ok", "error", "not configured"}

NetworkTypes ==
  /\ channel \in Channels
  /\ registers \in [Registers -> Values]
  /\ requests \in SUBSET Requests /\ responses \in SUBSET Responses
  /\ exchange \in [id: Nat, attempts: 0 .. MaxAttempts]
  /\ lastId \in Nat /\ exchange.id <= lastId
  /\ seen \in [Registers -> SUBSET Values]

(* A call in progress has a connection and accesses to do.                 *)
CallLinks ==
  /\ call = None => script = <<>> /\ exchange.id = 0
  /\ call # None => script # <<>> /\ conn # None

(* The session agrees with its connection, which runs only as configured;  *)
(* and a start is one of what the connection has configured.               *)
SessionInv ==
  /\ SessionMatchesConnection
  /\ conn # None /\ conn.running => conn.configured # None
  /\ call # None /\ call.op = "start" => conn.configured = call.config

---------------------------------------------------------------------------
(* What is left of a script when its first accesses have succeeded.        *)
Remains(s, full) ==
  /\ s \in Seq(Access) /\ Len(s) \in 1 .. Len(full)
  /\ \A i \in 1 .. Len(s) : s[i] = full[Len(full) - Len(s) + i]

ClearWrite(n) == WriteBack("max", Word(n))

(* The script is what is left of the one its call began with; a stop has   *)
(* still to fetch, or writes back a number it fetched.                     *)
ScriptInv ==
  call # None =>
    /\ call.op \in {"configure", "configure and start"} =>
         Remains(script, ConfigureScript(call.config))
    /\ call.op = "start" => Remains(script, StartScript(call.config))
    /\ call.op = "stop" =>
         \/ script = StopScript
         \/ /\ Head(script).value \in Values
            /\ Remains(script, ClearWrite(Head(script).value.n))

---------------------------------------------------------------------------
(* Messages carry the id of their exchange, and none the id of a later     *)
(* one; a request of the current exchange asks for the next access, and a  *)
(* response to it means that it was made.                                  *)
ExchangeInv ==
  /\ \A m \in requests \cup responses : m.id <= lastId
  /\ \A m \in requests : m.id = exchange.id => m.access = Head(script)
  /\ \A m \in responses :
       m.id = exchange.id /\ Head(script).kind = "put" =>
         Head(script).value \in seen[Head(script).register]
  /\ writes \in SUBSET (Registers \X Values)
  /\ WritesHappened

---------------------------------------------------------------------------
(* On a prompt network all messages belong to the current exchange, and    *)
(* nobody writes what the current access does not write.                   *)
PromptMessages ==
  \A m \in requests \cup responses : m.id = exchange.id

Answered ==
  \A m \in responses :
    IF Head(script).kind = "put"
    THEN registers[Head(script).register] = Head(script).value
    ELSE m.value = registers[Head(script).register]

(* What the accesses of a call that have succeeded have made of the        *)
(* registers.                                                              *)
Progress ==
  call # None =>
    /\ call.op \in {"configure", "configure and start"} =>
         /\ Len(script) <= 6 => registers["port"] = Word(call.config.port)
         /\ Len(script) <= 4 => registers["ip"] = Word(call.config.ip)
         /\ Len(script) <= 2 => registers["max"] = Word(call.config.size)
    /\ call.op = "start" /\ Len(script) = 1 =>
         registers["max"] = Flagged(TRUE, call.config.size)
    /\ call.op = "stop" /\ script # StopScript =>
         /\ Head(script).value = Word(registers["max"].n)
         /\ Len(script) = 1 => ~registers["max"].enable

PromptInv == Prompt => PromptMessages /\ Answered /\ Progress

---------------------------------------------------------------------------
(* The device has the configuration that was applied, unless a call is     *)
(* applying another.                                                       *)
BeingConfigured == call # None /\ call.op \in {"configure", "configure and start"}

HasConfig(c) ==
  /\ registers["port"].n = c.port /\ registers["ip"].n = c.ip
  /\ registers["max"].n = c.size

ViewInv ==
  Prompt /\ session.applied # None /\ ~tainted /\ ~BeingConfigured =>
    /\ HasConfig(session.applied)
    /\ call = None /\ ~abandoned =>
         registers["max"].enable = session.running

---------------------------------------------------------------------------
(* What the element has made of the session, the device and its report, in *)
(* each of its states.                                                     *)
Enabled == registers["max"].enable

AppliedDestination ==
  /\ session.applied # None
  /\ registers["port"].n = session.applied.port
  /\ registers["ip"].n = session.applied.ip

ElementInv ==
  Prompt /\ user = "element" =>
    /\ element \in {"stopped", "describe", "configure"} =>
         (Enabled => report = "error")
    /\ element \in {"stopped", "describe"} =>
         call = None /\ session.applied = None
    /\ element = "configure" =>
         /\ call # None => call.op = "configure"
         /\ call = None /\ result = "ok" => AppliedDestination
    /\ element \in {"start", "running", "stop", "disconnect"} =>
         AppliedDestination
    /\ element = "start" =>
         /\ call # None => call.op = "start"
         /\ call = None /\ result = "ok" => session.running
    /\ element = "running" => call = None /\ session.running
    /\ element = "stop" =>
         /\ call # None => call.op = "stop"
         /\ call = None /\ result = "ok" => ~Enabled
    /\ element = "disconnect" =>
         /\ call = None
         /\ Enabled => failed

ElementTypes ==
  element \in {"stopped", "describe", "configure", "start", "running", "stop",
              "disconnect"}

ControlInv ==
  /\ SessionTypes /\ NetworkTypes /\ CallLinks
  /\ SessionInv
  /\ ScriptInv
  /\ ExchangeInv
  /\ PromptInv
  /\ ViewInv

SourceInv == ControlInv /\ ElementTypes /\ ElementInv

---------------------------------------------------------------------------
(* Scripts                                                                 *)

(* A write that is read back is two accesses.                              *)
LEMMA WriteBackFacts ==
  ASSUME NEW r \in Registers, NEW v \in Values
  PROVE  /\ WriteBack(r, v) \in Seq(Access) /\ Len(WriteBack(r, v)) = 2
         /\ WriteBack(r, v)[1] = Put(r, v) /\ WriteBack(r, v)[2] = Get(r, v)
<1>1. Put(r, v) \in Access /\ Get(r, v) \in Access
  BY DEF Put, Get, Access
<1> QED
  BY <1>1 DEF WriteBack

(* Two lists of accesses put together.                                     *)
LEMMA Appended ==
  ASSUME NEW a \in Seq(Access), NEW b \in Seq(Access)
  PROVE  /\ a \o b \in Seq(Access) /\ Len(a \o b) = Len(a) + Len(b)
         /\ \A i \in 1 .. Len(a) : (a \o b)[i] = a[i]
         /\ \A i \in 1 .. Len(b) : (a \o b)[Len(a) + i] = b[i]
<1>1. a \o b \in Seq(Access) /\ Len(a \o b) = Len(a) + Len(b)
  BY ConcatProperties
<1>2. ASSUME NEW i \in 1 .. Len(a) PROVE (a \o b)[i] = a[i]
  BY ConcatProperties
<1>3. ASSUME NEW i \in 1 .. Len(b) PROVE (a \o b)[Len(a) + i] = b[i]
  BY ConcatProperties
<1> QED
  BY <1>1, <1>2, <1>3

(* Two accesses put behind a list of n.                                    *)
LEMMA TwoAppended ==
  ASSUME NEW a \in Seq(Access), NEW b \in Seq(Access), NEW n \in Nat,
         Len(a) = n, Len(b) = 2
  PROVE  /\ a \o b \in Seq(Access) /\ Len(a \o b) = n + 2
         /\ \A i \in 1 .. n : (a \o b)[i] = a[i]
         /\ (a \o b)[n + 1] = b[1] /\ (a \o b)[n + 2] = b[2]
BY Appended

(* One access put behind a list of n.                                      *)
LEMMA OneAppended ==
  ASSUME NEW a \in Seq(Access), NEW b \in Seq(Access), NEW n \in Nat,
         Len(a) = n, Len(b) = 1
  PROVE  /\ a \o b \in Seq(Access) /\ Len(a \o b) = n + 1
         /\ \A i \in 1 .. n : (a \o b)[i] = a[i]
         /\ (a \o b)[n + 1] = b[1]
BY Appended

(* The script of a configuration, access by access.                        *)
LEMMA ConfigureScriptFacts ==
  ASSUME NEW c \in Configs
  PROVE  LET s == ConfigureScript(c) IN
         /\ s \in Seq(Access) /\ Len(s) = 7
         /\ s[1] = Put("port", Word(c.port)) /\ s[2] = Get("port", Word(c.port))
         /\ s[3] = Put("ip", Word(c.ip)) /\ s[4] = Get("ip", Word(c.ip))
         /\ s[5] = Put("max", Word(c.size)) /\ s[6] = Get("max", Word(c.size))
         /\ s[7] = Read("format")
<1> DEFINE P == WriteBack("port", Word(c.port))
           A == WriteBack("ip", Word(c.ip))
           M == WriteBack("max", Word(c.size))
           R == <<Read("format")>>
<1>1. /\ Word(c.port) \in Values /\ Word(c.ip) \in Values
      /\ Word(c.size) \in Values
  BY ConfigsAssumption DEF Word, Flagged, Values
<1>2. /\ P \in Seq(Access) /\ Len(P) = 2
      /\ P[1] = Put("port", Word(c.port)) /\ P[2] = Get("port", Word(c.port))
  BY <1>1, WriteBackFacts DEF Registers
<1>3. /\ A \in Seq(Access) /\ Len(A) = 2
      /\ A[1] = Put("ip", Word(c.ip)) /\ A[2] = Get("ip", Word(c.ip))
  BY <1>1, WriteBackFacts DEF Registers
<1>4. /\ M \in Seq(Access) /\ Len(M) = 2
      /\ M[1] = Put("max", Word(c.size)) /\ M[2] = Get("max", Word(c.size))
  BY <1>1, WriteBackFacts DEF Registers
<1>5. R \in Seq(Access) /\ Len(R) = 1 /\ R[1] = Read("format")
  BY DEF Read, Access, Registers
<1> HIDE DEF P, A, M, R
<1>6. /\ P \o A \in Seq(Access) /\ Len(P \o A) = 4
      /\ (P \o A)[1] = P[1] /\ (P \o A)[2] = P[2]
      /\ (P \o A)[3] = A[1] /\ (P \o A)[4] = A[2]
  BY <1>2, <1>3, TwoAppended
<1> DEFINE PA == P \o A
<1> HIDE DEF PA
<1>7. PA \in Seq(Access) /\ Len(PA) = 4
  BY <1>6 DEF PA
<1>8. /\ PA \o M \in Seq(Access) /\ Len(PA \o M) = 6
      /\ \A i \in 1 .. 4 : (PA \o M)[i] = PA[i]
      /\ (PA \o M)[5] = M[1] /\ (PA \o M)[6] = M[2]
  <2>1. /\ PA \o M \in Seq(Access) /\ Len(PA \o M) = 4 + 2
        /\ \A i \in 1 .. 4 : (PA \o M)[i] = PA[i]
        /\ (PA \o M)[4 + 1] = M[1] /\ (PA \o M)[4 + 2] = M[2]
    <3>1. 4 \in Nat
      OBVIOUS
    <3> QED
      BY <1>4, <1>7, <3>1, TwoAppended, Zenon
  <2> QED
    BY <2>1
<1> DEFINE PAM == PA \o M
<1> HIDE DEF PAM
<1>9. /\ PAM \in Seq(Access) /\ Len(PAM) = 6
      /\ PAM[1] = P[1] /\ PAM[2] = P[2] /\ PAM[3] = A[1] /\ PAM[4] = A[2]
      /\ PAM[5] = M[1] /\ PAM[6] = M[2]
  BY <1>6, <1>8 DEF PAM, PA
<1>10. /\ PAM \o R \in Seq(Access) /\ Len(PAM \o R) = 7
       /\ \A i \in 1 .. 6 : (PAM \o R)[i] = PAM[i]
       /\ (PAM \o R)[7] = R[1]
  <2>1. /\ PAM \o R \in Seq(Access) /\ Len(PAM \o R) = 6 + 1
        /\ \A i \in 1 .. 6 : (PAM \o R)[i] = PAM[i]
        /\ (PAM \o R)[6 + 1] = R[1]
    <3>1. 6 \in Nat
      OBVIOUS
    <3> QED
      BY <1>5, <1>9, <3>1, OneAppended, Zenon
  <2> QED
    BY <2>1
<1>11. ConfigureScript(c) = PAM \o R
  BY DEF ConfigureScript, P, A, M, R, PA, PAM
<1> QED
  BY <1>2, <1>3, <1>4, <1>5, <1>9, <1>10, <1>11

(* The script of a start.                                                  *)
LEMMA StartScriptFacts ==
  ASSUME NEW c \in Configs
  PROVE  LET s == StartScript(c)  v == Flagged(TRUE, c.size) IN
         /\ s \in Seq(Access) /\ Len(s) = 2 /\ v \in Values
         /\ s[1] = Put("max", v) /\ s[2] = Get("max", v)
<1>1. Flagged(TRUE, c.size) \in Values
  BY ConfigsAssumption DEF Flagged, Values
<1> QED
  BY <1>1, WriteBackFacts DEF StartScript, Registers

(* The accesses of a stop.                                                 *)
LEMMA StopScriptFacts ==
  /\ StopScript \in Seq(Access) /\ Len(StopScript) = 1
  /\ Head(StopScript) = Fetch /\ Fetch.kind = "fetch" /\ Fetch.register = "max"
  /\ \A n \in Nat : LET s == ClearWrite(n) IN
       /\ s \in Seq(Access) /\ Len(s) = 2 /\ Word(n) \in Values
       /\ s[1] = Put("max", Word(n)) /\ s[2] = Get("max", Word(n))
<1>1. Fetch \in Access
  BY DEF Fetch, Access, Registers
<1>2. \A n \in Nat : Word(n) \in Values
  BY DEF Word, Flagged, Values
<1> QED
  BY <1>1, <1>2, WriteBackFacts DEF StopScript, Fetch, ClearWrite, Registers

(* The next access of what is left of a script, and what is left then.     *)
LEMMA RemainsFacts ==
  ASSUME NEW full \in Seq(Access), NEW s, Remains(s, full)
  PROVE  /\ s # <<>> /\ Len(s) \in 1 .. Len(full)
         /\ Head(s) = full[Len(full) - Len(s) + 1] /\ Head(s) \in Access
         /\ Tail(s) = <<>> <=> Len(s) = 1
         /\ Tail(s) # <<>> =>
              Remains(Tail(s), full) /\ Len(Tail(s)) = Len(s) - 1
<1>1. s \in Seq(Access) /\ Len(s) \in 1 .. Len(full) /\ s # <<>>
  BY DEF Remains
<1>2. Head(s) = s[1] /\ Head(s) \in Access /\ s[1] = full[Len(full) - Len(s) + 1]
  BY <1>1 DEF Remains
<1> DEFINE t == Tail(s)
<1>3. /\ t \in Seq(Access) /\ Len(t) = Len(s) - 1
      /\ \A i \in 1 .. Len(t) : t[i] = s[i + 1]
  BY <1>1, HeadTailProperties
<1> HIDE DEF t
<1>4. t = <<>> <=> Len(t) = 0
  BY <1>3, EmptySeq
<1>5. /\ Tail(s) \in Seq(Access) /\ Len(Tail(s)) = Len(s) - 1
      /\ \A i \in 1 .. Len(s) - 1 : Tail(s)[i] = s[i + 1]
      /\ Tail(s) = <<>> <=> Len(s) = 1
  BY <1>1, <1>3, <1>4 DEF t
<1>6. ASSUME Len(s) # 1 PROVE Remains(Tail(s), full)
  <2>1. \A i \in 1 .. Len(s) - 1 : i + 1 \in 1 .. Len(s)
    BY <1>1
  <2>2. \A i \in 1 .. Len(s) - 1 :
          Tail(s)[i] = full[Len(full) - (Len(s) - 1) + i]
    <3> SUFFICES ASSUME NEW i \in 1 .. Len(s) - 1
                 PROVE  Tail(s)[i] = full[Len(full) - (Len(s) - 1) + i]
      OBVIOUS
    <3>1. s[i + 1] = full[Len(full) - Len(s) + (i + 1)]
      BY <2>1 DEF Remains
    <3>2. Len(full) - Len(s) + (i + 1) = Len(full) - (Len(s) - 1) + i
      BY <1>1
    <3> QED
      BY <1>5, <3>1, <3>2
  <2> QED
    BY <1>1, <1>5, <1>6, <2>2 DEF Remains
<1> QED
  BY <1>1, <1>2, <1>5, <1>6

(* A script that nothing was done of yet.                                  *)
LEMMA RemainsWhole ==
  ASSUME NEW full \in Seq(Access), full # <<>> PROVE Remains(full, full)
BY DEF Remains

(* A configuration under way: its next access, and what is left after it.  *)
LEMMA ConfigureStep ==
  ASSUME NEW c \in Configs, NEW s, Remains(s, ConfigureScript(c))
  PROVE  /\ s \in Seq(Access) /\ s # <<>> /\ Len(s) \in 1 .. 7
         /\ Head(s) \in Access /\ Head(s).kind # "fetch"
         /\ Len(s) = 7 => Head(s) = Put("port", Word(c.port))
         /\ Len(s) = 6 => Head(s) = Get("port", Word(c.port))
         /\ Len(s) = 5 => Head(s) = Put("ip", Word(c.ip))
         /\ Len(s) = 4 => Head(s) = Get("ip", Word(c.ip))
         /\ Len(s) = 3 => Head(s) = Put("max", Word(c.size))
         /\ Len(s) = 2 => Head(s) = Get("max", Word(c.size))
         /\ Len(s) = 1 => Head(s) = Read("format")
         /\ Tail(s) = <<>> <=> Len(s) = 1
         /\ Tail(s) # <<>> => /\ Remains(Tail(s), ConfigureScript(c))
                              /\ Len(Tail(s)) = Len(s) - 1
<1> DEFINE full == ConfigureScript(c)
<1>1. /\ full \in Seq(Access) /\ Len(full) = 7
      /\ full[1] = Put("port", Word(c.port)) /\ full[2] = Get("port", Word(c.port))
      /\ full[3] = Put("ip", Word(c.ip)) /\ full[4] = Get("ip", Word(c.ip))
      /\ full[5] = Put("max", Word(c.size)) /\ full[6] = Get("max", Word(c.size))
      /\ full[7] = Read("format")
  BY ConfigureScriptFacts
<1> HIDE DEF full
<1>2. Remains(s, full)
  BY DEF full
<1>3. /\ s # <<>> /\ Len(s) \in 1 .. 7 /\ Head(s) = full[7 - Len(s) + 1]
      /\ Head(s) \in Access
      /\ Tail(s) = <<>> <=> Len(s) = 1
      /\ Tail(s) # <<>> => Remains(Tail(s), full) /\ Len(Tail(s)) = Len(s) - 1
  BY <1>1, <1>2, RemainsFacts
<1> DEFINE n == Len(s)
           h == Head(s)
<1>4. n \in 1 .. 7 /\ h = full[7 - n + 1]
  BY <1>3
<1> HIDE DEF n, h
<1>5. /\ Len(s) = 7 => Head(s) = full[1]
      /\ Len(s) = 6 => Head(s) = full[2]
      /\ Len(s) = 5 => Head(s) = full[3]
      /\ Len(s) = 4 => Head(s) = full[4]
      /\ Len(s) = 3 => Head(s) = full[5]
      /\ Len(s) = 2 => Head(s) = full[6]
      /\ Len(s) = 1 => Head(s) = full[7]
  <2>1. /\ n = 7 => h = full[1]
        /\ n = 6 => h = full[2]
        /\ n = 5 => h = full[3]
        /\ n = 4 => h = full[4]
        /\ n = 3 => h = full[5]
        /\ n = 2 => h = full[6]
        /\ n = 1 => h = full[7]
    BY <1>4
  <2> QED
    BY <2>1 DEF n, h
<1>6. Head(s).kind # "fetch"
  <2>1. Len(s) \in {1, 2, 3, 4, 5, 6, 7}
    BY <1>3
  <2> QED
    BY <1>1, <1>5, <2>1 DEF Put, Get, Read
<1>7. s \in Seq(Access)
  BY <1>2 DEF Remains
<1> QED
  BY <1>1, <1>3, <1>5, <1>6, <1>7 DEF full

(* A write that is read back under way.                                    *)
LEMMA WriteBackStep ==
  ASSUME NEW v \in Values, NEW s, Remains(s, WriteBack("max", v))
  PROVE  /\ s \in Seq(Access) /\ s # <<>> /\ Len(s) \in 1 .. 2
         /\ Head(s) \in Access /\ Head(s).kind \in {"put", "get"}
         /\ Head(s).register = "max" /\ Head(s).value = v
         /\ Len(s) = 2 <=> Head(s).kind = "put"
         /\ Tail(s) = <<>> <=> Len(s) = 1
         /\ Tail(s) # <<>> =>
              /\ Remains(Tail(s), WriteBack("max", v))
              /\ Len(Tail(s)) = Len(s) - 1 /\ Head(Tail(s)).value = v
<1> DEFINE full == WriteBack("max", v)
<1>1. /\ full \in Seq(Access) /\ Len(full) = 2
      /\ full[1] = Put("max", v) /\ full[2] = Get("max", v)
  BY WriteBackFacts DEF Registers
<1> HIDE DEF full
<1>2. \A t : Remains(t, full) =>
        /\ t # <<>> /\ Len(t) \in 1 .. 2 /\ Head(t) = full[2 - Len(t) + 1]
        /\ Head(t) \in Access
        /\ Tail(t) = <<>> <=> Len(t) = 1
        /\ Tail(t) # <<>> => Remains(Tail(t), full) /\ Len(Tail(t)) = Len(t) - 1
  BY <1>1, RemainsFacts
<1>3. ASSUME NEW t, Remains(t, full)
      PROVE  /\ Head(t).kind \in {"put", "get"}
             /\ Head(t).register = "max" /\ Head(t).value = v
             /\ Len(t) = 2 <=> Head(t).kind = "put"
  <2> DEFINE k == Len(t)
             h == Head(t)
  <2>1. k \in 1 .. 2 /\ h = full[2 - k + 1]
    BY <1>2, <1>3
  <2> HIDE DEF k, h
  <2>2. (k = 2 \/ k = 1) /\ (k = 2 => h = full[1]) /\ (k = 1 => h = full[2])
    BY <2>1
  <2> USE DEF k, h
  <2> QED
    BY <1>1, <2>1, <2>2 DEF Put, Get
<1>4. Remains(s, full) /\ s \in Seq(Access)
  BY DEF full, Remains
<1>5. Tail(s) # <<>> => Head(Tail(s)).value = v
  BY <1>2, <1>3, <1>4
<1> QED
  BY <1>2, <1>3, <1>4, <1>5 DEF full

---------------------------------------------------------------------------
(* The calls of the session: what they begin                               *)
PlanOf(k) ==
  CASE k.op \in {"configure", "configure and start"} -> ConfigureScript(k.config)
    [] k.op = "start" -> StartScript(k.config)
    [] k.op = "stop"  -> StopScript

(* A call returns at once or has a script to do, over a connection.        *)
Begun ==
  \/ call' = None /\ script' = <<>>
  \/ call' \in CallRecords /\ conn' # None /\ script' = PlanOf(call')

Begins ==
  Describe \/ (\E c \in Configs : Configure(c)) \/ Start \/ Stop \/ Disconnect

CallInv == SessionTypes /\ CallLinks /\ SessionInv

(* ensure_connection gives a connection, a new one only where none was.    *)
LEMMA ConnectedFacts ==
  ASSUME CallInv, Connected
  PROVE  /\ conn' \in Connections /\ conn' # None
         /\ conn # None => conn' = conn
         /\ conn = None => /\ conn'.configured = None /\ conn'.running = FALSE
                           /\ ~session.running
<1>1. NewConnection \in Connections
  BY DEF NewConnection, Connections
<1>4. \A x \in Connections : x # None
  BY ControlNoneAssumption
<1>2. CASE conn = None
  BY <1>1, <1>2, <1>4
     DEF CallInv, SessionInv, SessionMatchesConnection, Connected, NewConnection
<1>3. CASE conn # None
  BY <1>3 DEF CallInv, SessionTypes, Connected
<1> QED
  BY <1>2, <1>3

(* With the session as it was, any of what a call makes of the connection  *)
(* keeps the two in agreement.                                             *)
LEMMA SessionKept ==
  ASSUME CallInv, session' = session, Connected \/ conn' = conn,
         call' \in CallRecords \cup {None},
         call' # None /\ call'.op = "start" => conn'.configured = call'.config,
         tainted' \in BOOLEAN, abandoned' \in BOOLEAN,
         result' \in {"pending", "ok", "error", "not configured"}
  PROVE  SessionTypes' /\ SessionInv'
<1>1. /\ conn' \in Connections \cup {None}
      /\ conn' = conn \/ (conn = None /\ conn' # None /\ conn'.configured = None
                         /\ conn'.running = FALSE /\ ~session.running)
  BY ConnectedFacts DEF CallInv, SessionTypes
<1>2. SessionTypes'
  BY <1>1 DEF CallInv, SessionTypes
<1>3. SessionInv'
  BY <1>1 DEF CallInv, SessionInv, SessionMatchesConnection
<1> QED
  BY <1>2, <1>3

(* Types and the connection survive the beginning of every call.           *)
LEMMA DescribeInv ==
  ASSUME CallInv, Describe PROVE Begun /\ SessionTypes' /\ SessionInv'
<1> USE DEF Describe, CallStarts, ReturnAtOnce
<1>1. Begun
  BY DEF CallInv, CallLinks, ConnectFails, Begun
<1>2. /\ call' = None /\ result' \in {"ok", "error"}
      /\ tainted' = tainted /\ abandoned' = abandoned
  BY DEF ConnectFails
<1>3. /\ tainted' \in BOOLEAN /\ abandoned' \in BOOLEAN
      /\ conn \in Connections \cup {None}
      /\ call' \in CallRecords \cup {None}
      /\ ~(call' # None /\ call'.op = "start")
      /\ result' \in {"pending", "ok", "error", "not configured"}
  BY <1>2 DEF CallInv, SessionTypes
<1>6. \/ session' = session /\ (Connected \/ conn' = conn)
      \/ Connected /\ session' = [session EXCEPT !.described = TRUE]
  BY DEF ConnectFails
<1> HIDE DEF Describe, CallStarts, ReturnAtOnce
<1>4. CASE session' = session /\ (Connected \/ conn' = conn)
  BY <1>1, <1>3, <1>4, SessionKept
<1>5. CASE Connected /\ session' = [session EXCEPT !.described = TRUE]
  <2>1. /\ session \in [requested: Configs, applied: Configs \cup {None},
                        running: BOOLEAN, described: BOOLEAN]
        /\ session' \in [requested: Configs, applied: Configs \cup {None},
                         running: BOOLEAN, described: BOOLEAN]
        /\ session'.applied = session.applied
        /\ session'.running = session.running
    BY <1>5 DEF CallInv, SessionTypes
  <2>2. /\ conn' \in Connections
        /\ conn' = conn \/ (conn'.configured = None /\ conn'.running = FALSE
                           /\ ~session.running)
    BY <1>5, ConnectedFacts
  <2>3. SessionTypes'
    BY <1>2, <1>3, <2>1, <2>2 DEF SessionTypes
  <2>4. SessionInv'
    BY <1>2, <2>1, <2>2 DEF CallInv, SessionInv, SessionMatchesConnection
  <2> QED
    BY <1>1, <2>3, <2>4
<1> QED
  BY <1>1, <1>4, <1>5, <1>6

(* A configure that is performed changes nothing of the session yet.       *)
LEMMA ConfigureInv ==
  ASSUME CallInv, NEW c \in Configs, Configure(c)
  PROVE  Begun /\ SessionTypes' /\ SessionInv'
<1> USE DEF Configure, CallStarts, ReturnAtOnce
<1>1. CASE call' = call /\ script' = script
  <2>1. session' = session /\ (Connected \/ conn' = conn)
    BY <1>1 DEF ConnectFails, RequestRefused
  <2>2. /\ tainted' = tainted /\ abandoned' = abandoned
        /\ result' \in {"pending", "ok", "error"}
    BY <1>1 DEF ConnectFails, RequestRefused, Perform
  <2> QED
    BY <1>1, <2>1, <2>2, SessionKept
       DEF CallInv, CallLinks, SessionTypes, Begun
<1>2. CASE Connected /\ Perform("configure", c, ConfigureScript(c))
           /\ UNCHANGED <<session, tainted, abandoned>>
  <2>1. call' \in CallRecords /\ call'.op = "configure" /\ call'.config = c
    BY <1>2 DEF Perform, CallRecords, Operations
  <2>2. Begun
    BY <1>2, <2>1, ConnectedFacts DEF Perform, Begun, PlanOf
  <2> QED
    BY <1>2, <2>1, <2>2, SessionKept DEF Perform, CallInv, SessionTypes
<1> QED
  BY <1>1, <1>2 DEF ConnectFails, RequestRefused

(* A start is one of the applied configuration, or of the requested one.   *)
LEMMA StartInv ==
  ASSUME CallInv, Start PROVE Begun /\ SessionTypes' /\ SessionInv'
<1> USE DEF Start, CallStarts
<1>1. CASE call' = call /\ script' = script /\ session' = session
           /\ (Connected \/ conn' = conn) /\ tainted' \in {tainted, TRUE}
           /\ result' \in {"pending", "ok", "error", "not configured"}
  BY <1>1, SessionKept DEF CallInv, CallLinks, SessionTypes, Begun
<1>2. CASE ~session.running /\ StartConnection
  <2> USE <1>2 DEF StartConnection
  <2>1. conn' \in Connections /\ conn' # None /\ ~conn'.running
    BY ConnectedFacts DEF CallInv, SessionInv, SessionMatchesConnection
  <2>2. CASE conn'.configured = None
    BY <1>1, <2>2 DEF ReturnAtOnce
  <2>3. CASE conn'.configured # None
    <3>1. /\ Perform("start", conn'.configured, StartScript(conn'.configured))
          /\ UNCHANGED <<session, tainted, abandoned>>
      BY <2>1, <2>3
    <3>2. /\ call' \in CallRecords /\ call'.op = "start"
          /\ call'.config = conn'.configured
      BY <2>1, <2>3, <3>1 DEF Perform, CallRecords, Operations, Connections
    <3>3. Begun
      BY <2>1, <3>1, <3>2 DEF Perform, Begun, PlanOf
    <3> QED
      BY <3>1, <3>2, <3>3, SessionKept DEF Perform, CallInv, SessionTypes
  <2> QED
    BY <2>2, <2>3
<1>3. CASE /\ Connected
           /\ Perform("configure and start", session.requested,
                      ConfigureScript(session.requested))
           /\ UNCHANGED <<session, tainted>>
  <2>1. /\ call' \in CallRecords /\ call'.op = "configure and start"
        /\ call'.config = session.requested
    BY <1>3 DEF Perform, CallRecords, Operations, CallInv, SessionTypes
  <2>2. Begun
    BY <1>3, <2>1, ConnectedFacts DEF Perform, Begun, PlanOf
  <2> QED
    BY <1>3, <2>1, <2>2, SessionKept DEF Perform, CallInv, SessionTypes
<1>4. CASE session.running /\ ReturnAtOnce("ok") /\ UNCHANGED <<session, conn, tainted>>
  BY <1>1, <1>4 DEF ReturnAtOnce
<1>5. CASE ConnectFails \/ RequestRefused
  BY <1>1, <1>5 DEF ReturnAtOnce, ConnectFails, RequestRefused
<1> QED
  BY <1>2, <1>3, <1>4, <1>5

(* A stop of a session that runs finds its connection running.             *)
LEMMA StopInv ==
  ASSUME CallInv, Stop PROVE Begun /\ SessionTypes' /\ SessionInv'
<1> USE DEF Stop, CallStarts
<1>1. CASE ~session.running /\ ReturnAtOnce("ok") /\ UNCHANGED <<session, conn>>
  BY <1>1, SessionKept
     DEF ReturnAtOnce, CallInv, CallLinks, SessionTypes, Begun
<1>2. CASE session.running /\ StopConnection
  <2>1. /\ conn' = conn /\ conn # None /\ conn.configured # None /\ conn.running
        /\ session.applied \in Configs
    BY <1>2, ConnectedFacts
       DEF StopConnection, CallInv, SessionTypes, SessionInv,
           SessionMatchesConnection
  <2>2. Perform("stop", session.applied, StopScript) /\ UNCHANGED session
    BY <1>2, <2>1 DEF StopConnection
  <2>3. call' \in CallRecords /\ call'.op = "stop"
    BY <2>1, <2>2 DEF Perform, CallRecords, Operations
  <2>4. Begun
    BY <2>1, <2>2, <2>3 DEF Perform, Begun, PlanOf
  <2> QED
    BY <2>1, <2>2, <2>3, <2>4, SessionKept DEF Perform, CallInv, SessionTypes
<1> QED
  BY <1>1, <1>2

(* A disconnect leaves a session without a connection, and not running.    *)
LEMMA DisconnectInv ==
  ASSUME CallInv, Disconnect PROVE Begun /\ SessionTypes' /\ SessionInv'
BY DEF CallInv, SessionTypes, CallLinks, SessionInv, SessionMatchesConnection,
       Disconnect, CallStarts, ReturnAtOnce, Begun

(* No call begins while another is in progress, and none touches the       *)
(* device or the network.                                                  *)
LEMMA BeginsFacts ==
  ASSUME CallInv, Begins
  PROVE  /\ CallStarts /\ call = None /\ exchange.id = 0
         /\ Begun /\ SessionTypes' /\ SessionInv'
         /\ UNCHANGED <<registers, channel, requests, responses, exchange, lastId>>
<1>1. CallStarts
  BY DEF Begins, Describe, Configure, Start, Stop, Disconnect
<1>2. Begun /\ SessionTypes' /\ SessionInv'
  BY DescribeInv, ConfigureInv, StartInv, StopInv, DisconnectInv DEF Begins
<1> QED
  BY <1>1, <1>2 DEF CallStarts, CallInv, CallLinks, network

---------------------------------------------------------------------------
(* A call under way                                                        *)

(* There is a next access.                                                 *)
LEMMA HeadFacts ==
  ASSUME SessionTypes, ScriptInv, call # None
  PROVE  /\ script \in Seq(Access) /\ script # <<>> /\ Head(script) \in Access
         /\ Head(script).register \in Registers
         /\ Head(script).kind \in {"put", "get", "read", "fetch"}
         /\ Head(script).kind \in {"put", "get"} => Head(script).value \in Values
<1>1. call.op \in Operations /\ call.config \in Configs
  BY DEF SessionTypes, CallRecords
<1>2. CASE call.op \in {"configure", "configure and start"}
  <2>1. Remains(script, ConfigureScript(call.config))
    BY <1>2 DEF ScriptInv
  <2> QED
    BY <1>1, <2>1, ConfigureStep DEF Access
<1>3. CASE call.op = "start"
  <2> DEFINE v == Flagged(TRUE, call.config.size)
  <2>1. Remains(script, WriteBack("max", v)) /\ v \in Values
    BY <1>1, <1>3, StartScriptFacts DEF ScriptInv, StartScript
  <2> HIDE DEF v
  <2> QED
    BY <2>1, WriteBackStep DEF Access
<1>4. CASE call.op = "stop" /\ script = StopScript
  BY <1>4, StopScriptFacts DEF Access, Fetch, Registers, StopScript
<1>5. CASE call.op = "stop" /\ script # StopScript
  <2> DEFINE v == Word(Head(script).value.n)
  <2>1. Head(script).value \in Values /\ Remains(script, WriteBack("max", v))
    BY <1>5 DEF ScriptInv, ClearWrite
  <2>2. v \in Values
    BY <2>1 DEF Word, Flagged, Values
  <2> HIDE DEF v
  <2> QED
    BY <2>1, <2>2, WriteBackStep DEF Access
<1> QED
  BY <1>1, <1>2, <1>3, <1>4, <1>5 DEF Operations

(* A script of a configure after an answer.                                *)
LEMMA ConfigureRest ==
  ASSUME SessionTypes, ScriptInv, BeingConfigured, NEW m
  PROVE  /\ Rest(m) = Tail(script) /\ Len(script) \in 1 .. 7
         /\ Rest(m) = <<>> <=> Len(script) = 1
         /\ Rest(m) # <<>> =>
              /\ Remains(Rest(m), ConfigureScript(call.config))
              /\ Len(Rest(m)) = Len(script) - 1
<1>1. call.config \in Configs /\ Remains(script, ConfigureScript(call.config))
  BY DEF SessionTypes, CallRecords, ScriptInv, BeingConfigured
<1>2. Head(script).kind # "fetch"
  BY <1>1, ConfigureStep
<1>3. Rest(m) = Tail(script)
  BY <1>2 DEF Rest
<1> QED
  BY <1>1, <1>3, ConfigureStep

(* A script of a start after an answer.                                    *)
LEMMA StartRest ==
  ASSUME SessionTypes, ScriptInv, call # None, NEW m, call.op = "start"
  PROVE  LET v == Flagged(TRUE, call.config.size) IN
         /\ v \in Values /\ Head(script).value = v
         /\ Head(script).register = "max" /\ Head(script).kind \in {"put", "get"}
         /\ Rest(m) = Tail(script) /\ Len(script) \in 1 .. 2
         /\ Len(script) = 2 <=> Head(script).kind = "put"
         /\ Rest(m) = <<>> <=> Len(script) = 1
         /\ Rest(m) # <<>> =>
              /\ Remains(Rest(m), StartScript(call.config))
              /\ Len(Rest(m)) = Len(script) - 1
<1> DEFINE v == Flagged(TRUE, call.config.size)
<1>1. v \in Values /\ Remains(script, WriteBack("max", v))
  BY StartScriptFacts DEF SessionTypes, CallRecords, ScriptInv, StartScript
<1>2. StartScript(call.config) = WriteBack("max", v)
  BY DEF StartScript
<1> HIDE DEF v
<1>3. Head(script).kind # "fetch"
  BY <1>1, WriteBackStep
<1>4. Rest(m) = Tail(script)
  BY <1>3 DEF Rest
<1>5. /\ v \in Values /\ Head(script).value = v
      /\ Head(script).register = "max" /\ Head(script).kind \in {"put", "get"}
      /\ Len(script) \in 1 .. 2
      /\ Len(script) = 2 <=> Head(script).kind = "put"
      /\ Rest(m) = <<>> <=> Len(script) = 1
      /\ Rest(m) # <<>> =>
           /\ Remains(Rest(m), StartScript(call.config))
           /\ Len(Rest(m)) = Len(script) - 1
  BY <1>1, <1>2, <1>4, WriteBackStep
<1> QED
  BY <1>4, <1>5 DEF v

(* A stop that fetched the register goes on to clear its enable bit ...    *)
LEMMA FetchRest ==
  ASSUME NetworkTypes, call # None, NEW m \in responses, ~Mismatch(m),
         call.op = "stop", script = StopScript
  PROVE  /\ m.value \in Values /\ m.value.n \in Nat
         /\ Rest(m) = ClearWrite(m.value.n) /\ Rest(m) # <<>>
         /\ Rest(m) # StopScript /\ Len(Rest(m)) = 2
         /\ Head(Rest(m)).value = Word(m.value.n)
         /\ Head(Rest(m)).value \in Values
         /\ Remains(Rest(m), ClearWrite(Head(Rest(m)).value.n))
<1>1. Head(script) = Fetch /\ Head(script).kind = "fetch"
  BY StopScriptFacts
<1>2. m.value \in Values /\ m.value.n \in Nat
  BY <1>1 DEF Mismatch, NetworkTypes, Responses, Values
<1>3. Rest(m) = ClearWrite(m.value.n)
  BY <1>1 DEF Rest, ClearWrite
<1> DEFINE s == ClearWrite(m.value.n)
<1>4. /\ s \in Seq(Access) /\ Len(s) = 2 /\ Word(m.value.n) \in Values
      /\ s[1] = Put("max", Word(m.value.n)) /\ Len(StopScript) = 1
  BY <1>2, StopScriptFacts
<1>5. Head(s) = s[1]
  BY DEF ClearWrite, WriteBack
<1> HIDE DEF s
<1>6. s # <<>> /\ s # StopScript
  <2>1. Len(<<>>) = 0 /\ Len(s) = 2 /\ Len(StopScript) = 1
    BY <1>4
  <2>2. Len(s) # Len(<<>>) /\ Len(s) # Len(StopScript)
    BY <2>1
  <2> QED
    BY <2>2, Zenon
<1>7. Head(s).value = Word(m.value.n) /\ Head(s).value.n = m.value.n
  <2>1. Head(s) = Put("max", Word(m.value.n))
    BY <1>4, <1>5
  <2>2. \A w : Put("max", w).value = w
    BY DEF Put
  <2>3. Word(m.value.n).n = m.value.n
    BY DEF Word, Flagged
  <2> QED
    BY <2>1, <2>2, <2>3
<1>8. Remains(s, ClearWrite(Head(s).value.n))
  BY <1>4, <1>6, <1>7, RemainsWhole DEF s
<1> QED
  BY <1>2, <1>3, <1>4, <1>6, <1>7, <1>8 DEF s

(* ... by a write that is read back.                                       *)
LEMMA ClearRest ==
  ASSUME SessionTypes, ScriptInv, call # None, NEW m,
         call.op = "stop", script # StopScript
  PROVE  /\ Head(script).value \in Values
         /\ Head(script).value = Word(Head(script).value.n)
         /\ Head(script).register = "max" /\ Head(script).kind \in {"put", "get"}
         /\ Rest(m) = Tail(script) /\ Len(script) \in 1 .. 2
         /\ Len(script) = 2 <=> Head(script).kind = "put"
         /\ Rest(m) = <<>> <=> Len(script) = 1
         /\ Rest(m) # <<>> =>
              /\ Len(Rest(m)) = Len(script) - 1
              /\ Head(Rest(m)).value = Head(script).value
              /\ Remains(Rest(m), ClearWrite(Head(Rest(m)).value.n))
<1> DEFINE v == Word(Head(script).value.n)
<1>1. Head(script).value \in Values /\ Remains(script, WriteBack("max", v))
  BY DEF ScriptInv, ClearWrite
<1>2. v \in Values /\ ClearWrite(Head(script).value.n) = WriteBack("max", v)
  BY <1>1 DEF Word, Flagged, Values, ClearWrite
<1> HIDE DEF v
<1>3. Head(script).kind # "fetch"
  BY <1>1, <1>2, WriteBackStep
<1>4. Rest(m) = Tail(script)
  BY <1>3 DEF Rest
<1>5. Head(script).value = v
  BY <1>1, <1>2, WriteBackStep
<1>6. Rest(m) # <<>> => Head(Rest(m)).value = v
  BY <1>1, <1>2, <1>4, WriteBackStep
<1> QED
  BY <1>1, <1>2, <1>4, <1>5, <1>6, WriteBackStep DEF v

---------------------------------------------------------------------------
(* Types, and the agreement of session and connection                      *)

(* A step that leaves session and connection alone, or fails the call.     *)
LEMMA SessionUntouched ==
  ASSUME SessionTypes, SessionInv, session' = session, conn' = conn,
         call' \in {call, None}, tainted' \in BOOLEAN, abandoned' = abandoned,
         result' \in {result, "error"}
  PROVE  SessionTypes' /\ SessionInv'
<1>1. SessionTypes'
  BY DEF SessionTypes
<1>2. SessionInv'
  BY DEF SessionInv, SessionMatchesConnection
<1> QED
  BY <1>1, <1>2

(* The steps of the client between accesses, and of the network.           *)
Between ==
  \/ Send \/ Resend \/ GiveUp \/ (\E m \in requests : Serve(m)) \/ Lose

(* None of them touches session or connection.                             *)
LEMMA BetweenSession ==
  ASSUME SessionTypes, SessionInv, Between
  PROVE  SessionTypes' /\ SessionInv'
<1>1. /\ session' = session /\ conn' = conn /\ call' \in {call, None}
      /\ tainted' \in {tainted, TRUE} /\ abandoned' = abandoned
      /\ result' \in {result, "error"}
  BY DEF Between, Send, Resend, GiveUp, Fail, Serve, Lose, client, history
<1>2. tainted' \in BOOLEAN
  BY <1>1 DEF SessionTypes
<1> QED
  BY <1>1, <1>2, SessionUntouched

(* A configure that is done leaves session and connection with the         *)
(* configuration of the call, and not running.                             *)
LEMMA ConfigureDoneFacts ==
  ASSUME SessionTypes, NEW c \in Configs, ConfigureDone(c)
  PROVE  /\ conn' \in Connections /\ conn' # None
         /\ conn'.configured = c /\ conn'.running = FALSE
         /\ session' \in [requested: Configs, applied: Configs \cup {None},
                          running: BOOLEAN, described: BOOLEAN]
         /\ session'.requested = c /\ session'.applied = c
         /\ session'.running = FALSE
         /\ tainted' = FALSE /\ abandoned' = FALSE
<1>1. conn' \in Connections /\ conn'.configured = c /\ conn'.running = FALSE
  BY DEF ConfigureDone, Connections
<1>2. \A x \in Connections : x # None
  BY ControlNoneAssumption
<1>3. /\ session' \in [requested: Configs, applied: Configs \cup {None},
                       running: BOOLEAN, described: BOOLEAN]
      /\ session'.requested = c /\ session'.applied = c
      /\ session'.running = FALSE
  BY DEF ConfigureDone, SessionTypes
<1> QED
  BY <1>1, <1>2, <1>3 DEF ConfigureDone

(* A start or stop that is done sets both flags alike.                     *)
LEMMA SetRunningFacts ==
  ASSUME SessionTypes, conn # None, NEW r \in BOOLEAN, SetRunning(r)
  PROVE  /\ conn' \in Connections /\ conn' # None
         /\ conn'.configured = conn.configured /\ conn'.running = r
         /\ session' \in [requested: Configs, applied: Configs \cup {None},
                          running: BOOLEAN, described: BOOLEAN]
         /\ session'.requested = session.requested
         /\ session'.applied = session.applied /\ session'.running = r
         /\ tainted' = tainted /\ abandoned' = abandoned
<1>1. /\ conn' \in Connections /\ conn'.configured = conn.configured
      /\ conn'.running = r
  BY DEF SetRunning, SessionTypes, Connections
<1>2. \A x \in Connections : x # None
  BY ControlNoneAssumption
<1>3. /\ session' \in [requested: Configs, applied: Configs \cup {None},
                       running: BOOLEAN, described: BOOLEAN]
      /\ session'.requested = session.requested
      /\ session'.applied = session.applied /\ session'.running = r
  BY DEF SetRunning, SessionTypes
<1> QED
  BY <1>1, <1>2, <1>3 DEF SetRunning

(* The last answer of a call.                                              *)
LEMMA DoneSession ==
  ASSUME SessionTypes, CallLinks, SessionInv, call # None, CallDone
  PROVE  /\ SessionTypes' /\ SessionInv'
         /\ call' # None => call'.op = "start" /\ call'.config = call.config
                            /\ script' = StartScript(call.config)
         /\ call' = None => script' = <<>>
         /\ conn' # None
<1>1. /\ call.config \in Configs /\ conn # None /\ conn \in Connections
      /\ \A x \in Configs : x # None
  BY ControlNoneAssumption DEF SessionTypes, CallRecords, CallLinks
<1>2. CASE call.op = "configure" /\ ConfigureDone(call.config) /\ Succeed
  <2>1. SessionTypes'
    BY <1>1, <1>2, ConfigureDoneFacts DEF SessionTypes, Succeed
  <2>2. SessionInv'
    BY <1>1, <1>2, ConfigureDoneFacts
       DEF SessionInv, SessionMatchesConnection, Succeed
  <2> QED
    BY <1>1, <1>2, <2>1, <2>2, ConfigureDoneFacts DEF Succeed
<1>3. CASE /\ call.op = "configure and start" /\ ConfigureDone(call.config)
           /\ Perform("start", call.config, StartScript(call.config))
  <2>1. call' \in CallRecords /\ call'.op = "start" /\ call'.config = call.config
    BY <1>1, <1>3 DEF Perform, CallRecords, Operations
  <2>2. SessionTypes'
    BY <1>1, <1>3, <2>1, ConfigureDoneFacts DEF SessionTypes, Perform
  <2>3. SessionInv'
    BY <1>1, <1>3, <2>1, ConfigureDoneFacts
       DEF SessionInv, SessionMatchesConnection
  <2>4. call' # None
    BY <2>1, ControlNoneAssumption
  <2> QED
    BY <1>1, <1>3, <2>1, <2>2, <2>3, <2>4, ConfigureDoneFacts DEF Perform
<1>4. CASE /\ \E r \in BOOLEAN :
                SetRunning(r) /\ (r => call.op = "start")
           /\ Succeed
  <2> PICK r \in BOOLEAN : SetRunning(r) /\ (r => call.op = "start")
    BY <1>4
  <2>1. SessionTypes'
    BY <1>1, <1>4, SetRunningFacts DEF SessionTypes, Succeed
  <2>2. SessionInv'
    BY <1>1, <1>4, SetRunningFacts
       DEF SessionInv, SessionMatchesConnection, Succeed
  <2> QED
    BY <1>1, <1>4, <2>1, <2>2, SetRunningFacts DEF Succeed
<1> QED
  BY <1>2, <1>3, <1>4 DEF CallDone

(* An answer, or a response that is refused.                               *)
LEMMA ReceiveSession ==
  ASSUME SessionTypes, CallLinks, SessionInv, NEW m \in responses, Receive(m)
  PROVE  SessionTypes' /\ SessionInv' /\ call # None
<1>1. call # None
  BY DEF Receive, CallLinks
<1>2. CASE Fail
  <2>1. /\ session' = session /\ conn' = conn /\ call' = None
        /\ tainted' \in BOOLEAN /\ abandoned' = abandoned /\ result' = "error"
    BY <1>2 DEF Fail
  <2> QED
    BY <1>1, <2>1, SessionUntouched
<1>3. CASE UNCHANGED <<session, conn, call, result, tainted, abandoned>>
  <2>1. /\ session' = session /\ conn' = conn /\ call' = call
        /\ tainted' \in BOOLEAN /\ abandoned' = abandoned /\ result' = result
    BY <1>3 DEF SessionTypes
  <2> QED
    BY <1>1, <2>1, SessionUntouched
<1>4. CASE CallDone
  BY <1>1, <1>4, DoneSession
<1> QED
  BY <1>2, <1>3, <1>4 DEF Receive, Accepted

(* The element drops its session only between calls.                       *)
Dropped == call = None /\ DropSession

(* The new session has no connection and runs nothing.                     *)
LEMMA DroppedSession ==
  ASSUME SessionTypes, Dropped PROVE SessionTypes' /\ SessionInv'
<1>1. /\ conn' = None /\ result' = "none" /\ call' = None
      /\ tainted' = tainted /\ abandoned' = abandoned
  BY DEF Dropped, DropSession, history
<1>2. /\ session' \in [requested: Configs, applied: Configs \cup {None},
                       running: BOOLEAN, described: BOOLEAN]
      /\ session'.running = FALSE
  BY DEF Dropped, DropSession, NewSession
<1>3. SessionTypes'
  BY <1>1, <1>2 DEF SessionTypes
<1> QED
  BY <1>1, <1>2, <1>3 DEF SessionInv, SessionMatchesConnection

---------------------------------------------------------------------------
(* The network and the device keep their types                             *)

(* A call that begins looks at the registers and sends nothing.            *)
LEMMA BeginsNetwork ==
  ASSUME NetworkTypes, CallInv, Begins PROVE NetworkTypes'
<1>1. /\ UNCHANGED <<registers, channel, requests, responses, exchange, lastId>>
      /\ seen' = [r \in Registers |-> {registers[r]}]
  BY BeginsFacts DEF CallStarts
<1>2. seen' \in [Registers -> SUBSET Values]
  BY <1>1 DEF NetworkTypes
<1> QED
  BY <1>1, <1>2 DEF NetworkTypes

(* What the client sends is an access of its script.                       *)
LEMMA SendsNetwork ==
  ASSUME NetworkTypes, SessionTypes, CallLinks, ScriptInv, Send \/ Resend
  PROVE  NetworkTypes' /\ CallLinks'
<1>1. call # None
  BY DEF Send, Resend, CallLinks
<1>2. Head(script) \in Access
  BY <1>1, HeadFacts
<1>3. \A id \in Nat \ {0}, n \in Nat : Request(id, n) \in Requests
  BY <1>2 DEF Request, Requests
<1>4. CASE Send
  BY <1>1, <1>3, <1>4, MaxAttemptsAssumption
     DEF Send, NetworkTypes, CallLinks, history
<1>5. CASE Resend
  <2>1. exchange.id \in Nat \ {0} /\ exchange.attempts + 1 \in 1 .. MaxAttempts
    BY <1>5, MaxAttemptsAssumption DEF Resend, NetworkTypes, AttemptsLeft
  <2>2. exchange' \in [id: Nat, attempts: 0 .. MaxAttempts]
        /\ exchange'.id = exchange.id
    BY <1>5, <2>1, MaxAttemptsAssumption DEF Resend, NetworkTypes, NextAttempt
  <2>3. requests' \in SUBSET Requests
    BY <1>3, <1>5, <2>1 DEF Resend, NetworkTypes
  <2> QED
    BY <1>1, <1>5, <2>2, <2>3 DEF Resend, NetworkTypes, CallLinks, history
<1> QED
  BY <1>4, <1>5

(* What is left after an exchange.                                         *)
LEMMA EndedNetwork ==
  ASSUME NetworkTypes, NEW R \in SUBSET responses,
         exchange' = [id |-> 0, attempts |-> 0],
         requests' = Leftovers(requests), responses' = Unread(R),
         UNCHANGED <<channel, registers, lastId>>,
         seen' \in [Registers -> SUBSET Values]
  PROVE  NetworkTypes'
<1>1. requests' \subseteq requests /\ responses' \subseteq responses
  BY DEF Leftovers, Unread
<1>2. exchange' \in [id: Nat, attempts: 0 .. MaxAttempts] /\ exchange'.id = 0
  BY MaxAttemptsAssumption
<1> QED
  BY <1>1, <1>2 DEF NetworkTypes

(* A call that gives up.                                                   *)
LEMMA GiveUpNetwork ==
  ASSUME NetworkTypes, CallLinks, GiveUp PROVE NetworkTypes' /\ CallLinks'
<1>1. NetworkTypes'
  BY EndedNetwork DEF GiveUp, EndExchange, Fail, NetworkTypes
<1> QED
  BY <1>1 DEF GiveUp, EndExchange, Fail, CallLinks

(* A response that is received leaves accesses to do, or no call.          *)
LEMMA ReceiveNetwork ==
  ASSUME NetworkTypes, SessionTypes, CallLinks, SessionInv,
         NEW m \in responses, Receive(m)
  PROVE  NetworkTypes' /\ CallLinks'
<1>1. call # None
  BY DEF Receive, CallLinks
<1>2. CASE Fail
  <2>1. call' = None /\ script' = <<>> /\ seen' = seen
    BY <1>2 DEF Fail
  <2>2. NetworkTypes'
    BY <2>1, EndedNetwork DEF Receive, NetworkTypes
  <2> QED
    BY <2>1, <2>2 DEF Receive, CallLinks
<1>3. CASE /\ Rest(m) # <<>> /\ script' = Rest(m)
           /\ UNCHANGED <<conn, call, seen>>
  <2>1. NetworkTypes'
    BY <1>3, EndedNetwork DEF Receive, NetworkTypes
  <2> QED
    BY <1>1, <1>3, <2>1 DEF Receive, CallLinks
<1>4. CASE CallDone
  <2>1. seen' = seen
    BY <1>4 DEF CallDone, Succeed
  <2>2. NetworkTypes'
    BY <2>1, EndedNetwork DEF Receive, NetworkTypes
  <2>3. /\ call' # None => script' = StartScript(call.config)
        /\ call' = None => script' = <<>>
        /\ conn' # None
    BY <1>1, <1>4, DoneSession
  <2>4. call.config \in Configs
    BY <1>1 DEF SessionTypes, CallRecords
  <2>5. StartScript(call.config) # <<>>
    BY DEF StartScript, WriteBack
  <2> QED
    BY <2>2, <2>3, <2>5 DEF Receive, CallLinks
<1> QED
  BY <1>2, <1>3, <1>4 DEF Receive, Accepted

(* The device: a write sets a register to a value of its type, and the     *)
(* answer carries one.                                                     *)
LEMMA ServeNetwork ==
  ASSUME NetworkTypes, CallLinks, NEW m \in requests, Serve(m)
  PROVE  NetworkTypes' /\ CallLinks'
<1>1. m \in Requests /\ m.access \in Access /\ m.access.register \in Registers
  BY DEF NetworkTypes, Requests, Access
<1>2. m.access.kind = "put" => m.access.value \in Values
  BY <1>1 DEF Access
<1>3. registers' \in [Registers -> Values]
  BY <1>1, <1>2 DEF Serve, NetworkTypes
<1> DEFINE answer == [id |-> m.id, attempt |-> m.attempt,
                      value |-> IF m.access.kind = "put" THEN None
                                ELSE registers[m.access.register]]
<1>4. answer \in Responses
  BY <1>1 DEF NetworkTypes, Responses, Requests
<1> HIDE DEF answer
<1>5. responses' \subseteq responses \cup {answer}
  BY DEF Serve, answer
<1>6. seen' \in [Registers -> SUBSET Values]
  BY <1>3 DEF Serve, NetworkTypes
<1>7. /\ requests' \subseteq requests
      /\ UNCHANGED <<channel, conn, call, script, exchange, lastId>>
  BY DEF Serve, client
<1>8. NetworkTypes'
  BY <1>3, <1>4, <1>5, <1>6, <1>7 DEF NetworkTypes
<1> QED
  BY <1>7, <1>8 DEF CallLinks

(* A message is lost.                                                      *)
LEMMA LoseNetwork ==
  ASSUME NetworkTypes, CallLinks, Lose PROVE NetworkTypes' /\ CallLinks'
<1>1. /\ requests' \subseteq requests /\ responses' \subseteq responses
      /\ UNCHANGED <<channel, registers, conn, call, script, exchange, lastId, seen>>
  BY DEF Lose, client, history
<1>2. NetworkTypes'
  BY <1>1 DEF NetworkTypes
<1> QED
  BY <1>1, <1>2 DEF CallLinks

(* The session is dropped.                                                 *)
LEMMA DroppedNetwork ==
  ASSUME NetworkTypes, CallLinks, Dropped PROVE NetworkTypes' /\ CallLinks'
<1>1. /\ UNCHANGED <<channel, registers, requests, responses, call, script,
                     exchange, lastId, seen>>
      /\ call = None
  BY DEF Dropped, DropSession, network, history
<1>2. NetworkTypes'
  BY <1>1 DEF NetworkTypes
<1> QED
  BY <1>1, <1>2 DEF CallLinks

---------------------------------------------------------------------------
(* The script is what is left of the call's                                *)

(* A call that is performed begins with all of its script.                 *)
LEMMA BeginsScript ==
  ASSUME CallInv, Begins PROVE ScriptInv' /\ CallLinks'
<1>1. Begun /\ exchange'.id = 0
  BY BeginsFacts
<1>2. CASE call' = None /\ script' = <<>>
  BY <1>1, <1>2 DEF ScriptInv, CallLinks
<1>3. CASE call' \in CallRecords /\ conn' # None /\ script' = PlanOf(call')
  <2>1. /\ call'.op \in Operations /\ call'.config \in Configs /\ call' # None
    BY <1>3, ControlNoneAssumption DEF CallRecords
  <2>2. CASE call'.op \in {"configure", "configure and start"}
    <3>1. script' = ConfigureScript(call'.config)
      BY <1>3, <2>2 DEF PlanOf
    <3>2. script' \in Seq(Access) /\ script' # <<>>
      BY <2>1, <3>1, ConfigureScriptFacts
    <3>3. Remains(script', ConfigureScript(call'.config))
      BY <3>1, <3>2, RemainsWhole
    <3> QED
      BY <1>3, <2>1, <2>2, <3>2, <3>3 DEF ScriptInv, CallLinks
  <2>3. CASE call'.op = "start"
    <3>1. script' = StartScript(call'.config)
      BY <1>3, <2>3 DEF PlanOf
    <3>2. script' \in Seq(Access) /\ script' # <<>>
      BY <2>1, <3>1, StartScriptFacts DEF StartScript, WriteBack
    <3>3. Remains(script', StartScript(call'.config))
      BY <3>1, <3>2, RemainsWhole
    <3> QED
      BY <1>3, <2>1, <2>3, <3>2, <3>3 DEF ScriptInv, CallLinks
  <2>4. CASE call'.op = "stop"
    <3>1. script' = StopScript /\ script' # <<>>
      BY <1>3, <2>4 DEF PlanOf, StopScript
    <3> QED
      BY <1>3, <2>1, <2>4, <3>1 DEF ScriptInv, CallLinks
  <2> QED
    BY <2>1, <2>2, <2>3, <2>4 DEF Operations
<1> QED
  BY <1>1, <1>2, <1>3 DEF Begun

(* Nothing but the client's calls and answers touches the script.          *)
LEMMA BetweenScript ==
  ASSUME ScriptInv, Between PROVE ScriptInv'
<1>1. call' = None \/ (call' = call /\ script' = script)
  BY DEF Between, Send, Resend, GiveUp, Fail, Serve, Lose, client
<1> QED
  BY <1>1 DEF ScriptInv

(* An answer leaves the rest of it; a configure that also starts goes on   *)
(* with the script of a start.                                             *)
LEMMA ReceiveScript ==
  ASSUME NetworkTypes, SessionTypes, CallLinks, SessionInv, ScriptInv,
         NEW m \in responses, Receive(m)
  PROVE  ScriptInv'
<1>1. call # None /\ call.op \in Operations /\ call.config \in Configs
  BY DEF Receive, CallLinks, SessionTypes, CallRecords
<1>2. CASE Fail
  BY <1>2 DEF Fail, ScriptInv
<1>3. CASE ~Mismatch(m) /\ Rest(m) # <<>> /\ script' = Rest(m) /\ call' = call
  <2>1. CASE call.op \in {"configure", "configure and start"}
    <3>1. Remains(script', ConfigureScript(call'.config))
      <4>1. Rest(m) # <<>> => Remains(Rest(m), ConfigureScript(call.config))
        BY <1>1, <2>1, ConfigureRest DEF BeingConfigured
      <4> QED
        BY <1>3, <4>1, Zenon
    <3> QED
      BY <1>3, <2>1, <3>1 DEF ScriptInv
  <2>2. CASE call.op = "start"
    BY <1>1, <1>3, <2>2, StartRest DEF ScriptInv
  <2>3. CASE call.op = "stop" /\ script = StopScript
    BY <1>1, <1>3, <2>3, FetchRest DEF ScriptInv
  <2>4. CASE call.op = "stop" /\ script # StopScript
    BY <1>1, <1>3, <2>4, ClearRest DEF ScriptInv
  <2> QED
    BY <1>1, <2>1, <2>2, <2>3, <2>4 DEF Operations
<1>4. CASE CallDone
  <2>1. call' # None => /\ call'.op = "start" /\ call'.config = call.config
                        /\ script' = StartScript(call.config)
    BY <1>1, <1>4, DoneSession
  <2>2. Remains(StartScript(call.config), StartScript(call.config))
    BY <1>1, StartScriptFacts, RemainsWhole DEF StartScript, WriteBack
  <2> QED
    BY <2>1, <2>2 DEF ScriptInv
<1> QED
  BY <1>2, <1>3, <1>4 DEF Receive, Accepted

---------------------------------------------------------------------------
(* Writes that the call was told of were made                              *)

(* With no exchange under way there is nothing to compare with.            *)
LEMMA NoExchange ==
  ASSUME NetworkTypes, exchange.id = 0
  PROVE  \A m \in requests \cup responses : m.id # exchange.id
BY DEF NetworkTypes, Requests, Responses

(* A call that begins has been told of nothing.                            *)
LEMMA BeginsExchange ==
  ASSUME CallInv, NetworkTypes, ExchangeInv, Begins PROVE ExchangeInv'
<1>1. /\ writes' = {}
      /\ UNCHANGED <<requests, responses, exchange, lastId>> /\ exchange.id = 0
  BY BeginsFacts DEF CallStarts
<1>2. \A m \in requests \cup responses : m.id # exchange.id
  BY <1>1, NoExchange
<1> QED
  BY <1>1, <1>2 DEF ExchangeInv, WritesHappened

(* A new exchange has an id no message carries; a repeated request asks    *)
(* for the same access.                                                    *)
LEMMA SendsExchange ==
  ASSUME NetworkTypes, CallLinks, ExchangeInv, Send \/ Resend
  PROVE  ExchangeInv'
<1>1. UNCHANGED <<script, responses, seen, writes>>
  BY DEF Send, Resend, history
<1>2. CASE Send
  <2>1. /\ lastId' = lastId + 1 /\ exchange'.id = lastId + 1
        /\ requests' = requests \cup {Request(lastId + 1, 1)}
    BY <1>2 DEF Send
  <2>2. /\ Request(lastId + 1, 1).id = lastId + 1
        /\ Request(lastId + 1, 1).access = Head(script)
    BY DEF Request
  <2>3. /\ \A m \in requests \cup responses : m.id \in Nat /\ m.id <= lastId
        /\ lastId \in Nat
    BY DEF NetworkTypes, ExchangeInv, Requests, Responses
  <2> HIDE DEF Request
  <2>4. \A m \in requests \cup responses : m.id <= lastId' /\ m.id # exchange'.id
    BY <2>1, <2>3
  <2>5. \A m \in requests' \cup responses' : m.id <= lastId'
    BY <1>1, <2>1, <2>2, <2>3, <2>4
  <2>6. \A m \in requests' : m.id = exchange'.id => m.access = Head(script)
    BY <2>1, <2>2, <2>4
  <2> QED
    BY <1>1, <2>4, <2>5, <2>6 DEF ExchangeInv, WritesHappened
<1>3. CASE Resend
  <2> DEFINE r == Request(exchange.id, exchange.attempts + 1)
  <2>1. lastId' = lastId /\ exchange'.id = exchange.id /\ requests' = requests \cup {r}
    BY <1>3 DEF Resend, NetworkTypes
  <2>2. r.id = exchange.id /\ r.access = Head(script) /\ exchange.id <= lastId
    BY DEF Request, NetworkTypes
  <2> HIDE DEF r
  <2> QED
    BY <1>1, <2>1, <2>2 DEF ExchangeInv, WritesHappened
<1> QED
  BY <1>2, <1>3

(* Once an exchange has ended its messages mean nothing.                   *)
LEMMA EndedExchange ==
  ASSUME NetworkTypes, NetworkTypes', ExchangeInv, exchange'.id = 0,
         lastId' = lastId,
         requests' \subseteq requests, responses' \subseteq responses,
         writes' \in SUBSET (Registers \X Values), WritesHappened'
  PROVE  ExchangeInv'
<1>1. \A m \in requests' \cup responses' : m.id # exchange'.id
  BY DEF NetworkTypes, Requests, Responses
<1> QED
  BY <1>1 DEF ExchangeInv

(* What an answer to a write says was written had been.                    *)
LEMMA ReceiveExchange ==
  ASSUME NetworkTypes, SessionTypes, CallLinks, SessionInv, ScriptInv,
         ExchangeInv, NEW m \in responses, Receive(m)
  PROVE  ExchangeInv'
<1>1. NetworkTypes'
  BY ReceiveNetwork
<1>2. /\ exchange'.id = 0 /\ lastId' = lastId
      /\ requests' \subseteq requests /\ responses' \subseteq responses
  BY DEF Receive, Leftovers, Unread
<1>3. call # None
  BY DEF Receive, CallLinks
<1>4. seen' = seen
  BY DEF Receive, Accepted, Fail, CallDone, Succeed
<1>5. CASE writes' = writes
  BY <1>1, <1>2, <1>4, <1>5, EndedExchange DEF ExchangeInv, WritesHappened
<1>6. CASE /\ m.id = exchange.id /\ Head(script).kind = "put"
           /\ writes' = writes \cup {<<Head(script).register, Head(script).value>>}
  <2> DEFINE w == <<Head(script).register, Head(script).value>>
  <2>1. w \in Registers \X Values
    BY <1>3, <1>6, HeadFacts
  <2>2. w[2] \in seen[w[1]]
    BY <1>6 DEF ExchangeInv
  <2>3. writes' = writes \cup {w}
    BY <1>6
  <2> HIDE DEF w
  <2>4. writes' \in SUBSET (Registers \X Values) /\ WritesHappened'
    BY <1>4, <2>1, <2>2, <2>3 DEF ExchangeInv, WritesHappened
  <2> QED
    BY <1>1, <1>2, <2>4, EndedExchange
<1> QED
  BY <1>5, <1>6 DEF Receive, Accepted, Fail, IsAnswer

(* A call that gives up.                                                   *)
LEMMA GiveUpExchange ==
  ASSUME NetworkTypes, CallLinks, ExchangeInv, GiveUp PROVE ExchangeInv'
<1>1. NetworkTypes'
  BY GiveUpNetwork
<1>2. /\ exchange'.id = 0 /\ lastId' = lastId
      /\ requests' \subseteq requests /\ responses' \subseteq responses
      /\ writes' = writes /\ seen' = seen
  BY DEF GiveUp, EndExchange, Fail, Leftovers, Unread
<1> QED
  BY <1>1, <1>2, EndedExchange DEF ExchangeInv, WritesHappened

(* The device answers a write when it has made it.                         *)
LEMMA ServeExchange ==
  ASSUME NetworkTypes, SessionTypes, CallLinks, ScriptInv, ExchangeInv,
         NEW m \in requests, Serve(m)
  PROVE  ExchangeInv'
<1>1. UNCHANGED <<exchange, lastId, script, writes>> /\ requests' \subseteq requests
  BY DEF Serve, client
<1>2. m \in Requests /\ m.access \in Access /\ m.access.register \in Registers
  BY DEF NetworkTypes, Requests, Access
<1>3. \A r \in Registers : seen[r] \subseteq seen'[r] /\ registers'[r] \in seen'[r]
  BY DEF Serve
<1>4. m.access.kind = "put" =>
        registers'[m.access.register] = m.access.value
  BY <1>2 DEF Serve, NetworkTypes
<1> DEFINE answer == [id |-> m.id, attempt |-> m.attempt,
                      value |-> IF m.access.kind = "put" THEN None
                                ELSE registers[m.access.register]]
<1>5. answer.id = m.id
  OBVIOUS
<1>6. responses' \subseteq responses \cup {answer}
  BY DEF Serve
<1> HIDE DEF answer
<1>7. \A a \in requests' \cup responses' : a.id <= lastId'
  BY <1>1, <1>5, <1>6 DEF ExchangeInv
<1>8. ASSUME NEW a \in responses', a.id = exchange'.id, Head(script').kind = "put"
      PROVE  Head(script').value \in seen'[Head(script').register]
  <2>1. CASE a \in responses
    <3>1. Head(script).value \in seen[Head(script).register]
      BY <1>1, <1>8, <2>1 DEF ExchangeInv
    <3>2. call # None
      BY <1>1, <1>8, <2>1 DEF CallLinks, NetworkTypes, Responses
    <3>3. Head(script).register \in Registers
      BY <3>2, HeadFacts
    <3> QED
      BY <1>1, <1>3, <3>1, <3>3
  <2>2. CASE a = answer
    <3>1. m.access = Head(script)
      BY <1>1, <1>5, <1>8, <2>2 DEF ExchangeInv
    <3> QED
      BY <1>1, <1>2, <1>3, <1>4, <1>8, <3>1
  <2> QED
    BY <1>6, <2>1, <2>2
<1>9. WritesHappened'
  BY <1>1, <1>3 DEF ExchangeInv, WritesHappened
<1> QED
  BY <1>1, <1>7, <1>8, <1>9 DEF ExchangeInv

(* A message is lost, or the session dropped.                              *)
LEMMA FewerExchange ==
  ASSUME ExchangeInv, Lose \/ Dropped PROVE ExchangeInv'
<1>1. /\ requests' \subseteq requests /\ responses' \subseteq responses
      /\ UNCHANGED <<script, exchange, lastId, seen, writes>>
  BY DEF Lose, Dropped, DropSession, client, history, network
<1> QED
  BY <1>1 DEF ExchangeInv, WritesHappened

---------------------------------------------------------------------------
(* A prompt network                                                        *)

PromptParts == PromptMessages /\ Answered /\ Progress

(* Between exchanges a prompt network is empty.                            *)
LEMMA Quiet ==
  ASSUME NetworkTypes, PromptMessages, exchange.id = 0
  PROVE  requests = {} /\ responses = {}
BY NoExchange DEF PromptMessages

(* It is, too, when an exchange ends.                                      *)
LEMMA NothingLeft ==
  ASSUME NetworkTypes, Prompt, PromptMessages, NEW M, M \subseteq requests \cup responses
  PROVE  Leftovers(M) = {} /\ Unread(M) = {}
<1>1. \A m \in M : m.id = exchange.id /\ m.id \in Nat
  BY DEF PromptMessages, NetworkTypes, Requests, Responses
<1>2. Leftovers(M) = {}
  <2>1. channel.lifetime = 0
    BY DEF Prompt
  <2> QED
    BY <1>1, <2>1 DEF Leftovers
<1> QED
  BY <1>2 DEF Unread

(* An empty network promises nothing.                                      *)
LEMMA EmptyAnswered ==
  ASSUME requests' = {}, responses' = {} PROVE PromptMessages' /\ Answered'
BY DEF PromptMessages, Answered

(* A call that begins has made nothing of the registers yet.               *)
LEMMA BegunProgress ==
  ASSUME Begun PROVE Progress'
<1>1. CASE call' = None
  BY <1>1 DEF Progress
<1>2. CASE call' \in CallRecords /\ script' = PlanOf(call')
  <2>1. call'.config \in Configs /\ call'.op \in Operations
    BY <1>2 DEF CallRecords
  <2>2. CASE call'.op \in {"configure", "configure and start"}
    <3>1. Len(script') = 7
      BY <1>2, <2>1, <2>2, ConfigureScriptFacts DEF PlanOf
    <3>2. ~(Len(script') <= 6) /\ ~(Len(script') <= 4) /\ ~(Len(script') <= 2)
      BY <3>1
    <3>3. call'.op # "start" /\ call'.op # "stop"
      BY <2>2
    <3> QED
      BY <3>2, <3>3 DEF Progress
  <2>3. CASE call'.op = "start"
    <3>1. Len(script') = 2
      BY <1>2, <2>1, <2>3, StartScriptFacts DEF PlanOf
    <3> QED
      BY <2>3, <3>1 DEF Progress
  <2>4. CASE call'.op = "stop"
    <3>1. script' = StopScript
      BY <1>2, <2>4 DEF PlanOf
    <3> QED
      BY <2>4, <3>1 DEF Progress
  <2> QED
    BY <2>1, <2>2, <2>3, <2>4 DEF Operations
<1> QED
  BY <1>1, <1>2 DEF Begun

(* It sends nothing.                                                       *)
LEMMA BeginsPrompt ==
  ASSUME CallInv, NetworkTypes, PromptParts, Begins PROVE PromptParts'
<1>1. /\ Begun /\ UNCHANGED <<requests, responses>> /\ exchange.id = 0
  BY BeginsFacts
<1>2. requests' = {} /\ responses' = {}
  BY <1>1, Quiet DEF PromptParts
<1> QED
  BY <1>1, <1>2, EmptyAnswered, BegunProgress DEF PromptParts

(* The client sends in an empty network, or repeats its request.           *)
LEMMA SendsPrompt ==
  ASSUME NetworkTypes, PromptParts, Send \/ Resend PROVE PromptParts'
<1>1. UNCHANGED <<registers, responses, call, script>>
  BY DEF Send, Resend
<1>2. Progress'
  BY <1>1 DEF PromptParts, Progress
<1>3. CASE Send
  <2>1. requests = {} /\ responses = {}
    BY <1>3, Quiet DEF Send, PromptParts
  <2>2. /\ exchange'.id = lastId + 1
        /\ requests' = requests \cup {Request(lastId + 1, 1)}
        /\ Request(lastId + 1, 1).id = lastId + 1
    BY <1>3 DEF Send, Request
  <2> HIDE DEF Request
  <2>3. PromptMessages' /\ Answered'
    BY <1>1, <2>1, <2>2 DEF PromptMessages, Answered
  <2> QED
    BY <1>2, <2>3 DEF PromptParts
<1>4. CASE Resend
  <2> DEFINE r == Request(exchange.id, exchange.attempts + 1)
  <2>1. /\ exchange'.id = exchange.id /\ requests' = requests \cup {r}
        /\ r.id = exchange.id
    BY <1>4 DEF Resend, NetworkTypes, Request
  <2> HIDE DEF r
  <2>2. PromptMessages' /\ Answered'
    BY <1>1, <2>1 DEF PromptParts, PromptMessages, Answered
  <2> QED
    BY <1>2, <2>2 DEF PromptParts
<1> QED
  BY <1>3, <1>4

(* A call that gives up.                                                   *)
LEMMA GiveUpPrompt ==
  ASSUME NetworkTypes, Prompt, PromptParts, GiveUp PROVE PromptParts'
<1>1. requests' = {} /\ responses' = {}
  BY NothingLeft DEF GiveUp, EndExchange, PromptParts
<1>2. Progress'
  BY DEF GiveUp, Fail, Progress
<1> QED
  BY <1>1, <1>2, EmptyAnswered DEF PromptParts

(* An answer to a write of a configuration says what its register holds.   *)
LEMMA ConfigureProgress ==
  ASSUME NetworkTypes, SessionTypes, ScriptInv, Answered, Progress,
         BeingConfigured, NEW m \in responses, Rest(m) # <<>>,
         script' = Rest(m), call' = call, registers' = registers
  PROVE  Progress'
<1> DEFINE c == call.config
           n == Len(script)
<1>1. c \in Configs /\ Remains(script, ConfigureScript(c))
  BY DEF SessionTypes, CallRecords, ScriptInv, BeingConfigured
<1>2. n \in 1 .. 7 /\ Len(script') = n - 1
  BY ConfigureRest
<1>3. /\ n = 7 => Head(script) = Put("port", Word(c.port))
      /\ n = 5 => Head(script) = Put("ip", Word(c.ip))
      /\ n = 3 => Head(script) = Put("max", Word(c.size))
  BY <1>1, ConfigureStep
<1>4. \A r, v : Head(script) = Put(r, v) => registers[r] = v
  BY DEF Put, Answered
<1>5. /\ n = 7 => registers["port"] = Word(c.port)
      /\ n = 5 => registers["ip"] = Word(c.ip)
      /\ n = 3 => registers["max"] = Word(c.size)
  BY <1>3, <1>4
<1>6. /\ n <= 6 => registers["port"] = Word(c.port)
      /\ n <= 4 => registers["ip"] = Word(c.ip)
      /\ n <= 2 => registers["max"] = Word(c.size)
  BY DEF Progress, BeingConfigured
<1>7. /\ n - 1 <= 6 => registers["port"] = Word(c.port)
      /\ n - 1 <= 4 => registers["ip"] = Word(c.ip)
      /\ n - 1 <= 2 => registers["max"] = Word(c.size)
  <2> HIDE DEF n
  <2> QED
    BY <1>2, <1>5, <1>6
<1> QED
  BY <1>2, <1>7 DEF Progress, BeingConfigured

(* So does one to the write of a start ...                                 *)
LEMMA StartProgress ==
  ASSUME NetworkTypes, SessionTypes, ScriptInv, Answered, Progress,
         call # None, call.op = "start", NEW m \in responses, Rest(m) # <<>>,
         script' = Rest(m), call' = call, registers' = registers
  PROVE  Progress'
<1> DEFINE v == Flagged(TRUE, call.config.size)
<1>1. /\ Head(script).value = v /\ Head(script).register = "max"
      /\ Len(script) \in 1 .. 2
      /\ Len(script) = 2 <=> Head(script).kind = "put"
      /\ Rest(m) = <<>> <=> Len(script) = 1
  BY StartRest
<1>2. Head(script).kind = "put"
  BY <1>1
<1> HIDE DEF v
<1>3. registers["max"] = v
  BY <1>1, <1>2 DEF Answered
<1> QED
  BY <1>3 DEF Progress, v

(* ... and of a stop, which writes back the packet size it read.           *)
LEMMA StopProgress ==
  ASSUME NetworkTypes, SessionTypes, ScriptInv, Answered, Progress,
         call # None, call.op = "stop", NEW m \in responses, Rest(m) # <<>>,
         ~Mismatch(m),
         script' = Rest(m), call' = call, registers' = registers
  PROVE  Progress'
<1>1. CASE script = StopScript
  <2>1. /\ Head(Rest(m)).value = Word(m.value.n) /\ Len(Rest(m)) = 2
    BY <1>1, FetchRest
  <2>2. m.value = registers["max"]
    BY <1>1, StopScriptFacts DEF Answered
  <2>3. /\ Head(script').value = Word(registers'["max"].n)
        /\ Len(script') # 1
        /\ call'.op = "stop"
    BY <2>1, <2>2
  <2> QED
    BY <2>3 DEF Progress
<1>2. CASE script # StopScript
  <2>1. /\ Head(script).value = Word(Head(script).value.n)
        /\ Head(script).register = "max"
        /\ Len(script) \in 1 .. 2
        /\ Len(script) = 2 <=> Head(script).kind = "put"
        /\ Rest(m) = <<>> <=> Len(script) = 1
        /\ Rest(m) # <<>> => Head(Rest(m)).value = Head(script).value
    BY <1>2, ClearRest
  <2>2. registers["max"] = Head(script).value
    BY <2>1 DEF Answered
  <2>3. Word(Head(script).value.n).enable = FALSE
    BY DEF Word, Flagged
  <2> QED
    BY <2>1, <2>2, <2>3 DEF Progress
<1> QED
  BY <1>1, <1>2

(* A response that is received: the next access, a start, or no call.      *)
LEMMA ReceivePrompt ==
  ASSUME SessionTypes, NetworkTypes, CallLinks, SessionInv, ScriptInv, Prompt,
         PromptParts, NEW m \in responses, Receive(m)
  PROVE  PromptParts'
<1>1. requests' = {} /\ responses' = {}
  BY NothingLeft DEF Receive, PromptParts
<1>2. call # None /\ call.op \in Operations /\ registers' = registers
  BY DEF Receive, CallLinks, SessionTypes, CallRecords
<1>3. Progress'
  <2>1. CASE Fail
    BY <2>1 DEF Fail, Progress
  <2>2. CASE ~Mismatch(m) /\ Rest(m) # <<>> /\ script' = Rest(m) /\ call' = call
    <3>1. CASE call.op \in {"configure", "configure and start"}
      BY <1>2, <2>2, <3>1, ConfigureProgress DEF BeingConfigured, PromptParts
    <3>2. CASE call.op = "start"
      BY <1>2, <2>2, <3>2, StartProgress DEF PromptParts
    <3>3. CASE call.op = "stop"
      BY <1>2, <2>2, <3>3, StopProgress DEF PromptParts
    <3> QED
      BY <1>2, <3>1, <3>2, <3>3 DEF Operations
  <2>3. CASE CallDone
    <3>1. call' # None => /\ call'.op = "start" /\ call'.config = call.config
                          /\ script' = StartScript(call.config)
      BY <1>2, <2>3, DoneSession
    <3>2. Len(StartScript(call.config)) = 2
      BY DEF StartScript, WriteBack
    <3>3. call' # None => call'.op = "start" /\ Len(script') # 1
      BY <3>1, <3>2
    <3> QED
      BY <3>3 DEF Progress
  <2> QED
    BY <2>1, <2>2, <2>3 DEF Receive, Accepted
<1> QED
  BY <1>1, <1>3, EmptyAnswered DEF PromptParts

(* The device does the next access of the call, at most.                   *)
LEMMA ServePrompt ==
  ASSUME SessionTypes, NetworkTypes, CallLinks, ScriptInv, ExchangeInv,
         PromptParts, NEW m \in requests, Serve(m)
  PROVE  PromptParts'
<1>1. UNCHANGED <<exchange, call, script>> /\ requests' \subseteq requests
  BY DEF Serve, client
<1>2. m.id = exchange.id /\ m.access = Head(script) /\ m \in Requests
  BY DEF PromptParts, PromptMessages, ExchangeInv, NetworkTypes
<1>3. call # None /\ call.op \in Operations
  BY <1>2 DEF CallLinks, Requests, SessionTypes, CallRecords
<1>4. Head(script) \in Access /\ Head(script).register \in Registers
  BY <1>3, HeadFacts
<1>5. registers' = IF Head(script).kind = "put"
                   THEN [registers EXCEPT ![Head(script).register] =
                                            Head(script).value]
                   ELSE registers
  BY <1>2 DEF Serve
<1> DEFINE answer == [id |-> m.id, attempt |-> m.attempt,
                      value |-> IF m.access.kind = "put" THEN None
                                ELSE registers[m.access.register]]
<1>6. /\ answer.id = exchange.id
      /\ Head(script).kind # "put" =>
           answer.value = registers[Head(script).register]
  BY <1>2
<1>7. responses' \subseteq responses \cup {answer}
  BY DEF Serve
<1> HIDE DEF answer
<1>8. PromptMessages'
  BY <1>1, <1>6, <1>7 DEF PromptParts, PromptMessages
<1>9. Answered'
  <2>1. CASE Head(script).kind = "put"
    <3>1. registers'[Head(script).register] = Head(script).value
      BY <1>4, <1>5, <2>1 DEF NetworkTypes
    <3> QED
      BY <1>1, <2>1, <3>1 DEF Answered
  <2>2. CASE Head(script).kind # "put"
    BY <1>1, <1>5, <1>6, <1>7, <2>2 DEF PromptParts, Answered
  <2> QED
    BY <2>1, <2>2
<1>10. Progress'
  <2>1. CASE Head(script).kind # "put"
    BY <1>1, <1>5, <2>1 DEF PromptParts, Progress
  <2>2. CASE Head(script).kind = "put" /\ BeingConfigured
    <3> DEFINE c == call.config
               n == Len(script)
    <3>1. c \in Configs /\ Remains(script, ConfigureScript(c))
      BY <2>2 DEF SessionTypes, CallRecords, ScriptInv, BeingConfigured
    <3>2. /\ n \in 1 .. 7
          /\ n = 6 => Head(script).kind = "get"
          /\ n = 4 => Head(script).kind = "get"
          /\ n = 2 => Head(script).kind = "get"
          /\ n = 1 => Head(script).kind = "read"
          /\ n = 5 => Head(script).register = "ip"
          /\ n = 3 => Head(script).register = "max"
      BY <3>1, ConfigureStep DEF Put, Get, Read
    <3>3. \A r \in Registers : r # Head(script).register => registers'[r] = registers[r]
      BY <1>5 DEF NetworkTypes
    <3>4. /\ n <= 6 => registers["port"] = Word(c.port)
          /\ n <= 4 => registers["ip"] = Word(c.ip)
          /\ n <= 2 => registers["max"] = Word(c.size)
      BY <2>2 DEF PromptParts, Progress, BeingConfigured
    <3> HIDE DEF n
    <3>5. n \in {3, 5, 7}
      BY <2>2, <3>2
    <3>6. /\ n <= 6 => registers'["port"] = Word(c.port)
          /\ n <= 4 => registers'["ip"] = Word(c.ip)
          /\ ~(n <= 2)
      BY <3>2, <3>3, <3>4, <3>5 DEF Registers
    <3> QED
      BY <1>1, <2>2, <3>6 DEF Progress, BeingConfigured, n
  <2>3. CASE Head(script).kind = "put" /\ call.op = "start"
    <3>1. Len(script) = 2
      BY <1>3, <2>3, StartRest
    <3> QED
      BY <1>1, <2>3, <3>1 DEF Progress
  <2>4. CASE Head(script).kind = "put" /\ call.op = "stop"
    <3>1. script # StopScript
      BY <2>4, StopScriptFacts
    <3>2. /\ Len(script) = 2 /\ Head(script).register = "max"
          /\ Head(script).value = Word(Head(script).value.n)
      BY <1>3, <2>4, <3>1, ClearRest
    <3>3. registers'["max"] = Head(script).value
      BY <1>5, <2>4, <3>2 DEF NetworkTypes, Registers
    <3> QED
      BY <1>1, <2>4, <3>2, <3>3 DEF Progress
  <2> QED
    BY <1>3, <2>1, <2>2, <2>3, <2>4 DEF Operations, BeingConfigured
<1> QED
  BY <1>8, <1>9, <1>10 DEF PromptParts

(* A message is lost, or the session dropped.                              *)
LEMMA FewerPrompt ==
  ASSUME PromptParts, Lose \/ Dropped PROVE PromptParts'
<1>1. /\ requests' \subseteq requests /\ responses' \subseteq responses
      /\ UNCHANGED <<registers, call, script, exchange>>
  BY DEF Lose, Dropped, DropSession, client, network
<1>2. PromptMessages'
  BY <1>1 DEF PromptParts, PromptMessages
<1>3. Answered'
  BY <1>1 DEF PromptParts, Answered
<1>4. Progress'
  BY <1>1 DEF PromptParts, Progress
<1> QED
  BY <1>2, <1>3, <1>4 DEF PromptParts

---------------------------------------------------------------------------
(* What the session believes of the device                                 *)

(* The beginning of a call keeps what was applied; only a disconnect makes *)
(* a session that ran stop running, and it is noted.                       *)
LEMMA BeginsView ==
  ASSUME CallInv, Begins
  PROVE  /\ session'.applied = session.applied
         /\ tainted' \in {tainted, TRUE}
         /\ \/ session'.running = session.running /\ abandoned' = abandoned
            \/ abandoned' = TRUE
            \/ call' # None
<1>1. session \in [requested: Configs, applied: Configs \cup {None},
                   running: BOOLEAN, described: BOOLEAN]
  BY DEF CallInv, SessionTypes
<1>2. CASE Describe \/ (\E c \in Configs : Configure(c))
  <2>1. /\ session' = session \/ session' = [session EXCEPT !.described = TRUE]
        /\ tainted' = tainted /\ abandoned' = abandoned
    BY <1>2 DEF Describe, Configure, ConnectFails, RequestRefused
  <2> QED
    BY <1>1, <2>1
<1>3. CASE Start
  <2>1. CASE session' = session /\ tainted' \in {tainted, TRUE}
    BY <1>3, <2>1 DEF Start
  <2>2. CASE ~session.running /\ StartConnection
    <3>1. ~conn'.running
      BY <2>2, ConnectedFacts
         DEF StartConnection, CallInv, SessionInv, SessionMatchesConnection
    <3>2. session' = session /\ tainted' \in {tainted, TRUE}
      BY <2>2, <3>1 DEF StartConnection
    <3> QED
      BY <2>1, <3>2
  <2> QED
    BY <1>3, <2>1, <2>2 DEF Start, ConnectFails, RequestRefused
<1>4. CASE Stop
  <2>1. CASE ~session.running
    BY <1>4, <2>1 DEF Stop
  <2>2. CASE session.running /\ StopConnection
    <3>1. /\ conn' = conn /\ conn # None /\ conn.configured # None /\ conn.running
          /\ session.applied \in Configs
      BY <2>2, ConnectedFacts
         DEF StopConnection, CallInv, SessionTypes, SessionInv,
             SessionMatchesConnection
    <3>2. session' = session
      BY <2>2, <3>1 DEF StopConnection
    <3> QED
      BY <1>4, <3>2 DEF Stop
  <2> QED
    BY <1>4, <2>1, <2>2 DEF Stop
<1>5. CASE Disconnect
  <2>1. /\ session'.applied = session.applied /\ session'.running = FALSE
        /\ tainted' = tainted /\ abandoned' = (abandoned \/ session.running)
    BY <1>1, <1>5 DEF Disconnect
  <2>2. session.running \in BOOLEAN /\ abandoned \in BOOLEAN
    BY <1>1 DEF CallInv, SessionTypes
  <2> QED
    BY <2>1, <2>2
<1> QED
  BY <1>2, <1>3, <1>4, <1>5 DEF Begins

(* So the view of a call that begins is that of the last.                  *)
LEMMA BeginsViewInv ==
  ASSUME CallInv, Prompt, ViewInv, Begins PROVE ViewInv'
<1>1. registers' = registers /\ call = None
  BY BeginsFacts
<1>2. ~BeingConfigured
  BY <1>1 DEF BeingConfigured
<1>3. /\ session'.applied = session.applied
      /\ tainted' \in {tainted, TRUE}
      /\ \/ session'.running = session.running /\ abandoned' = abandoned
         \/ abandoned' = TRUE
         \/ call' # None
  BY BeginsView
<1>4. ~tainted' => ~tainted
  BY <1>3 DEF CallInv, SessionTypes
<1>5. CASE tainted' \/ session.applied = None
  BY <1>3, <1>5 DEF ViewInv
<1>6. CASE ~tainted' /\ session.applied # None
  <2>1. /\ HasConfig(session.applied)
        /\ ~abandoned => registers["max"].enable = session.running
    BY <1>1, <1>2, <1>4, <1>6 DEF ViewInv
  <2>2. HasConfig(session.applied)'
    BY <1>1, <1>3, <2>1 DEF HasConfig
  <2>3. call' = None /\ ~abandoned' => registers'["max"].enable = session'.running
    BY <1>1, <1>3, <2>1
  <2> QED
    BY <2>2, <2>3 DEF ViewInv
<1> QED
  BY <1>5, <1>6

(* The client's own steps touch neither device nor session.                *)
LEMMA QuietView ==
  ASSUME ViewInv, Prompt, Send \/ Resend \/ GiveUp \/ Lose PROVE ViewInv'
<1>1. registers' = registers /\ session' = session
  BY DEF Send, Resend, GiveUp, Fail, Lose, client
<1>2. CASE tainted'
  BY <1>2 DEF ViewInv
<1>3. CASE UNCHANGED <<call, tainted, abandoned>>
  BY <1>1, <1>3 DEF ViewInv, BeingConfigured, HasConfig
<1> QED
  BY <1>2, <1>3 DEF Send, Resend, GiveUp, Fail, Lose, client, history

(* A write of a start or stop keeps the packet size that was applied.      *)
LEMMA ServeView ==
  ASSUME SessionTypes, NetworkTypes, CallLinks, SessionInv, ScriptInv,
         ExchangeInv, Prompt, PromptParts, ViewInv, NEW m \in requests, Serve(m)
  PROVE  ViewInv'
<1>1. UNCHANGED <<session, conn, call, script, tainted, abandoned>>
  BY DEF Serve, client
<1>2. m.id = exchange.id /\ m.access = Head(script) /\ m \in Requests
  BY DEF PromptParts, PromptMessages, ExchangeInv, NetworkTypes
<1>3. call # None /\ call.op \in Operations /\ call.config \in Configs
  BY <1>2 DEF CallLinks, Requests, SessionTypes, CallRecords
<1>4. CASE BeingConfigured
  BY <1>1, <1>4 DEF BeingConfigured, ViewInv
<1>5. CASE Head(script).kind # "put"
  <2>1. registers' = registers
    BY <1>2, <1>5 DEF Serve
  <2> QED
    BY <1>1, <2>1 DEF ViewInv, BeingConfigured, HasConfig
<1>6. CASE call.op = "start" /\ Head(script).kind = "put"
  <2> DEFINE v == Flagged(TRUE, call.config.size)
  <2>1. Head(script).register = "max" /\ Head(script).value = v
    BY <1>3, <1>6, StartRest
  <2>2. v.n = call.config.size /\ conn.configured = call.config
    BY <1>3, <1>6 DEF Flagged, SessionInv
  <2>3. session.applied = call.config
    BY <1>3, <2>2, ControlNoneAssumption
       DEF SessionInv, SessionMatchesConnection, CallLinks
  <2> HIDE DEF v
  <2>4. /\ registers'["port"] = registers["port"] /\ registers'["ip"] = registers["ip"]
        /\ registers'["max"] = v
    BY <1>2, <1>6, <2>1 DEF Serve, NetworkTypes, Registers
  <2> QED
    BY <1>1, <1>3, <2>2, <2>3, <2>4 DEF ViewInv, HasConfig, BeingConfigured
<1>7. CASE call.op = "stop" /\ Head(script).kind = "put"
  <2>1. script # StopScript
    BY <1>7, StopScriptFacts
  <2>2. Head(script).register = "max"
    BY <1>3, <1>7, <2>1, ClearRest
  <2>3. Head(script).value.n = registers["max"].n
    BY <1>3, <1>7, <2>1 DEF PromptParts, Progress, Word, Flagged
  <2>4. /\ registers'["port"] = registers["port"] /\ registers'["ip"] = registers["ip"]
        /\ registers'["max"] = Head(script).value
    BY <1>2, <1>7, <2>2 DEF Serve, NetworkTypes, Registers
  <2> QED
    BY <1>1, <1>3, <2>3, <2>4 DEF ViewInv, HasConfig, BeingConfigured
<1> QED
  BY <1>3, <1>4, <1>5, <1>6, <1>7 DEF Operations, BeingConfigured

(* The last answer of a call: what its script has made of the registers.   *)
LEMMA DoneRegisters ==
  ASSUME SessionTypes, NetworkTypes, ScriptInv, PromptParts,
         call # None, NEW m \in responses, ~Mismatch(m), Rest(m) = <<>>
  PROVE  /\ BeingConfigured => /\ registers["port"] = Word(call.config.port)
                               /\ registers["ip"] = Word(call.config.ip)
                               /\ registers["max"] = Word(call.config.size)
         /\ call.op = "start" =>
              registers["max"] = Flagged(TRUE, call.config.size)
         /\ call.op = "stop" => ~registers["max"].enable
<1>1. ASSUME BeingConfigured
      PROVE  /\ registers["port"] = Word(call.config.port)
             /\ registers["ip"] = Word(call.config.ip)
             /\ registers["max"] = Word(call.config.size)
  <2>1. Len(script) = 1
    BY <1>1, ConfigureRest
  <2>2. Len(script) <= 6 /\ Len(script) <= 4 /\ Len(script) <= 2
    BY <2>1
  <2> QED
    BY <1>1, <2>2 DEF PromptParts, Progress, BeingConfigured
<1>2. ASSUME call.op = "start"
      PROVE  registers["max"] = Flagged(TRUE, call.config.size)
  <2>1. Len(script) = 1
    BY <1>2, StartRest
  <2> QED
    BY <1>2, <2>1 DEF PromptParts, Progress
<1>3. ASSUME call.op = "stop" PROVE ~registers["max"].enable
  <2>1. script # StopScript
    BY <1>3, FetchRest
  <2>2. Len(script) = 1
    BY <1>3, <2>1, ClearRest
  <2> QED
    BY <1>3, <2>1, <2>2 DEF PromptParts, Progress
<1> QED
  BY <1>1, <1>2, <1>3

(* The session then believes what they say.                                *)
LEMMA ReceiveView ==
  ASSUME SessionTypes, NetworkTypes, CallLinks, SessionInv, ScriptInv, Prompt,
         PromptParts, ViewInv, NEW m \in responses, Receive(m)
  PROVE  ViewInv'
<1>1. /\ call # None /\ call.op \in Operations /\ call.config \in Configs
      /\ conn # None /\ registers' = registers
  BY DEF Receive, CallLinks, SessionTypes, CallRecords
<1>2. CASE Fail
  BY <1>2 DEF Fail, ViewInv
<1>3. CASE UNCHANGED <<session, call, tainted, abandoned>>
  BY <1>1, <1>3 DEF ViewInv, BeingConfigured, HasConfig
<1>4. CASE ~Mismatch(m) /\ Rest(m) = <<>> /\ CallDone
  <2>1. /\ BeingConfigured => /\ registers["port"] = Word(call.config.port)
                              /\ registers["ip"] = Word(call.config.ip)
                              /\ registers["max"] = Word(call.config.size)
        /\ call.op = "start" =>
             registers["max"] = Flagged(TRUE, call.config.size)
        /\ call.op = "stop" => ~registers["max"].enable
    BY <1>1, <1>4, DoneRegisters
  <2>2. CASE BeingConfigured
    <3>1. ConfigureDone(call.config)
      BY <1>4, <2>2 DEF CallDone, BeingConfigured
    <3>2. /\ session'.applied = call.config /\ session'.running = FALSE
      BY <1>1, <3>1, ConfigureDoneFacts
    <3>3. \A n : Word(n).n = n /\ Word(n).enable = FALSE
      BY DEF Word, Flagged
    <3> QED
      BY <1>1, <2>1, <2>2, <3>2, <3>3 DEF ViewInv, HasConfig
  <2>3. CASE call.op = "start"
    <3>1. SetRunning(TRUE)
      BY <1>4, <2>3 DEF CallDone
    <3>2. /\ session'.applied = session.applied /\ session'.running = TRUE
          /\ tainted' = tainted
      BY <1>1, <3>1, SetRunningFacts
    <3>3. registers["max"].enable = TRUE
      BY <2>1, <2>3 DEF Flagged
    <3> QED
      BY <1>1, <2>3, <3>2, <3>3 DEF ViewInv, HasConfig, BeingConfigured
  <2>4. CASE call.op = "stop"
    <3>1. SetRunning(FALSE)
      BY <1>4, <2>4 DEF CallDone
    <3>2. /\ session'.applied = session.applied /\ session'.running = FALSE
          /\ tainted' = tainted
      BY <1>1, <3>1, SetRunningFacts
    <3>3. registers["max"].enable = FALSE
      BY <2>1, <2>4 DEF NetworkTypes, Registers, Values
    <3> QED
      BY <1>1, <2>4, <3>2, <3>3 DEF ViewInv, HasConfig, BeingConfigured
  <2> QED
    BY <1>1, <2>2, <2>3, <2>4 DEF Operations, BeingConfigured
<1> QED
  BY <1>2, <1>3, <1>4 DEF Receive, Accepted

(* A new session has applied nothing.                                      *)
LEMMA DroppedView ==
  ASSUME Dropped PROVE ViewInv'
<1>1. session'.applied = None
  BY DEF Dropped, DropSession, NewSession
<1> QED
  BY <1>1 DEF ViewInv

---------------------------------------------------------------------------
(* One step of the session, and of all that it rests on                    *)

SessionStep ==
  \/ Begins \/ Send \/ Resend \/ GiveUp
  \/ (\E m \in responses : Receive(m)) \/ (\E m \in requests : Serve(m))
  \/ Lose \/ Dropped

(* The network stays what it is.                                           *)
LEMMA ChannelKept ==
  ASSUME CallInv, SessionStep PROVE channel' = channel
BY BeginsFacts DEF SessionStep, Send, Resend, GiveUp, EndExchange, Receive, Serve,
     Lose, Dropped, DropSession, network

(* Types, links and the agreement of session and connection.               *)
LEMMA TypesStep ==
  ASSUME ControlInv, SessionStep
  PROVE  SessionTypes' /\ NetworkTypes' /\ CallLinks' /\ SessionInv'
<1> USE DEF ControlInv
<1>1. CASE Begins
  BY <1>1, BeginsFacts, BeginsNetwork, BeginsScript DEF CallInv
<1>2. CASE Send \/ Resend
  BY <1>2, BetweenSession, SendsNetwork DEF Between
<1>3. CASE GiveUp
  BY <1>3, BetweenSession, GiveUpNetwork DEF Between
<1>4. CASE \E m \in responses : Receive(m)
  BY <1>4, ReceiveSession, ReceiveNetwork
<1>5. CASE \E m \in requests : Serve(m)
  BY <1>5, BetweenSession, ServeNetwork DEF Between
<1>6. CASE Lose
  BY <1>6, BetweenSession, LoseNetwork DEF Between
<1>7. CASE Dropped
  BY <1>7, DroppedSession, DroppedNetwork
<1> QED
  BY <1>1, <1>2, <1>3, <1>4, <1>5, <1>6, <1>7 DEF SessionStep

(* The script.                                                             *)
LEMMA ScriptStep ==
  ASSUME ControlInv, SessionStep PROVE ScriptInv'
<1> USE DEF ControlInv
<1>1. CASE Begins
  BY <1>1, BeginsScript DEF CallInv
<1>2. CASE Between
  BY <1>2, BetweenScript
<1>3. CASE \E m \in responses : Receive(m)
  BY <1>3, ReceiveScript
<1>4. CASE Dropped
  BY <1>4 DEF Dropped, DropSession, ScriptInv
<1> QED
  BY <1>1, <1>2, <1>3, <1>4 DEF SessionStep, Between

(* The exchange.                                                           *)
LEMMA ExchangeStep ==
  ASSUME ControlInv, SessionStep PROVE ExchangeInv'
<1> USE DEF ControlInv
<1>1. CASE Begins
  BY <1>1, BeginsExchange DEF CallInv
<1>2. CASE Send \/ Resend
  BY <1>2, SendsExchange
<1>3. CASE GiveUp
  BY <1>3, GiveUpExchange
<1>4. CASE \E m \in responses : Receive(m)
  BY <1>4, ReceiveExchange
<1>5. CASE \E m \in requests : Serve(m)
  BY <1>5, ServeExchange
<1>6. CASE Lose \/ Dropped
  BY <1>6, FewerExchange
<1> QED
  BY <1>1, <1>2, <1>3, <1>4, <1>5, <1>6 DEF SessionStep

(* A prompt network, and the view of a session over one.                   *)
LEMMA PromptStep ==
  ASSUME ControlInv, SessionStep, Prompt PROVE PromptParts' /\ ViewInv'
<1> USE DEF ControlInv
<1>0. PromptParts
  BY DEF PromptInv, PromptParts
<1>1. CASE Begins
  BY <1>0, <1>1, BeginsPrompt, BeginsViewInv DEF CallInv
<1>2. CASE Send \/ Resend
  BY <1>0, <1>2, SendsPrompt, QuietView
<1>3. CASE GiveUp
  BY <1>0, <1>3, GiveUpPrompt, QuietView
<1>4. CASE \E m \in responses : Receive(m)
  BY <1>0, <1>4, ReceivePrompt, ReceiveView
<1>5. CASE \E m \in requests : Serve(m)
  BY <1>0, <1>5, ServePrompt, ServeView
<1>6. CASE Lose
  BY <1>0, <1>6, FewerPrompt, QuietView
<1>7. CASE Dropped
  BY <1>0, <1>7, FewerPrompt, DroppedView
<1> QED
  BY <1>1, <1>2, <1>3, <1>4, <1>5, <1>6, <1>7 DEF SessionStep

(* All of it.                                                              *)
LEMMA ControlStep ==
  ASSUME ControlInv, SessionStep PROVE ControlInv'
<1>1. Prompt' => Prompt
  BY ChannelKept DEF ControlInv, CallInv, Prompt
<1>2. PromptInv' /\ ViewInv'
  BY <1>1, PromptStep DEF PromptInv, ViewInv, PromptParts
<1> QED
  BY <1>2, TypesStep, ScriptStep, ExchangeStep DEF ControlInv

---------------------------------------------------------------------------
(* The element                                                             *)

(* The device does not lose its destination to a start or stop, and no     *)
(* write of a configure enables it.                                        *)
LEMMA ServeElement ==
  ASSUME SourceInv, NEW m \in requests, Serve(m), UNCHANGED userVars
  PROVE  ElementInv'
<1> SUFFICES ASSUME Prompt', user' = "element" PROVE ElementInv'
  BY DEF ElementInv
<1>1. /\ UNCHANGED <<channel, session, conn, call, script, result>>
      /\ UNCHANGED <<user, element, report, failed>>
  BY DEF Serve, client, userVars
<1>2. /\ Prompt /\ user = "element" /\ PromptParts /\ ElementInv
      /\ SessionTypes /\ NetworkTypes /\ CallLinks /\ ScriptInv /\ ExchangeInv
  BY <1>1 DEF Prompt, SourceInv, ControlInv, PromptInv, PromptParts
<1>3. m.id = exchange.id /\ m.access = Head(script) /\ m \in Requests
  BY <1>2 DEF PromptParts, PromptMessages, ExchangeInv, NetworkTypes
<1>4. call # None /\ call.op \in Operations /\ call.config \in Configs
  BY <1>2, <1>3 DEF CallLinks, Requests, SessionTypes, CallRecords
<1>5. CASE Head(script).kind # "put"
  <2>1. registers' = registers
    BY <1>3, <1>5 DEF Serve
  <2> QED
    BY <1>1, <1>2, <2>1 DEF ElementInv, Enabled, AppliedDestination
<1>6. CASE Head(script).kind = "put"
  <2> DEFINE r == Head(script).register
  <2>1. /\ r \in Registers
        /\ registers' = [registers EXCEPT ![r] = Head(script).value]
    BY <1>2, <1>3, <1>4, <1>6, HeadFacts DEF Serve
  <2>2. element \in {"configure", "start", "stop"} /\ call.op = element
    BY <1>2, <1>4 DEF ElementInv, SourceInv, ElementTypes
  <2>3. CASE element = "configure"
    <3>1. Remains(script, ConfigureScript(call.config))
      BY <1>2, <1>4, <2>2, <2>3 DEF ScriptInv
    <3> DEFINE n == Len(script)
               h == Head(script)
    <3>2. /\ n \in 1 .. 7
          /\ n = 7 => h.register = "port"
          /\ n = 5 => h.register = "ip"
          /\ n = 3 => h.register = "max" /\ h.value.enable = FALSE
          /\ n = 6 => h.kind = "get"
          /\ n = 4 => h.kind = "get"
          /\ n = 2 => h.kind = "get"
          /\ n = 1 => h.kind = "read"
      <4>1. /\ n \in 1 .. 7
            /\ n = 7 => h = Put("port", Word(call.config.port))
            /\ n = 6 => h = Get("port", Word(call.config.port))
            /\ n = 5 => h = Put("ip", Word(call.config.ip))
            /\ n = 4 => h = Get("ip", Word(call.config.ip))
            /\ n = 3 => h = Put("max", Word(call.config.size))
            /\ n = 2 => h = Get("max", Word(call.config.size))
            /\ n = 1 => h = Read("format")
        BY <1>4, <3>1, ConfigureStep
      <4>2. Word(call.config.size).enable = FALSE
        BY DEF Word, Flagged
      <4> HIDE DEF n, h
      <4> QED
        BY <4>1, <4>2 DEF Put, Get, Read
    <3> HIDE DEF n, h
    <3>3. h.kind = "put"
      BY <1>6 DEF h
    <3>4. n \in {3, 5, 7}
      BY <3>2, <3>3
    <3>5. h.register # "max" \/ h.value.enable = FALSE
      BY <3>2, <3>4
    <3>6. Enabled' => Enabled
      BY <1>2, <2>1, <3>5 DEF Enabled, NetworkTypes, Registers, h
    <3> QED
      BY <1>1, <1>2, <1>4, <2>3, <3>6 DEF ElementInv
  <2>4. CASE element = "start" \/ element = "stop"
    <3>1. r = "max"
      <4>0. SessionTypes /\ ScriptInv
        BY <1>2
      <4>1. CASE element = "start"
        <5>1. call.op = "start"
          BY <2>2, <4>1
        <5> QED
          BY <1>4, <4>0, <5>1, StartRest
      <4>2. CASE element = "stop"
        <5>1. script # StopScript
          BY <1>6, StopScriptFacts
        <5> QED
          BY <1>4, <2>2, <4>0, <4>2, <5>1, ClearRest
      <4> QED
        BY <2>4, <4>1, <4>2
    <3>2. registers'["port"] = registers["port"] /\ registers'["ip"] = registers["ip"]
      BY <1>2, <2>1, <3>1 DEF NetworkTypes, Registers
    <3>3. AppliedDestination'
      BY <1>1, <1>2, <2>4, <3>2 DEF ElementInv, AppliedDestination
    <3> QED
      BY <1>1, <1>2, <1>4, <2>4, <3>3 DEF ElementInv
  <2> QED
    BY <2>2, <2>3, <2>4
<1> QED
  BY <1>5, <1>6

(* The call of the element ends: done as it asked, or with an error.       *)
LEMMA ReceiveElement ==
  ASSUME SourceInv, NEW m \in responses, Receive(m), UNCHANGED userVars
  PROVE  ElementInv'
<1> SUFFICES ASSUME Prompt', user' = "element" PROVE ElementInv'
  BY DEF ElementInv
<1>1. /\ UNCHANGED <<channel, registers>>
      /\ UNCHANGED <<user, element, report, failed>>
  BY DEF Receive, userVars
<1>2. /\ Prompt /\ user = "element" /\ PromptParts /\ ElementInv
      /\ SessionTypes /\ NetworkTypes /\ CallLinks /\ SessionInv /\ ScriptInv
      /\ ExchangeInv
  BY <1>1 DEF Prompt, SourceInv, ControlInv, PromptInv, PromptParts
<1>3. /\ call # None /\ call.config \in Configs /\ conn # None
  BY <1>2 DEF Receive, CallLinks, SessionTypes, CallRecords
<1>4. element \in {"configure", "start", "stop"} /\ call.op = element
  BY <1>2, <1>3 DEF ElementInv, SourceInv, ElementTypes
<1>5. Enabled' = Enabled
  BY <1>1 DEF Enabled
<1>6. CASE Fail
  <2>1. call' = None /\ result' = "error" /\ session' = session
    BY <1>6 DEF Fail
  <2> QED
    BY <1>1, <1>2, <1>4, <1>5, <2>1 DEF ElementInv, AppliedDestination
<1>7. CASE UNCHANGED <<session, call, result>>
  BY <1>1, <1>2, <1>5, <1>7 DEF ElementInv, AppliedDestination
<1>8. CASE ~Mismatch(m) /\ Rest(m) = <<>> /\ CallDone
  <2>1. /\ BeingConfigured => /\ registers["port"] = Word(call.config.port)
                              /\ registers["ip"] = Word(call.config.ip)
        /\ call.op = "stop" => ~registers["max"].enable
    BY <1>2, <1>3, <1>8, DoneRegisters
  <2>2. CASE element = "configure"
    <3>1. ConfigureDone(call.config) /\ call' = None
      BY <1>4, <1>8, <2>2 DEF CallDone, Succeed
    <3>2. session'.applied = call.config
      BY <1>2, <1>3, <3>1, ConfigureDoneFacts
    <3>3. session'.applied # None
      BY <1>3, <3>2, ControlNoneAssumption
    <3>4. BeingConfigured /\ \A n : Word(n).n = n
      BY <1>3, <1>4, <2>2 DEF BeingConfigured, Word, Flagged
    <3>5. AppliedDestination'
      BY <1>1, <2>1, <3>2, <3>3, <3>4 DEF AppliedDestination
    <3> QED
      BY <1>1, <1>2, <1>5, <2>2, <3>1, <3>5 DEF ElementInv
  <2>3. CASE element = "start"
    <3>1. SetRunning(TRUE) /\ call' = None
      BY <1>4, <1>8, <2>3 DEF CallDone, Succeed
    <3>2. session'.applied = session.applied /\ session'.running = TRUE
      BY <1>2, <1>3, <3>1, SetRunningFacts
    <3>3. AppliedDestination'
      BY <1>1, <1>2, <2>3, <3>2 DEF ElementInv, AppliedDestination
    <3> QED
      BY <1>1, <2>3, <3>1, <3>2, <3>3 DEF ElementInv
  <2>4. CASE element = "stop"
    <3>1. SetRunning(FALSE) /\ call' = None
      BY <1>4, <1>8, <2>4 DEF CallDone, Succeed
    <3>2. session'.applied = session.applied
      BY <1>2, <1>3, <3>1, SetRunningFacts
    <3>3. AppliedDestination'
      BY <1>1, <1>2, <2>4, <3>2 DEF ElementInv, AppliedDestination
    <3>4. ~Enabled'
      BY <1>4, <1>5, <2>1, <2>4 DEF Enabled
    <3> QED
      BY <1>1, <2>4, <3>1, <3>3, <3>4 DEF ElementInv
  <2> QED
    BY <1>4, <2>2, <2>3, <2>4
<1> QED
  BY <1>6, <1>7, <1>8 DEF Receive, Accepted

(* The other steps of client and network.                                  *)
LEMMA QuietElement ==
  ASSUME SourceInv, Send \/ Resend \/ GiveUp \/ Lose, UNCHANGED userVars
  PROVE  ElementInv'
<1>1. /\ UNCHANGED <<registers, session, user, element, report, failed>>
      /\ channel' = channel
  BY DEF Send, Resend, GiveUp, EndExchange, Fail, Lose, client, userVars
<1>2. CASE UNCHANGED <<call, result>>
  BY <1>1, <1>2
     DEF SourceInv, ElementInv, Prompt, Enabled, AppliedDestination
<1>3. CASE GiveUp
  <2>1. call # None /\ call' = None /\ result' = "error"
    BY <1>3 DEF GiveUp, Fail, SourceInv, ControlInv, CallLinks
  <2> QED
    BY <1>1, <2>1
       DEF SourceInv, ElementInv, Prompt, Enabled, AppliedDestination
<1> QED
  BY <1>2, <1>3 DEF Send, Resend, Lose, client

(* The calls of its start ...                                              *)
LEMMA StartElement ==
  ASSUME SourceInv,
         StartRefused \/ Starting \/ Configuring \/ Enabling \/ Started \/ StartFails
  PROVE  ElementInv' /\ ElementTypes' /\ (UNCHANGED vars \/ SessionStep)
<1>0. /\ call = None /\ user = "element" /\ user' = user /\ channel' = channel
      /\ registers' = registers
  BY DEF StartRefused, Starting, Configuring, Enabling, Started, StartFails, At,
         Becomes, Describe, Configure, Start, CallStarts, DropSession, network, vars
<1>1. Enabled' = Enabled /\ (Prompt' => Prompt)
  BY <1>0 DEF Enabled, Prompt
<1>2. /\ session \in [requested: Configs, applied: Configs \cup {None},
                      running: BOOLEAN, described: BOOLEAN]
      /\ CallInv
  BY DEF SourceInv, ControlInv, SessionTypes, CallInv
<1>3. CASE StartRefused
  <2>1. /\ UNCHANGED vars /\ element' = element /\ element = "stopped"
        /\ report' = "error" /\ failed' = failed /\ UNCHANGED <<session, call, result>>
    BY <1>3 DEF StartRefused, At, vars, client
  <2> QED
    BY <1>0, <1>1, <2>1 DEF SourceInv, ElementInv, ElementTypes
<1>4. CASE Starting
  <2>1. /\ Describe /\ element' = "describe" /\ element = "stopped"
        /\ report' = report
    BY <1>4 DEF Starting, At, Becomes
  <2>2. call' = None /\ session'.applied = session.applied
    BY <1>0, <1>2, <2>1 DEF Describe, ConnectFails, ReturnAtOnce
  <2> QED
    BY <1>0, <1>1, <2>1, <2>2
       DEF SourceInv, ElementInv, ElementTypes, SessionStep, Begins
<1>5. CASE Configuring
  <2>1. /\ Configure(session.requested) /\ element' = "configure"
        /\ element = "describe" /\ report' = report
    BY <1>5 DEF Configuring, At, Becomes
  <2>2. Prompt => session.applied = None
    BY <1>0, <2>1 DEF SourceInv, ElementInv
  <2>3. Prompt => \/ call' = None /\ result' = "error"
                  \/ call' # None => call'.op = "configure"
    BY <1>0, <2>1, <2>2
       DEF Configure, Matches, ConnectFails, RequestRefused, ReturnAtOnce, Perform
  <2>4. Prompt => ~(call' = None /\ result' = "ok")
    BY <1>0, <2>1, <2>2
       DEF Configure, Matches, ConnectFails, RequestRefused, ReturnAtOnce, Perform
  <2>5. SessionStep
    BY <1>2, <2>1 DEF SessionStep, Begins
  <2> QED
    BY <1>0, <1>1, <2>1, <2>3, <2>4, <2>5
       DEF SourceInv, ElementInv, ElementTypes
<1>6. CASE Enabling
  <2>1. /\ Start /\ element' = "start" /\ element = "configure" /\ result = "ok"
        /\ report' = report
    BY <1>6 DEF Enabling, At, Becomes
  <2>2. Prompt => AppliedDestination
    BY <1>0, <2>1 DEF SourceInv, ElementInv
  <2>3. session'.applied = session.applied
    BY <1>2, <2>1, BeginsView DEF Begins
  <2>4. Prompt => AppliedDestination'
    BY <1>0, <2>2, <2>3 DEF AppliedDestination
  <2>5. session.applied # None =>
          \/ call' = None /\ result' # "ok"
          \/ call' = None /\ session'.running
          \/ call'.op = "start" /\ result' = "pending"
    <3>1. CASE session.running
      BY <1>0, <2>1, <3>1 DEF Start, ReturnAtOnce, ConnectFails, StartConnection
    <3>2. CASE ConnectFails
      BY <1>0, <3>2 DEF ConnectFails, ReturnAtOnce
    <3>3. CASE ~session.running /\ StartConnection
      <4>1. \/ ReturnAtOnce("not configured")
            \/ ReturnAtOnce("ok") /\ session' = [session EXCEPT !.running = TRUE]
            \/ Perform("start", conn'.configured, StartScript(conn'.configured))
        BY <3>3 DEF StartConnection
      <4>2. session' = [session EXCEPT !.running = TRUE] => session'.running
        BY <1>2
      <4>3. CASE ReturnAtOnce("not configured")
        BY <1>0, <4>3 DEF ReturnAtOnce
      <4>4. CASE /\ ReturnAtOnce("ok")
                 /\ session' = [session EXCEPT !.running = TRUE]
        BY <1>0, <4>2, <4>4 DEF ReturnAtOnce
      <4>5. CASE Perform("start", conn'.configured, StartScript(conn'.configured))
        BY <4>5 DEF Perform
      <4> QED
        BY <4>1, <4>3, <4>4, <4>5
    <3> QED
      BY <2>1, <3>1, <3>2, <3>3 DEF Start
  <2>6. SessionStep
    BY <2>1 DEF SessionStep, Begins
  <2> QED
    BY <1>0, <1>1, <2>1, <2>2, <2>4, <2>5, <2>6
       DEF ElementInv, ElementTypes, AppliedDestination
<1>7. CASE Started
  <2>1. /\ UNCHANGED vars /\ element' = "running" /\ element = "start"
        /\ result = "ok" /\ UNCHANGED <<session, call, result>>
    BY <1>7 DEF Started, At, Becomes, vars, client
  <2> QED
    BY <1>0, <1>1, <2>1 DEF SourceInv, ElementInv, ElementTypes, AppliedDestination
<1>8. CASE StartFails
  <2>1. /\ DropSession /\ element' = "stopped" /\ report' = "error"
    BY <1>8 DEF StartFails, Becomes
  <2>2. call' = None /\ session'.applied = None
    BY <1>0, <2>1 DEF DropSession, NewSession
  <2> QED
    BY <1>0, <1>1, <2>1, <2>2 DEF ElementInv, ElementTypes, SessionStep, Dropped
<1> QED
  BY <1>3, <1>4, <1>5, <1>6, <1>7, <1>8

(* ... and of its stop.                                                    *)
LEMMA StopElement ==
  ASSUME SourceInv, Stopping \/ Disconnecting \/ Stopped
  PROVE  ElementInv' /\ ElementTypes' /\ SessionStep
<1>0. /\ call = None /\ user = "element" /\ user' = user /\ channel' = channel
      /\ registers' = registers
  BY DEF Stopping, Disconnecting, Stopped, At, Becomes, Stop, Disconnect,
         CallStarts, DropSession, network
<1>1. Enabled' = Enabled /\ (Prompt' => Prompt)
  BY <1>0 DEF Enabled, Prompt
<1>2. CallInv
  BY DEF SourceInv, ControlInv, CallInv
<1>3. CASE Stopping
  <2>1. Stop /\ element' = "stop" /\ element = "running"
    BY <1>3 DEF Stopping, At, Becomes
  <2>2. Prompt => session.running /\ AppliedDestination
    BY <1>0, <2>1 DEF SourceInv, ElementInv
  <2>3. session'.applied = session.applied
    BY <1>2, <2>1, BeginsView DEF Begins
  <2>4. session.running => call' # None /\ call'.op = "stop"
    <3> SUFFICES ASSUME session.running PROVE call' # None /\ call'.op = "stop"
      OBVIOUS
    <3>1. /\ conn' = conn /\ conn # None /\ conn.configured # None /\ conn.running
          /\ session.applied \in Configs /\ StopConnection
      BY <1>2, <2>1, ConnectedFacts
         DEF Stop, StopConnection, CallInv, SessionTypes, SessionInv,
             SessionMatchesConnection
    <3>2. Perform("stop", session.applied, StopScript)
      BY <3>1 DEF StopConnection
    <3>3. call' \in CallRecords /\ call'.op = "stop"
      BY <3>1, <3>2 DEF Perform, CallRecords, Operations
    <3> QED
      BY <3>3, ControlNoneAssumption
  <2>5. Prompt => AppliedDestination'
    BY <1>0, <2>2, <2>3 DEF AppliedDestination
  <2> QED
    BY <1>0, <1>1, <2>1, <2>2, <2>4, <2>5
       DEF ElementInv, ElementTypes, SessionStep, Begins
<1>4. CASE Disconnecting
  <2>1. /\ Disconnect /\ element' = "disconnect" /\ element = "stop"
        /\ failed' = (result # "ok")
    BY <1>4 DEF Disconnecting, At, Becomes, StopFailed
  <2>2. Prompt => AppliedDestination /\ (result = "ok" => ~Enabled)
    BY <1>0, <2>1 DEF SourceInv, ElementInv
  <2>3. session'.applied = session.applied /\ call' = None
    BY <1>0, <1>2, <2>1, BeginsView DEF Begins, Disconnect, ReturnAtOnce
  <2>5. Prompt => AppliedDestination'
    BY <1>0, <2>2, <2>3 DEF AppliedDestination
  <2> QED
    BY <1>0, <1>1, <2>1, <2>2, <2>3, <2>5
       DEF ElementInv, ElementTypes, SessionStep, Begins
<1>5. CASE Stopped
  <2>1. /\ DropSession /\ element' = "stopped" /\ element = "disconnect"
        /\ failed => report' = "error"
    BY <1>5 DEF Stopped, At, Becomes
  <2>2. call' = None /\ session'.applied = None
    BY <1>0, <2>1 DEF DropSession, NewSession
  <2>3. Prompt => (Enabled => failed)
    BY <1>0, <2>1 DEF SourceInv, ElementInv
  <2> QED
    BY <1>0, <1>1, <2>1, <2>2, <2>3 DEF ElementInv, ElementTypes, SessionStep, Dropped
<1> QED
  BY <1>3, <1>4, <1>5

---------------------------------------------------------------------------
(* The theorems                                                            *)

(* At first the registers are zero, and nothing was sent or applied.       *)
LEMMA SourceInitInv ==
  ASSUME SourceInit PROVE SourceInv
<1> USE DEF SourceInit, Init
<1>1. \E c \in Configs : session = NewSession(c)
  OBVIOUS
<1>2. /\ session \in [requested: Configs, applied: Configs \cup {None},
                      running: BOOLEAN, described: BOOLEAN]
      /\ session.applied = None /\ session.running = FALSE
  BY <1>1 DEF NewSession
<1>3. SessionTypes
  BY <1>2 DEF SessionTypes
<1>4. Word(0) \in Values /\ Word(0).enable = FALSE
  BY DEF Word, Flagged, Values
<1>5. NetworkTypes
  BY <1>4, MaxAttemptsAssumption DEF NetworkTypes
<1>6. CallLinks /\ SessionInv /\ ScriptInv
  BY <1>2 DEF CallLinks, SessionInv, SessionMatchesConnection, ScriptInv
<1>7. ExchangeInv
  BY DEF ExchangeInv, WritesHappened
<1>8. PromptInv /\ ViewInv
  BY <1>2 DEF PromptInv, PromptMessages, Answered, Progress, ViewInv
<1>9. ~Enabled
  BY <1>4 DEF Enabled, Registers
<1>10. ElementTypes /\ ElementInv
  BY <1>2, <1>9 DEF ElementTypes, ElementInv
<1> QED
  BY <1>3, <1>5, <1>6, <1>7, <1>8, <1>10 DEF SourceInv, ControlInv

(* What does not change stays true.                                        *)
LEMMA ControlKept ==
  ASSUME ControlInv, UNCHANGED vars PROVE ControlInv'
<1> USE DEF ControlInv, vars, network, client, history
<1>1. SessionTypes' /\ CallLinks' /\ SessionInv'
  BY DEF SessionTypes, CallLinks, SessionInv, SessionMatchesConnection
<1>2. NetworkTypes'
  BY DEF NetworkTypes
<1>3. ScriptInv'
  BY DEF ScriptInv
<1>4. ExchangeInv'
  BY DEF ExchangeInv, WritesHappened
<1>5. PromptInv'
  BY DEF PromptInv, Prompt, PromptMessages, Answered, Progress
<1>6. ViewInv'
  BY DEF ViewInv, Prompt, BeingConfigured, HasConfig
<1> QED
  BY <1>1, <1>2, <1>3, <1>4, <1>5, <1>6

(* SourceInv is inductive.                                                 *)
LEMMA SourceStep ==
  ASSUME SourceInv, [SourceNext]_sourceVars PROVE SourceInv'
<1>1. CASE UNCHANGED sourceVars
  <2>1. ControlInv'
    BY <1>1, ControlKept DEF SourceInv, sourceVars
  <2>2. ElementTypes' /\ ElementInv'
    BY <1>1
       DEF SourceInv, ElementTypes, ElementInv, Prompt, Enabled,
           AppliedDestination, sourceVars, userVars, vars, network, client
  <2> QED
    BY <2>1, <2>2 DEF SourceInv
<1>2. CASE AnyCall
  <2>1. SessionStep
    BY <1>2 DEF AnyCall, Calls, SessionStep, Begins
  <2>2. user' = user /\ element' = element /\ user = "any"
    BY <1>2 DEF AnyCall, userVars
  <2> QED
    BY <2>1, <2>2, ControlStep DEF SourceInv, ElementInv, ElementTypes
<1>3. CASE Element
  <2>1. ElementInv' /\ ElementTypes' /\ (UNCHANGED vars \/ SessionStep)
    BY <1>3, StartElement, StopElement DEF Element
  <2> QED
    BY <2>1, ControlStep, ControlKept DEF SourceInv
<1>4. CASE (Client \/ Delivery) /\ UNCHANGED userVars
  <2>1. SessionStep
    BY <1>4 DEF Client, Delivery, SessionStep
  <2>2. ElementTypes'
    BY <1>4 DEF SourceInv, ElementTypes, userVars
  <2>3. ElementInv'
    BY <1>4, ServeElement, ReceiveElement, QuietElement DEF Client, Delivery
  <2> QED
    BY <2>1, <2>2, <2>3, ControlStep DEF SourceInv
<1> QED
  BY <1>1, <1>2, <1>3, <1>4 DEF SourceNext

(* Every variable keeps its type, whatever the network does.               *)
THEOREM SourceTyping == SourceSpec => []TypeOK
<1>1. SourceInv => TypeOK
  <2> SUFFICES ASSUME SourceInv PROVE TypeOK
    OBVIOUS
  <2>1. SessionTypes /\ NetworkTypes /\ CallLinks
    BY DEF SourceInv, ControlInv
  <2>2. /\ session.requested \in Configs
        /\ session.applied \in Configs \cup {None} /\ session.running \in BOOLEAN
        /\ session.described \in BOOLEAN
    BY <2>1 DEF SessionTypes
  <2>3. exchange.attempts \in 0 .. MaxAttempts /\ exchange.id \in 0 .. lastId
    BY <2>1 DEF NetworkTypes
  <2> QED
    BY <2>1, <2>2, <2>3 DEF SessionTypes, NetworkTypes, CallLinks, TypeOK
<1> QED
  BY <1>1, SourceInitInv, SourceStep, PTL DEF SourceSpec

(* Session and connection agree over every failure and reconnect.          *)
THEOREM Agreement == SourceSpec => []SessionMatchesConnection
<1>1. SourceInv => SessionMatchesConnection
  BY DEF SourceInv, ControlInv, SessionInv
<1> QED
  BY <1>1, SourceInitInv, SourceStep, PTL DEF SourceSpec

(* A write is taken as done only when it was, on any network.              *)
THEOREM Writes == SourceSpec => []WritesHappened
<1>1. SourceInv => WritesHappened
  BY DEF SourceInv, ControlInv, ExchangeInv
<1> QED
  BY <1>1, SourceInitInv, SourceStep, PTL DEF SourceSpec

(* Between calls, what the session believes is what the device holds.      *)
THEOREM View == SourceSpec => []ViewIsCurrent
<1>1. SourceInv => ViewIsCurrent
  BY DEF SourceInv, ControlInv, ViewInv, HasConfig, BeingConfigured, ViewIsCurrent
<1> QED
  BY <1>1, SourceInitInv, SourceStep, PTL DEF SourceSpec

(* A stopped element leaves no device streaming without having said so.    *)
THEOREM NoRunaway == SourceSpec => []NoSilentRunaway
<1>1. SourceInv => NoSilentRunaway
  BY DEF SourceInv, ElementInv, At, Enabled, NoSilentRunaway
<1> QED
  BY <1>1, SourceInitInv, SourceStep, PTL DEF SourceSpec

(* An enabled device sends to a destination that somebody asked for.       *)
THEOREM Destination == SourceSpec => []DestinationWhole
<1>1. SourceInv => DestinationWhole
  <2> SUFFICES ASSUME SourceInv, Prompt, user = "element", Enabled,
                      report # "error"
               PROVE  \E c \in Configs : /\ registers.port.n = c.port
                                         /\ registers.ip.n = c.ip
    BY DEF DestinationWhole, Enabled
  <2>1. AppliedDestination
    BY DEF SourceInv, ElementInv, ElementTypes
  <2>2. session.applied \in Configs
    BY <2>1 DEF AppliedDestination, SourceInv, ControlInv, SessionTypes
  <2> QED
    BY <2>1, <2>2 DEF AppliedDestination
<1> QED
  BY <1>1, SourceInitInv, SourceStep, PTL DEF SourceSpec
=============================================================================

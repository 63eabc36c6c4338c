---------------------------- MODULE ViewerProofs ----------------------------
(***************************************************************************)
(* What Viewer promises, for every number of interfaces, devices, clients, *)
(* layouts and crashes: that the viewer controls the device it was given   *)
(* or the only one that answered, that every client goes by a sound        *)
(* description or has an excuse, and that a run which reports success is   *)
(* complete.  The inductive invariant has three parts that do not meet:    *)
(* the search, the description files, and the pipeline's bus.              *)
(***************************************************************************)
EXTENDS Viewer, SequenceTheorems, TLAPS

---------------------------------------------------------------------------
(* The search                                                              *)

Answers == [interface : Interfaces, device : Devices]

(* In these phases run() has a target.                                     *)
Targeted == {"overlay", "encoder", "build", "start"}

(* Every answer that was heard is among the responses, so that one         *)
(* response means one answer; who was given a target has heard nobody.     *)
SearchInv ==
  /\ responses \in Seq(Answers)
  /\ search = "recv" => current \in Interfaces
  /\ toAsk \subseteq Interfaces /\ underway \subseteq Devices
  /\ \A h \in heard : \E i \in 1 .. Len(responses) : responses[i] = h
  /\ phase = "target" => heard = {}
  /\ phase \in {"target", "search"} => target = None
  /\ target # None => phase = "search" \/ \A h \in heard : h.device = target
  /\ phase \in Targeted => target \in Devices

---------------------------------------------------------------------------
(* The descriptions                                                        *)

Layouts == Nat \ {0}

Texts == [device : Devices, layout : Layouts, text : {"whole", "mixed", "cut"}]

(* A mixture shows that its device has changed.                            *)
MixedOnce(d) == d.text = "mixed" => layout[d.device] > 1

(* A file holds a device's description; a text that is cut off is being    *)
(* written, or torn.                                                       *)
FileSound(p) ==
  /\ files[p] \in Texts
  /\ root # "file" => files[p].device = p
  /\ MixedOnce(files[p])
  /\ files[p].text = "cut" => p \in torn \/ Writing(p) # {}

FilesInv == \A p \in Devices \cup {"file"} : files[p] # None => FileSound(p)

(* What a client has read of its device, and is about to write, is whole   *)
(* or a mixture.                                                           *)
Reading(c) ==
  /\ job[c].descr \in Texts
  /\ job[c].descr.device = job[c].device
  /\ job[c].descr.text # "cut"
  /\ MixedOnce(job[c].descr)

JobSound(c) ==
  /\ job[c].step \in {"look", "introspect", "read", "persist", "write"} =>
       job[c].device \in Devices
  /\ job[c].step \in {"read", "persist", "write"} => Reading(c)
  /\ job[c].step = "read" => job[c].descr.layout <= layout[job[c].device]
  /\ job[c].step \in {"got", "unreadable"} => job[c].descr \in Texts
  /\ SoundFor(c)

JobsInv == \A c \in Clients : JobSound(c)

JobRecords == [step : Steps, device : Devices \cup {None},
               descr : Texts \cup {None}, excused : BOOLEAN]

DescribedTypes ==
  /\ root \in {"none", "file", "directory"}
  /\ layout \in [Devices -> Layouts]
  /\ DOMAIN files = Devices \cup {"file"}
  /\ job \in [Clients -> JobRecords]

DescribedInv == DescribedTypes /\ FilesInv /\ JobsInv

(* The viewer opens a description only when it has none open.              *)
MyJob == phase \in {"encoder", "build", "start"} => job[Me].step = "idle"

---------------------------------------------------------------------------
(* The pipeline                                                            *)

Messages == {"eos", "error", "state"}

Before == {"target", "search", "overlay", "encoder", "build", "start", "connect"}

(* An error that was posted first is met first.                            *)
ErrorAhead ==
  \E i \in 1 .. Len(bus) :
    bus[i] = "error" /\ \A j \in 1 .. i - 1 : bus[j] # "eos"

PipelineInv ==
  /\ bus \in Seq(Messages)
  /\ ended \in BOOLEAN /\ failedFirst \in BOOLEAN /\ gaveUp \in BOOLEAN
  /\ phase \in Before => bus = <<>> /\ ~failedFirst
  /\ \A i \in 1 .. Len(bus) : bus[i] = "eos" => ended
  /\ phase \in {"play", "finalize"} /\ failedFirst => ErrorAhead
  /\ phase \in {"stop", "exit"} /\ result = "ok" =>
       (ended /\ ~failedFirst) \/ gaveUp

ViewerInv == SearchInv /\ DescribedInv /\ MyJob /\ PipelineInv
---------------------------------------------------------------------------
(* Proof of the search's part                                              *)

(* Who was heard is found in the list, before and after a push.            *)
Lists(s, H) == \A h \in H : \E i \in 1 .. Len(s) : s[i] = h

(* Pushing an answer that is heard keeps every answer listed.              *)
LEMMA Pushed ==
  ASSUME NEW s \in Seq(Answers), NEW a \in Answers, NEW H, Lists(s, H)
  PROVE  /\ Append(s, a) \in Seq(Answers)
         /\ Lists(Append(s, a), H \cup {a})
<1> DEFINE n == Len(s)
           t == Append(s, a)
<1>1. /\ t \in Seq(Answers) /\ n \in Nat /\ Len(t) = n + 1
      /\ \A i \in 1 .. n : t[i] = s[i]
      /\ t[n + 1] = a
  BY AppendProperties, LenProperties
<1> HIDE DEF n, t
<1>2. ASSUME NEW h \in H PROVE \E i \in 1 .. Len(t) : t[i] = h
  <2>1. PICK i \in 1 .. n : s[i] = h
    BY DEF Lists, n
  <2>2. i \in 1 .. n + 1
    BY <1>1
  <2> QED
    BY <1>1, <2>1, <2>2
<1>3. n + 1 \in 1 .. n + 1
  BY <1>1
<1> QED
  BY <1>1, <1>2, <1>3 DEF Lists, t

(* One entry lists one answer.                                             *)
LEMMA OneListed ==
  ASSUME NEW s, NEW H, Lists(s, H), Len(s) = 1
  PROVE  \A h \in H : h = s[1]
BY DEF Lists

(* An answer that is received keeps the search sound.                      *)
LEMMA AnswerStep ==
  ASSUME SearchInv, phase = "search", NEW d \in Devices, Answer(d),
         UNCHANGED <<phase, target>>
  PROVE  SearchInv'
<1> DEFINE a == [interface |-> current, device |-> d]
<1>1. a \in Answers
  BY DEF SearchInv, Answer, Answers
<1>2. Lists(responses, heard)
  BY DEF SearchInv, Lists
<1>3. responses' \in Seq(Answers) /\ Lists(responses', heard \cup {a})
  <2>1. CASE Seen(current, d)
    <3>1. PICK i \in 1 .. Len(responses) : responses[i] = a
      BY <2>1, LenProperties DEF Seen, ToSet, SearchInv
    <3>2. responses' = responses
      BY <2>1 DEF Answer
    <3> QED
      BY <1>2, <3>1, <3>2 DEF Lists, SearchInv
  <2>2. CASE ~Seen(current, d)
    <3>1. responses' = Append(responses, a) /\ responses \in Seq(Answers)
      BY <2>2 DEF Answer, SearchInv
    <3> HIDE DEF a
    <3> QED
      BY <1>1, <1>2, <3>1, Pushed
  <2> QED
    BY <2>1, <2>2
<1>4. heard' = heard \cup {a}
  BY DEF Answer
<1> HIDE DEF a
<1>5. \A h \in heard' : \E i \in 1 .. Len(responses') : responses'[i] = h
  BY <1>3, <1>4 DEF Lists
<1>6. /\ search' = search /\ current' = current /\ toAsk' = toAsk
      /\ underway' \subseteq underway
  BY DEF Answer
<1> QED
  BY <1>3, <1>5, <1>6 DEF SearchInv, Targeted

(* The other steps of a search.                                            *)
LEMMA SearchStep ==
  ASSUME SearchInv, Search PROVE SearchInv'
<1> USE DEF SearchInv, Targeted
<1>1. phase = "search" /\ UNCHANGED <<phase, target>>
  BY DEF Search, viewer
<1>2. CASE Ask
  BY <1>1, <1>2 DEF Ask
<1>3. ASSUME Lose PROVE SearchInv'
  <2>1. << >> \in Seq(Answers)
    OBVIOUS
  <2> QED
    BY <1>1, <1>3, <2>1 DEF Lose
<1>4. CASE Silence \/ Found
  BY <1>1, <1>4 DEF Silence, Found
<1>5. CASE \E d \in Devices : Answer(d)
  BY <1>1, <1>5, AnswerStep
<1> QED
  BY <1>2, <1>3, <1>4, <1>5 DEF Search, Searching, Abort, BadDatagram

(* The steps of run() around the search.                                   *)
LEMMA TargetStep ==
  ASSUME SearchInv, GivenTarget \/ Discover \/ Resolve \/ Overlay
  PROVE  SearchInv'
<1>1. CASE GivenTarget
  BY <1>1 DEF GivenTarget, SearchInv, Targeted, discovery
<1>2. CASE Discover
  BY <1>2 DEF Discover, Begin, SearchInv, Targeted
<1>3. CASE Resolve
  <2>1. CASE search = "done" /\ OneFound /\ phase' = "overlay"
             /\ target' = responses[1].device
    <3>1. Lists(responses, heard) /\ Len(responses) = 1
      BY <2>1 DEF Lists, SearchInv, OneFound
    <3>2. \A h \in heard : h = responses[1]
      BY <3>1, OneListed
    <3>3. responses[1] \in Answers
      BY <3>1, ElementOfSeq DEF SearchInv
    <3>4. responses[1].device \in Devices
      BY <3>3 DEF Answers
    <3> QED
      BY <1>3, <2>1, <3>2, <3>4 DEF Resolve, SearchInv, Targeted, discovery
  <2>2. CASE Fail /\ UNCHANGED target
    BY <1>3, <2>2 DEF Resolve, Fail, SearchInv, Targeted, discovery
  <2> QED
    BY <1>3, <2>1, <2>2 DEF Resolve
<1>4. CASE Overlay
  <2>1. CASE UNCHANGED phase /\ UNCHANGED discovery
    BY <1>4, <2>1 DEF Overlay, SearchInv, Targeted, discovery
  <2>2. CASE phase' \in {"encoder", "build"} /\ Forget
    <3>1. << >> \in Seq(Answers)
      OBVIOUS
    <3> QED
      BY <1>4, <2>2, <3>1 DEF Overlay, Forget, SearchInv, Targeted
  <2> QED
    BY <1>4, <2>1, <2>2 DEF Overlay
<1> QED
  BY <1>1, <1>2, <1>3, <1>4

(* The later phases, the pipeline and the other clients leave the search   *)
(* and the target alone.                                                   *)
LEMMA NoSearchStep ==
  ASSUME SearchInv, UNCHANGED <<discovery, target>>,
         phase' = phase \/ (phase \notin {"target", "search"}
                            /\ phase' \notin {"target", "search", "overlay"}
                            /\ (phase' \in Targeted => phase \in Targeted))
  PROVE  SearchInv'
BY DEF SearchInv, discovery

(* Every step preserves the search's part.                                 *)
LEMMA SearchNext ==
  ASSUME SearchInv, [Next]_vars PROVE SearchInv'
<1>1. CASE GivenTarget \/ Discover \/ Resolve \/ Overlay
  BY <1>1, TargetStep
<1>2. CASE Search
  BY <1>2, SearchStep
<1>3. CASE SelectEncoder \/ Build \/ Connect \/ Play \/ SendEos \/ GiveUp \/ Stop
  BY <1>3, NoSearchStep
     DEF SelectEncoder, Build, Connect, Play, SendEos, GiveUp, Stop, Fail, Targeted
<1>4. CASE Pop
  BY <1>4, NoSearchStep DEF Pop, Targeted
<1>5. CASE CtrlC \/ Pipeline \/ UNCHANGED <<viewer, discovery>>
  BY <1>5, NoSearchStep DEF CtrlC, Pipeline, StreamEnds, Post, viewer
<1> QED
  BY <1>1, <1>2, <1>3, <1>4, <1>5
     DEF Next, Run, OtherOpens, Interrupted, DeviceChanges, Describe, vars
---------------------------------------------------------------------------
(* Proof of the pipeline's part                                            *)

(* An error in the list, and no end of the stream before it.               *)
FailsFirst(s) ==
  \E i \in 1 .. Len(s) : s[i] = "error" /\ \A j \in 1 .. i - 1 : s[j] # "eos"

(* A message is posted behind the others.                                  *)
LEMMA Posted ==
  ASSUME NEW s \in Seq(Messages), NEW m \in Messages
  PROVE  /\ Append(s, m) \in Seq(Messages)
         /\ \A i \in 1 .. Len(Append(s, m)) :
              Append(s, m)[i] = m \/ \E j \in 1 .. Len(s) : Append(s, m)[i] = s[j]
         /\ FailsFirst(s) => FailsFirst(Append(s, m))
         /\ m = "error" /\ (\A i \in 1 .. Len(s) : s[i] # "eos") =>
              FailsFirst(Append(s, m))
<1> DEFINE n == Len(s)
           t == Append(s, m)
<1>1. /\ t \in Seq(Messages) /\ n \in Nat /\ Len(t) = n + 1
      /\ \A i \in 1 .. n : t[i] = s[i]
      /\ t[n + 1] = m
  BY AppendProperties, LenProperties
<1> HIDE DEF n, t
<1>2. \A i \in 1 .. n + 1 : i = n + 1 \/ i \in 1 .. n
  BY <1>1
<1>3. \A i \in 1 .. Len(t) : t[i] = m \/ \E j \in 1 .. n : t[i] = s[j]
  BY <1>1, <1>2
<1>4. ASSUME FailsFirst(s) PROVE FailsFirst(t)
  <2>1. PICK i \in 1 .. n : s[i] = "error" /\ \A j \in 1 .. i - 1 : s[j] # "eos"
    BY <1>4 DEF FailsFirst, n
  <2>2. i \in 1 .. n + 1 /\ \A j \in 1 .. i - 1 : j \in 1 .. n
    BY <1>1
  <2> QED
    BY <1>1, <2>1, <2>2 DEF FailsFirst
<1>5. ASSUME m = "error", \A i \in 1 .. n : s[i] # "eos" PROVE FailsFirst(t)
  <2>1. n + 1 \in 1 .. n + 1 /\ (n + 1) - 1 = n
    BY <1>1
  <2> QED
    BY <1>1, <1>5, <2>1 DEF FailsFirst
<1> QED
  BY <1>1, <1>3, <1>4, <1>5 DEF n, t

(* The first message is taken, the others keep their order.                *)
LEMMA Popped ==
  ASSUME NEW s \in Seq(Messages), s # << >>
  PROVE  /\ Head(s) \in Messages /\ Tail(s) \in Seq(Messages)
         /\ \E i \in 1 .. Len(s) : s[i] = Head(s)
         /\ \A i \in 1 .. Len(Tail(s)) : \E j \in 1 .. Len(s) : Tail(s)[i] = s[j]
         /\ FailsFirst(s) => Head(s) = "error" \/ FailsFirst(Tail(s))
         /\ FailsFirst(s) => Head(s) # "eos"
<1> DEFINE n == Len(s)
           h == Head(s)
           t == Tail(s)
<1>1. /\ h = s[1] /\ h \in Messages /\ t \in Seq(Messages)
      /\ n \in Nat /\ n >= 1 /\ Len(t) = n - 1
      /\ \A i \in 1 .. n - 1 : t[i] = s[i + 1]
  <2>1. h = s[1] /\ n \in Nat /\ n >= 1
    BY LenProperties, EmptySeq
  <2>2. h \in Messages
    BY <2>1, ElementOfSeq
  <2> QED
    BY <2>1, <2>2, HeadTailProperties
<1> HIDE DEF n, h, t
<1>2. 1 \in 1 .. n /\ \A i \in 1 .. n - 1 : i + 1 \in 1 .. n
  BY <1>1
<1>3. ASSUME FailsFirst(s) PROVE h # "eos" /\ (h = "error" \/ FailsFirst(t))
  <2>1. PICK i \in 1 .. n : s[i] = "error" /\ \A j \in 1 .. i - 1 : s[j] # "eos"
    BY <1>3 DEF FailsFirst, n
  <2>2. CASE i = 1
    BY <1>1, <2>1, <2>2
  <2>3. CASE i # 1
    <3> DEFINE k == i - 1
    <3>1. /\ k \in 1 .. n - 1 /\ k + 1 = i /\ 1 \in 1 .. i - 1
          /\ \A j \in 1 .. k - 1 : j \in 1 .. n - 1 /\ j + 1 \in 1 .. i - 1
      BY <1>1, <2>1, <2>3
    <3> HIDE DEF k
    <3>2. t[k] = "error" /\ \A j \in 1 .. k - 1 : t[j] # "eos"
      BY <1>1, <2>1, <3>1
    <3> QED
      BY <1>1, <2>1, <3>1, <3>2 DEF FailsFirst
  <2> QED
    BY <2>2, <2>3
<1> QED
  BY <1>1, <1>2, <1>3 DEF n, h, t

(* The phases before the pipeline plays, and those after it.               *)
LEMMA EarlyStep ==
  ASSUME PipelineInv, UNCHANGED <<pipeline, gaveUp>>,
         phase \in Before, phase' \in Before \cup {"play"}
           \/ (phase' \in {"stop", "exit"} /\ result' = "error")
  PROVE  PipelineInv'
<1>1. UNCHANGED <<bus, posted, ended, failedFirst, gaveUp>>
  BY DEF pipeline
<1> QED
  BY <1>1 DEF PipelineInv, Before, ErrorAhead

(* The pipeline posts that the stream has ended, or an error before.       *)
LEMMA PipelineStep ==
  ASSUME PipelineInv, Pipeline PROVE PipelineInv'
<1>1. /\ bus \in Seq(Messages)
      /\ UNCHANGED <<phase, result, gaveUp>> /\ phase \in {"play", "finalize"}
  BY DEF PipelineInv, Pipeline, StreamEnds, Post, Playing
<1>2. CASE StreamEnds
  <2>1. bus' = Append(bus, "eos") /\ ended' = TRUE /\ UNCHANGED failedFirst
    BY <1>2 DEF StreamEnds
  <2>2. "eos" \in Messages
    BY DEF Messages
  <2>3. bus' \in Seq(Messages) /\ (FailsFirst(bus) => FailsFirst(bus'))
    BY <1>1, <2>1, <2>2, Posted
  <2> QED
    BY <1>1, <2>1, <2>3 DEF PipelineInv, Before, ErrorAhead, FailsFirst
<1>3. ASSUME NEW m \in {"error", "state"}, Post(m) PROVE PipelineInv'
  <2>1. /\ bus' = Append(bus, m) /\ UNCHANGED ended
        /\ failedFirst' = (failedFirst \/ (m = "error" /\ ~ended))
    BY <1>3 DEF Post
  <2>2. m \in Messages
    BY DEF Messages
  <2>3. /\ bus' \in Seq(Messages) /\ (FailsFirst(bus) => FailsFirst(bus'))
        /\ \A i \in 1 .. Len(bus') :
             bus'[i] = m \/ \E j \in 1 .. Len(bus) : bus'[i] = bus[j]
        /\ m = "error" /\ (\A i \in 1 .. Len(bus) : bus[i] # "eos") =>
             FailsFirst(bus')
    BY <1>1, <2>1, <2>2, Posted
  <2>4. \A i \in 1 .. Len(bus') : bus'[i] = "eos" => ended'
    BY <2>1, <2>3 DEF PipelineInv
  <2>5. failedFirst' => FailsFirst(bus')
    BY <1>1, <2>1, <2>3 DEF PipelineInv, ErrorAhead, FailsFirst
  <2>6. failedFirst' \in BOOLEAN
    BY <2>1 DEF PipelineInv
  <2> QED
    BY <1>1, <2>1, <2>3, <2>4, <2>5, <2>6
       DEF PipelineInv, Before, ErrorAhead, FailsFirst
<1> QED
  BY <1>2, <1>3 DEF Pipeline

(* run() takes the next message.                                           *)
LEMMA PopStep ==
  ASSUME PipelineInv, Pop PROVE PipelineInv'
<1>1. /\ bus \in Seq(Messages) /\ bus # << >> /\ bus' = Tail(bus)
      /\ phase \in {"play", "finalize"} /\ UNCHANGED <<ended, failedFirst, gaveUp>>
  BY DEF Pop, PipelineInv
<1>2. /\ Head(bus) \in Messages /\ Tail(bus) \in Seq(Messages)
      /\ \E i \in 1 .. Len(bus) : bus[i] = Head(bus)
      /\ \A i \in 1 .. Len(Tail(bus)) : \E j \in 1 .. Len(bus) : Tail(bus)[i] = bus[j]
      /\ FailsFirst(bus) => Head(bus) = "error" \/ FailsFirst(Tail(bus))
      /\ FailsFirst(bus) => Head(bus) # "eos"
  BY <1>1, Popped
<1>3. Head(bus) = "eos" => ended
  BY <1>2 DEF PipelineInv
<1>4. \A i \in 1 .. Len(bus') : bus'[i] = "eos" => ended
  BY <1>1, <1>2 DEF PipelineInv
<1>5. failedFirst => FailsFirst(bus)
  BY <1>1 DEF PipelineInv, ErrorAhead, FailsFirst
<1>6. CASE Head(bus) = "eos"
  <2>1. phase' = "stop" /\ ended /\ ~failedFirst
    BY <1>2, <1>3, <1>5, <1>6 DEF Pop
  <2> QED
    BY <1>1, <1>2, <1>4, <2>1 DEF PipelineInv, Before
<1>7. CASE Head(bus) = "error"
  <2>1. phase' = "stop" /\ result' = "error"
    BY <1>7 DEF Pop
  <2> QED
    BY <1>1, <1>2, <1>4, <2>1 DEF PipelineInv, Before
<1>8. CASE Head(bus) = "state"
  <2>1. phase' = phase
    BY <1>8 DEF Pop
  <2>2. failedFirst => FailsFirst(bus')
    BY <1>1, <1>2, <1>5, <1>8
  <2> QED
    BY <1>1, <1>2, <1>4, <2>1, <2>2 DEF PipelineInv, Before, ErrorAhead, FailsFirst
<1> QED
  BY <1>2, <1>6, <1>7, <1>8 DEF Messages

(* Every step preserves the pipeline's part.                               *)
LEMMA PipelineNext ==
  ASSUME PipelineInv, [Next]_vars PROVE PipelineInv'
<1>1. CASE GivenTarget \/ Discover \/ Resolve \/ Overlay
  BY <1>1, EarlyStep DEF GivenTarget, Discover, Resolve, Overlay, Fail, Before
<1>2. CASE SelectEncoder \/ Build \/ Connect \/ Play
  BY <1>2, EarlyStep DEF SelectEncoder, Build, Connect, Play, Fail, Before
<1>3. CASE SendEos \/ GiveUp \/ Stop
  <2>1. /\ UNCHANGED <<bus, ended, failedFirst>>
        /\ phase \in {"play", "finalize", "stop"}
        /\ phase' \in {"finalize", "stop", "exit"}
        /\ phase' = "finalize" => phase = "play"
    BY <1>3 DEF SendEos, GiveUp, Stop, pipeline
  <2>2. /\ phase' \notin Before /\ ErrorAhead' = ErrorAhead
        /\ gaveUp' \in BOOLEAN
    BY <1>3, <2>1 DEF SendEos, GiveUp, Stop, Before, ErrorAhead, PipelineInv
  <2>3. phase' \in {"stop", "exit"} /\ result' = "ok" =>
          (ended' /\ ~failedFirst') \/ gaveUp'
    BY <1>3, <2>1 DEF SendEos, GiveUp, Stop, PipelineInv
  <2>4. phase' \in {"play", "finalize"} /\ failedFirst' => ErrorAhead'
    BY <2>1, <2>2 DEF PipelineInv
  <2> QED
    BY <2>1, <2>2, <2>3, <2>4 DEF PipelineInv
<1>4. CASE Pop
  BY <1>4, PopStep
<1>5. CASE Pipeline
  BY <1>5, PipelineStep
<1>6. CASE UNCHANGED <<phase, pipeline, result, gaveUp>>
  BY <1>6 DEF pipeline, PipelineInv, ErrorAhead
<1> QED
  BY <1>1, <1>2, <1>3, <1>4, <1>5, <1>6
     DEF Next, Run, Search, CtrlC, OtherOpens, Interrupted, DeviceChanges,
         Describe, vars, viewer
---------------------------------------------------------------------------
(* Proof of the descriptions' part                                         *)

(* Where a device's description is kept there is a file.                   *)
LEMMA PathIsFile ==
  ASSUME DescribedTypes, NEW d \in Devices
  PROVE  Path(d) \in DOMAIN files /\ (root # "file" => Path(d) = d)
BY DEF DescribedTypes, Path

(* What another client is doing is as sound as before.                     *)
LEMMA OthersSound ==
  ASSUME JobsInv, NEW c \in Clients, job'[c] = job[c], UNCHANGED <<root, layout>>
  PROVE  JobSound(c)'
<1>1. JobSound(c)
  BY DEF JobsInv
<1> QED
  BY <1>1 DEF JobSound, Reading, MixedOnce, SoundFor

(* A file that is not written to, and not left torn, is as sound as before.*)
LEMMA FileKept ==
  ASSUME DescribedInv, NEW c \in Clients,
         \A b \in Clients \ {c} : job'[b] = job[b],
         UNCHANGED <<root, layout>>,
         NEW p \in Devices \cup {"file"}, files[p] # None, files'[p] = files[p],
         p \in torn => p \in torn',
         job[c].step = "write" /\ Path(job[c].device) = p => p \in torn'
  PROVE  FileSound(p)'
<1>1. FileSound(p)
  BY DEF DescribedInv, FilesInv
<1>2. ASSUME NEW w \in Writing(p) PROVE p \in torn' \/ w \in Writing(p)'
  <2>1. w \in Clients /\ job[w].step = "write" /\ Path(job[w].device) = p
    BY DEF Writing
  <2>2. CASE w = c
    BY <2>1, <2>2
  <2>3. CASE w # c
    <3>1. job'[w] = job[w]
      BY <2>1, <2>3
    <3> QED
      BY <2>1, <3>1 DEF Writing, Path
  <2> QED
    BY <2>2, <2>3
<1>3. Writing(p) # {} => p \in torn' \/ Writing(p)' # {}
  BY <1>2
<1> QED
  BY <1>1, <1>3 DEF FileSound, MixedOnce

(* A client goes on with what it does, and no file is touched: only a      *)
(* write that is abandoned leaves something behind, a torn file.           *)
LEMMA Moved ==
  ASSUME DescribedInv, NEW c \in Clients, NEW j \in JobRecords,
         job' = [job EXCEPT ![c] = j],
         UNCHANGED <<root, layout, files>>, torn \subseteq torn',
         job[c].step # "write" \/ Path(job[c].device) \in torn',
         JobSound(c)'
  PROVE  DescribedInv'
<1>1. DescribedTypes'
  BY DEF DescribedInv, DescribedTypes
<1>2. \A b \in Clients \ {c} : job'[b] = job[b]
  BY DEF DescribedInv, DescribedTypes
<1>3. JobsInv'
  <2>1. ASSUME NEW b \in Clients \ {c} PROVE JobSound(b)'
    BY <1>2, <2>1, OthersSound DEF DescribedInv
  <2> QED
    BY <2>1 DEF JobsInv
<1>4. ASSUME NEW p \in Devices \cup {"file"}, files[p] # None
      PROVE  FileSound(p)'
  BY <1>2, <1>4, FileKept
<1> QED
  BY <1>1, <1>3, <1>4 DEF DescribedInv, FilesInv

(* What the invariant says of one client.                                  *)
LEMMA JobTyped ==
  ASSUME DescribedInv, NEW c \in Clients
  PROVE  job[c] \in JobRecords /\ JobSound(c)
BY DEF DescribedInv, DescribedTypes, JobsInv

(* A client begins with a device.                                          *)
LEMMA OpenStep ==
  ASSUME DescribedInv, NEW c \in Clients, NEW d \in Devices,
         job[c].step # "write", Open(c, d)
  PROVE  DescribedInv'
<1> DEFINE j == [Idle EXCEPT !.step = "look", !.device = d]
<1>1. j \in JobRecords /\ j.step = "look" /\ j.device = d
  BY DEF Idle, JobRecords, Steps
<1>2. job' = [job EXCEPT ![c] = j] /\ UNCHANGED <<root, layout, files, torn>>
  BY DEF Open
<1> HIDE DEF j
<1>3. job'[c] = j
  BY <1>2 DEF DescribedInv, DescribedTypes
<1>4. JobSound(c)'
  BY <1>1, <1>3 DEF JobSound, SoundFor
<1> QED
  BY <1>1, <1>2, <1>4, Moved

(* A client is done with a description.                                    *)
LEMMA CloseStep ==
  ASSUME DescribedInv, NEW c \in Clients, job[c].step # "write", Close(c)
  PROVE  DescribedInv'
<1>1. Idle \in JobRecords /\ Idle.step = "idle"
  BY DEF Idle, JobRecords, Steps
<1>2. job' = [job EXCEPT ![c] = Idle] /\ UNCHANGED <<root, layout, files, torn>>
  BY DEF Close
<1>3. job'[c] = Idle
  BY <1>2 DEF DescribedInv, DescribedTypes
<1>4. JobSound(c)'
  BY <1>1, <1>3 DEF JobSound, SoundFor
<1> QED
  BY <1>1, <1>2, <1>4, Moved

(* A client looks for the file: a text that is cut off is excused.         *)
LEMMA LookStep ==
  ASSUME DescribedInv, NEW c \in Clients, Look(c) PROVE DescribedInv'
<1> DEFINE p == Path(job[c].device)
<1>1. /\ job[c].step = "look" /\ job[c].device \in Devices
      /\ job[c] \in JobRecords /\ UNCHANGED <<root, layout, files, torn>>
  BY JobTyped DEF Look, JobSound
<1>2. CASE Becomes(c, "introspect", None)
  <2> DEFINE j == [job[c] EXCEPT !.step = "introspect", !.descr = None]
  <2>1. j \in JobRecords /\ j.step = "introspect" /\ j.device = job[c].device
    BY <1>1 DEF JobRecords, Steps
  <2>2. job' = [job EXCEPT ![c] = j]
    BY <1>2 DEF Becomes, DescribedInv, DescribedTypes
  <2> HIDE DEF j
  <2>3. job'[c] = j
    BY <2>2 DEF DescribedInv, DescribedTypes
  <2>4. JobSound(c)'
    BY <1>1, <2>1, <2>3 DEF JobSound, SoundFor
  <2> QED
    BY <1>1, <2>1, <2>2, <2>4, Moved
<1>3. ASSUME NEW s \in Parsed(files[p]), root # "none", files[p] # None,
             job' = [job EXCEPT ![c].step = s, ![c].descr = files[p],
                                ![c].excused = p \in torn \/ Writing(p) # {}]
      PROVE  DescribedInv'
  <2> DEFINE x == p \in torn \/ Writing(p) # {}
             j == [job[c] EXCEPT !.step = s, !.descr = files[p], !.excused = x]
  <2>1. p \in Devices \cup {"file"} /\ (root # "file" => p = job[c].device)
    BY <1>1, PathIsFile DEF DescribedInv, DescribedTypes
  <2>2. FileSound(p)
    BY <1>3, <2>1 DEF DescribedInv, FilesInv
  <2>3. s \in {"got", "unreadable"} /\ s \in Steps /\ files[p] \in Texts /\ x \in BOOLEAN
    BY <1>3, <2>2 DEF Parsed, FileSound, Steps
  <2>4. job' = [job EXCEPT ![c] = j]
    BY <1>3 DEF DescribedInv, DescribedTypes
  <2>5. /\ j \in JobRecords /\ j.step = s /\ j.descr = files[p]
        /\ j.device = job[c].device /\ j.excused = x
    BY <1>1, <2>3 DEF JobRecords
  <2> HIDE DEF j
  <2>6. job'[c] = j
    BY <2>4 DEF DescribedInv, DescribedTypes
  <2>7. /\ files[p].device # job[c].device => root = "file"
        /\ files[p].text = "cut" => x
        /\ files[p].text = "mixed" => layout[files[p].device] > 1
    BY <2>1, <2>2 DEF FileSound, MixedOnce
  <2> HIDE DEF x, p
  <2>8. JobSound(c)'
    BY <1>1, <2>3, <2>5, <2>6, <2>7 DEF JobSound, SoundFor
  <2> QED
    BY <1>1, <2>4, <2>5, <2>8, Moved
<1> QED
  BY <1>2, <1>3 DEF Look

(* A client reads the device: the first of its registers, ...              *)
LEMMA IntrospectStep ==
  ASSUME DescribedInv, NEW c \in Clients, Introspect(c) PROVE DescribedInv'
<1> DEFINE d == [device |-> job[c].device, text |-> "whole",
                 layout |-> layout[job[c].device]]
           j == [job[c] EXCEPT !.step = "read", !.descr = d]
<1>1. /\ job[c].step = "introspect" /\ job[c].device \in Devices
      /\ job[c] \in JobRecords /\ UNCHANGED <<root, layout, files, torn>>
      /\ layout \in [Devices -> Layouts] /\ Becomes(c, "read", d)
  BY JobTyped DEF Introspect, JobSound, DescribedInv, DescribedTypes
<1>2. /\ d \in Texts /\ d.device = job[c].device /\ d.text = "whole"
      /\ d.layout = layout[job[c].device] /\ d.layout \in Nat
  BY <1>1 DEF Texts, Layouts
<1> HIDE DEF d
<1>3. /\ j \in JobRecords /\ j.step = "read" /\ j.device = job[c].device
      /\ j.descr = d
  BY <1>1, <1>2 DEF JobRecords, Steps
<1>4. job' = [job EXCEPT ![c] = j]
  BY <1>1 DEF Becomes, DescribedInv, DescribedTypes
<1> HIDE DEF j
<1>5. job'[c] = j
  BY <1>4 DEF DescribedInv, DescribedTypes
<1>6. JobSound(c)'
  BY <1>1, <1>2, <1>3, <1>5 DEF JobSound, Reading, MixedOnce, SoundFor
<1> QED
  BY <1>1, <1>3, <1>4, <1>6, Moved

(* ... and the last: when the layout is another one by then, there was a   *)
(* change, and the device is not in its first layout any more.             *)
LEMMA IntrospectedStep ==
  ASSUME DescribedInv, NEW c \in Clients, Introspected(c) PROVE DescribedInv'
<1> DEFINE d == job[c].descr
           t == IF d.layout = layout[d.device] THEN "whole" ELSE "mixed"
           e == [d EXCEPT !.text = t]
           s == IF root = "none" THEN "got" ELSE "persist"
           j == [job[c] EXCEPT !.step = s, !.descr = e]
<1>1. /\ job[c].step = "read" /\ job[c].device \in Devices
      /\ job[c] \in JobRecords /\ UNCHANGED <<root, layout, files, torn>>
      /\ Reading(c) /\ d.layout <= layout[job[c].device]
      /\ layout \in [Devices -> Layouts] /\ Becomes(c, s, e)
  BY JobTyped DEF Introspected, JobSound, DescribedInv, DescribedTypes
<1>2. d \in Texts /\ d.device = job[c].device
  BY <1>1 DEF Reading
<1>3. /\ d.layout \in Nat /\ d.layout > 0
      /\ layout[d.device] \in Nat /\ d.layout <= layout[d.device]
  BY <1>1, <1>2 DEF Texts, Layouts
<1>4. t \in {"whole", "mixed"} /\ (t = "mixed" => layout[d.device] > 1)
  BY <1>3
<1> HIDE DEF t
<1>5. e \in Texts /\ e.device = job[c].device /\ e.text = t
  BY <1>2, <1>4 DEF Texts
<1>6. MixedOnce(e) /\ e.text # "cut"
  BY <1>2, <1>4, <1>5 DEF MixedOnce
<1> HIDE DEF d, e
<1>7. s \in {"got", "persist"} /\ s \in Steps
  BY DEF Steps
<1> HIDE DEF s
<1>8. /\ j \in JobRecords /\ j.step = s /\ j.device = job[c].device /\ j.descr = e
  BY <1>1, <1>5, <1>7 DEF JobRecords
<1>9. job' = [job EXCEPT ![c] = j]
  BY <1>1 DEF Becomes, DescribedInv, DescribedTypes
<1> HIDE DEF j
<1>10. job'[c] = j
  BY <1>9 DEF DescribedInv, DescribedTypes
<1>11. JobSound(c)'
  BY <1>1, <1>5, <1>6, <1>7, <1>8, <1>10 DEF JobSound, Reading, MixedOnce, SoundFor
<1> QED
  BY <1>1, <1>8, <1>9, <1>11, Moved

(* A client stops with nothing: it could not read the device, or its write *)
(* was cut short, which leaves a torn file.                                *)
LEMMA NothingStep ==
  ASSUME DescribedInv, NEW c \in Clients, NEW s \in {"failed", "dead"},
         Becomes(c, s, None), UNCHANGED <<root, layout, files>>,
         torn \subseteq torn',
         job[c].step # "write" \/ Path(job[c].device) \in torn'
  PROVE  DescribedInv'
<1> DEFINE j == [job[c] EXCEPT !.step = s, !.descr = None]
<1>1. s \in Steps /\ j \in JobRecords /\ j.step = s
  <2>1. s \in Steps
    BY DEF Steps
  <2> QED
    BY <2>1, JobTyped DEF JobRecords
<1>2. job' = [job EXCEPT ![c] = j]
  BY DEF Becomes, DescribedInv, DescribedTypes
<1> HIDE DEF j
<1>3. job'[c] = j
  BY <1>2 DEF DescribedInv, DescribedTypes
<1>4. JobSound(c)'
  BY <1>1, <1>3 DEF JobSound, SoundFor
<1> QED
  BY <1>1, <1>2, <1>4, Moved
(* The file is truncated: from now on somebody is writing it.              *)
LEMMA PersistStep ==
  ASSUME DescribedInv, NEW c \in Clients, Persist(c) PROVE DescribedInv'
<1>0. PICK p : p = Path(job[c].device)
  OBVIOUS
<1> DEFINE d == job[c].descr
           j == [job[c] EXCEPT !.step = "write", !.descr = d]
<1>1. /\ job[c].step = "persist" /\ job[c].device \in Devices
      /\ job[c] \in JobRecords /\ UNCHANGED <<root, layout>>
      /\ Reading(c) /\ Becomes(c, "write", d)
      /\ files' = [files EXCEPT ![p] = CutOff(d)]
      /\ torn' = IF Writing(p) = {} THEN torn \ {p} ELSE torn \cup {p}
  BY <1>0, JobTyped DEF Persist, JobSound
<1>2. p \in Devices \cup {"file"} /\ (root # "file" => p = job[c].device)
  BY <1>0, <1>1, PathIsFile DEF DescribedInv, DescribedTypes
<1>3. d \in Texts /\ d.device = job[c].device
  BY <1>1 DEF Reading
<1>4. /\ CutOff(d) \in Texts /\ CutOff(d).device = job[c].device
      /\ CutOff(d).text = "cut"
  BY <1>3 DEF CutOff, Texts
<1>5. /\ j \in JobRecords /\ j.step = "write" /\ j.device = job[c].device
      /\ j.descr = d
  BY <1>1, <1>3 DEF JobRecords, Steps
<1>6. job' = [job EXCEPT ![c] = j]
  BY <1>1 DEF Becomes, DescribedInv, DescribedTypes
<1> HIDE DEF j, d
<1>7. job'[c] = j /\ \A b \in Clients \ {c} : job'[b] = job[b]
  BY <1>6 DEF DescribedInv, DescribedTypes
<1>8. /\ files'[p] = CutOff(d)
      /\ \A q \in (Devices \cup {"file"}) \ {p} : files'[q] = files[q]
      /\ DOMAIN files' = Devices \cup {"file"}
  BY <1>1, <1>2 DEF DescribedInv, DescribedTypes
<1>9. DescribedTypes'
  BY <1>1, <1>5, <1>6, <1>8 DEF DescribedInv, DescribedTypes
<1>10. JobsInv'
  <2>1. JobSound(c)'
    BY <1>1, <1>3, <1>5, <1>7 DEF JobSound, Reading, MixedOnce, SoundFor, d
  <2>2. ASSUME NEW b \in Clients \ {c} PROVE JobSound(b)'
    BY <1>1, <1>7, <2>2, OthersSound DEF DescribedInv
  <2> QED
    BY <2>1, <2>2 DEF JobsInv
<1>11. FileSound(p)'
  <2>1. c \in Writing(p)'
    BY <1>0, <1>1, <1>5, <1>7 DEF Writing, Path
  <2> QED
    BY <1>1, <1>2, <1>4, <1>8, <2>1 DEF FileSound, MixedOnce
<1>12. ASSUME NEW q \in (Devices \cup {"file"}) \ {p}, files[q] # None
       PROVE  FileSound(q)'
  <2>1. files'[q] = files[q] /\ (q \in torn => q \in torn')
    BY <1>1, <1>8
  <2> QED
    BY <1>1, <1>7, <1>12, <2>1, FileKept
<1> QED
  BY <1>8, <1>9, <1>10, <1>11, <1>12 DEF DescribedInv, FilesInv

(* The text is complete, unless another one was written over it.           *)
LEMMA WrittenStep ==
  ASSUME DescribedInv, NEW c \in Clients, Written(c) PROVE DescribedInv'
<1>0. PICK p : p = Path(job[c].device)
  OBVIOUS
<1> DEFINE d == job[c].descr
           j == [job[c] EXCEPT !.step = "got", !.descr = d]
<1>1. /\ job[c].step = "write" /\ job[c].device \in Devices
      /\ job[c] \in JobRecords /\ UNCHANGED <<root, layout, torn>>
      /\ Reading(c) /\ Becomes(c, "got", d)
  BY JobTyped DEF Written, JobSound
<1>2. p \in Devices \cup {"file"} /\ (root # "file" => p = job[c].device)
  BY <1>0, <1>1, PathIsFile DEF DescribedInv, DescribedTypes
<1>3. /\ d \in Texts /\ d.device = job[c].device
      /\ d.text # "cut" /\ MixedOnce(d)
  BY <1>1 DEF Reading
<1>4. /\ CutOff(d) \in Texts /\ CutOff(d).device = job[c].device
      /\ CutOff(d).text = "cut"
  BY <1>3 DEF CutOff, Texts
<1>5. PICK e : /\ files' = [files EXCEPT ![p] = e]
               /\ e = d \/ (e = CutOff(d) /\ p \in torn)
  BY <1>0 DEF Written
<1>6. /\ j \in JobRecords /\ j.step = "got" /\ j.device = job[c].device
      /\ j.descr = d
  BY <1>1, <1>3 DEF JobRecords, Steps
<1>7. job' = [job EXCEPT ![c] = j]
  BY <1>1 DEF Becomes, DescribedInv, DescribedTypes
<1> HIDE DEF j, d
<1>8. job'[c] = j /\ \A b \in Clients \ {c} : job'[b] = job[b]
  BY <1>7 DEF DescribedInv, DescribedTypes
<1>9. /\ files'[p] = e
      /\ \A q \in (Devices \cup {"file"}) \ {p} : files'[q] = files[q]
      /\ DOMAIN files' = Devices \cup {"file"}
  BY <1>2, <1>5 DEF DescribedInv, DescribedTypes
<1>10. DescribedTypes'
  BY <1>1, <1>6, <1>7, <1>9 DEF DescribedInv, DescribedTypes
<1>11. JobsInv'
  <2>1. JobSound(c)'
    BY <1>1, <1>3, <1>6, <1>8 DEF JobSound, MixedOnce, SoundFor
  <2>2. ASSUME NEW b \in Clients \ {c} PROVE JobSound(b)'
    BY <1>1, <1>8, <2>2, OthersSound DEF DescribedInv
  <2> QED
    BY <2>1, <2>2 DEF JobsInv
<1>12. FileSound(p)'
  BY <1>1, <1>2, <1>3, <1>4, <1>5, <1>9 DEF FileSound, MixedOnce
<1>13. ASSUME NEW q \in (Devices \cup {"file"}) \ {p}, files[q] # None
       PROVE  FileSound(q)'
  <2>1. files'[q] = files[q] /\ (q \in torn => q \in torn') /\ Path(job[c].device) # q
    BY <1>0, <1>1, <1>9
  <2> QED
    BY <1>1, <1>8, <1>13, <2>1, FileKept
<1> QED
  BY <1>9, <1>10, <1>11, <1>12, <1>13 DEF DescribedInv, FilesInv

(* A device changes its layout, and never changes back.                    *)
LEMMA RelayoutStep ==
  ASSUME DescribedInv, NEW d \in Devices, Relayout(d) PROVE DescribedInv'
<1>1. /\ UNCHANGED <<root, files, job, torn>>
      /\ layout' = [layout EXCEPT ![d] = @ + 1]
      /\ layout \in [Devices -> Layouts]
  BY DEF Relayout, DescribedInv, DescribedTypes
<1>2. /\ layout' \in [Devices -> Layouts]
      /\ \A e \in Devices : /\ layout[e] \in Nat /\ layout'[e] \in Nat
                            /\ layout[e] <= layout'[e]
  BY <1>1 DEF Layouts
<1>3. ASSUME NEW t \in Texts, MixedOnce(t) PROVE MixedOnce(t)'
  <2>1. t.device \in Devices
    BY DEF Texts
  <2> QED
    BY <1>2, <1>3, <2>1 DEF MixedOnce
<1>4. ASSUME NEW p \in Devices \cup {"file"}, files[p] # None
      PROVE  FileSound(p)'
  <2>1. FileSound(p)
    BY <1>4 DEF DescribedInv, FilesInv
  <2>2. MixedOnce(files[p])'
    BY <1>1, <1>3, <2>1 DEF FileSound
  <2>3. Writing(p)' = Writing(p)
    BY <1>1 DEF Writing, Path
  <2> QED
    BY <1>1, <2>1, <2>2, <2>3 DEF FileSound
<1>5. ASSUME NEW c \in Clients PROVE JobSound(c)'
  <2>1. JobSound(c) /\ job'[c] = job[c]
    BY <1>1 DEF DescribedInv, JobsInv
  <2>2. job[c].step \in {"read", "persist", "write"} => Reading(c)'
    <3>1. ASSUME Reading(c) PROVE Reading(c)'
      BY <1>1, <1>3, <3>1 DEF Reading
    <3> QED
      BY <2>1, <3>1 DEF JobSound
  <2>3. job[c].step = "read" => job[c].descr.layout <= layout'[job[c].device]
    <3>1. ASSUME job[c].step = "read"
          PROVE  job[c].descr.layout <= layout'[job[c].device]
      <4>1. /\ job[c].device \in Devices /\ job[c].descr \in Texts
            /\ job[c].descr.layout <= layout[job[c].device]
        BY <2>1, <3>1 DEF JobSound, Reading
      <4>2. job[c].descr.layout \in Nat
        BY <4>1 DEF Texts, Layouts
      <4> QED
        BY <1>2, <4>1, <4>2
    <3> QED
      BY <3>1
  <2>4. SoundFor(c)'
    <3>1. CASE job[c].step \in {"got", "unreadable"}
      <4>1. job[c].descr \in Texts /\ MixedOnce(job[c].descr)
        BY <2>1, <3>1 DEF JobSound, SoundFor, MixedOnce
      <4>2. MixedOnce(job[c].descr)'
        BY <1>1, <1>3, <4>1
      <4> QED
        BY <1>1, <2>1, <3>1, <4>2 DEF JobSound, SoundFor, MixedOnce
    <3>2. CASE job[c].step \notin {"got", "unreadable"}
      BY <2>1, <3>2 DEF SoundFor
    <3> QED
      BY <3>1, <3>2
  <2> QED
    BY <1>1, <2>1, <2>2, <2>3, <2>4 DEF JobSound
<1> QED
  BY <1>1, <1>2, <1>4, <1>5 DEF DescribedInv, DescribedTypes, FilesInv, JobsInv
(* A step of a client that describes its device.                           *)
LEMMA DescribingStep ==
  ASSUME DescribedInv, NEW c \in Clients, Describing(c) PROVE DescribedInv'
<1>1. CASE LookFails(c) \/ IntrospectFails(c) \/ PersistFails(c)
  BY <1>1, NothingStep DEF LookFails, IntrospectFails, PersistFails
<1> QED
  BY <1>1, LookStep, IntrospectStep, IntrospectedStep, PersistStep, WrittenStep
     DEF Describing

(* A write is cut short.                                                   *)
LEMMA CutShortStep ==
  ASSUME DescribedInv, NEW c \in Clients, CutShort(c) PROVE DescribedInv'
<1>1. PICK s \in {"failed", "dead"} : Becomes(c, s, None)
  BY DEF CutShort
<1>2. /\ torn \subseteq torn' /\ Path(job[c].device) \in torn'
      /\ UNCHANGED <<root, layout, files>>
  BY DEF CutShort
<1> QED
  BY <1>1, <1>2, NothingStep

(* The viewer is one of the clients.                                       *)
LEMMA MeIsClient == Me \in Clients /\ Viewers = {Me}
<1>1. PICK v \in Clients : Viewers = {v}
  BY ViewerAssumption
<1> QED
  BY <1>1 DEF Me

(* The clients keep to descriptions only.                                  *)
LEMMA StillDescribed ==
  ASSUME DescribedInv, UNCHANGED described PROVE DescribedInv'
BY DEF DescribedInv, DescribedTypes, FilesInv, FileSound, JobsInv, JobSound,
       Reading, MixedOnce, SoundFor, Writing, Path, described

(* Every step preserves the descriptions' part: the viewer opens one only  *)
(* for the target it has, when it has none open.                           *)
LEMMA DescribedNext ==
  ASSUME DescribedInv, MyJob, SearchInv, [Next]_vars PROVE DescribedInv'
<1>1. CASE Overlay
  <2>1. target \in Devices
    BY <1>1 DEF Overlay, SearchInv, Targeted
  <2>2. CASE job[Me].step = "idle" /\ Open(Me, target)
    BY <2>1, <2>2, MeIsClient, OpenStep
  <2>3. CASE job[Me].step \in {"idle", "got", "unreadable", "failed"} /\ Close(Me)
    BY <2>3, MeIsClient, CloseStep
  <2> QED
    BY <1>1, <2>2, <2>3 DEF Overlay
<1>2. CASE Connect
  <2>1. target \in Devices /\ job[Me].step = "idle" /\ Open(Me, target)
    BY <1>2 DEF Connect, SearchInv, Targeted, MyJob
  <2> QED
    BY <2>1, MeIsClient, OpenStep
<1>3. CASE Play
  <2>1. job[Me].step # "write" /\ Close(Me)
    BY <1>3 DEF Play
  <2> QED
    BY <2>1, MeIsClient, CloseStep
<1>4. CASE OtherOpens
  <2>1. PICK c \in Clients \ {Me}, d \in Devices : job[c].step = "idle" /\ Open(c, d)
    BY <1>4 DEF OtherOpens
  <2> QED
    BY <2>1, OpenStep
<1>5. CASE Interrupted
  BY <1>5, CutShortStep DEF Interrupted
<1>6. CASE DeviceChanges
  BY <1>6, RelayoutStep DEF DeviceChanges
<1>7. CASE \E c \in Clients : Describe(c)
  BY <1>7, DescribingStep DEF Describe
<1>8. CASE UNCHANGED described
  BY <1>8, StillDescribed
<1>9. CASE \/ GivenTarget \/ Discover \/ Search \/ Resolve \/ SelectEncoder
           \/ Build \/ SendEos \/ Pop \/ GiveUp \/ Stop \/ CtrlC \/ Pipeline
  <2>1. UNCHANGED described
    BY <1>9 DEF GivenTarget, Discover, Search, Resolve, SelectEncoder, Build,
                SendEos, Pop, GiveUp, Stop, CtrlC, Pipeline, StreamEnds, Post
  <2> QED
    BY <2>1, StillDescribed
<1> QED
  BY <1>1, <1>2, <1>3, <1>4, <1>5, <1>6, <1>7, <1>8, <1>9 DEF Next, Run, vars

(* A client that has no description open gets none by other clients' doing.*)
LEMMA IdleStays ==
  ASSUME DescribedInv, job[Me].step = "idle",
         OtherOpens \/ Interrupted \/ DeviceChanges \/ \E c \in Clients : Describe(c)
  PROVE  job'[Me] = job[Me]
<1>1. job \in [Clients -> JobRecords] /\ Me \in Clients
  BY MeIsClient DEF DescribedInv, DescribedTypes
<1>2. CASE OtherOpens
  BY <1>1, <1>2 DEF OtherOpens, Open
<1>3. CASE Interrupted
  BY <1>1, <1>3 DEF Interrupted, CutShort, Becomes
<1>4. CASE DeviceChanges
  BY <1>4 DEF DeviceChanges, Relayout
<1>5. ASSUME NEW c \in Clients, Describing(c) PROVE job'[Me] = job[Me]
  <2>1. c # Me
    BY <1>5 DEF Describing, Look, Introspect, Introspected, Persist, Written,
                LookFails, IntrospectFails, PersistFails
  <2>2. Look(c) => job'[Me] = job[Me]
    BY <1>1, <2>1 DEF Look, Becomes
  <2>3. \A s, d : Becomes(c, s, d) => job'[Me] = job[Me]
    BY <1>1, <2>1 DEF Becomes
  <2> QED
    BY <1>5, <2>2, <2>3 DEF Describing, Introspect, Introspected, Persist, Written,
                            LookFails, IntrospectFails, PersistFails
<1> QED
  BY <1>2, <1>3, <1>4, <1>5 DEF Describe

(* Every step leaves the viewer without a description in these phases.     *)
LEMMA MyJobNext ==
  ASSUME DescribedInv, MyJob, [Next]_vars PROVE MyJob'
<1>1. job \in [Clients -> JobRecords] /\ Me \in Clients
  BY MeIsClient DEF DescribedInv, DescribedTypes
<1>2. CASE Overlay
  <2>1. CASE UNCHANGED phase
    BY <1>2, <2>1 DEF Overlay, MyJob
  <2>2. CASE Close(Me)
    BY <1>1, <2>2 DEF Close, Idle, MyJob
  <2> QED
    BY <1>2, <2>1, <2>2 DEF Overlay
<1>3. CASE OtherOpens \/ Interrupted \/ DeviceChanges \/ \E c \in Clients : Describe(c)
  <2>1. phase' = phase
    BY <1>3 DEF OtherOpens, Interrupted, DeviceChanges, Describe, viewer
  <2>2. job[Me].step = "idle" => job'[Me] = job[Me]
    BY <1>3, IdleStays
  <2> QED
    BY <2>1, <2>2 DEF MyJob
<1>4. CASE Connect \/ Play
  BY <1>4 DEF Connect, Play, MyJob
<1>5. CASE \/ GivenTarget \/ Discover \/ Search \/ Resolve \/ SelectEncoder
           \/ Build \/ SendEos \/ Pop \/ GiveUp \/ Stop \/ CtrlC \/ Pipeline
           \/ UNCHANGED vars
  <2>1. UNCHANGED job /\ (phase' \in {"encoder", "build", "start"} =>
                            phase \in {"encoder", "build", "start"})
    BY <1>5 DEF GivenTarget, Discover, Search, Resolve, SelectEncoder, Build,
                SendEos, Pop, GiveUp, Stop, CtrlC, Pipeline, StreamEnds, Post,
                Fail, described, viewer, vars
  <2> QED
    BY <2>1 DEF MyJob
<1> QED
  BY <1>2, <1>3, <1>4, <1>5 DEF Next, Run

---------------------------------------------------------------------------
(* The theorems                                                            *)

(* The invariant holds of the initial states ...                           *)
LEMMA Begun == Init => ViewerInv
<1> SUFFICES ASSUME Init PROVE ViewerInv
  OBVIOUS
<1>1. SearchInv
  BY DEF Init, DiscoveryInit, SearchInv, Targeted
<1>2. PipelineInv /\ MyJob
  <2>1. << >> \in Seq(Messages) /\ Len(<< >>) = 0
    OBVIOUS
  <2>2. bus = << >> /\ phase = "target" /\ ended = FALSE /\ failedFirst = FALSE
    BY DEF Init
  <2>3. bus \in Seq(Messages) /\ \A i \in 1 .. Len(bus) : bus[i] # "eos"
    BY <2>1, <2>2
  <2> QED
    BY <2>2, <2>3 DEF Init, PipelineInv, MyJob
<1>3. DescribedTypes
  <2>1. Idle \in JobRecords
    BY DEF Idle, JobRecords, Steps
  <2> QED
    BY <2>1 DEF Init, DescriptionInit, DescribedTypes, Layouts
<1>4. FilesInv
  BY DEF Init, DescriptionInit, FilesInv
<1>5. JobsInv
  BY DEF Init, DescriptionInit, JobsInv, JobSound, SoundFor, Idle
<1> QED
  BY <1>1, <1>2, <1>3, <1>4, <1>5 DEF ViewerInv, DescribedInv

(* ... and is kept by every step.                                          *)
LEMMA Kept == ViewerInv /\ [Next]_vars => ViewerInv'
BY SearchNext, DescribedNext, MyJobNext, PipelineNext DEF ViewerInv

(* The viewer plays from the device it was given or from the only one it   *)
(* heard.  What a client goes by can be wrong in three ways only: another  *)
(* device's text, if the root is one file for all; a text cut off, if it   *)
(* was read while being written or after a torn write; a mixture, if the   *)
(* device changed its layout.  So with a directory, no torn or overlapping *)
(* write and no change of layout, it is whole and of the client's device   *)
(* (load_or_create_device_config and its files).                           *)
THEOREM Target == FairSpec => []RightDevice
<1>1. ViewerInv => RightDevice
  <2> SUFFICES ASSUME ViewerInv PROVE RightDevice
    OBVIOUS
  <2>1. target # None => \A h \in heard : h.device = target
    BY DEF ViewerInv, SearchInv
  <2>2. \A c \in Clients : SoundFor(c)
    BY DEF ViewerInv, DescribedInv, JobsInv, JobSound
  <2> QED
    BY <2>1, <2>2 DEF RightDevice
<1> QED
  BY <1>1, Begun, Kept, PTL DEF FairSpec

(* A run of eeview that ends without an error recorded the stream to its   *)
(* end and met no error before, or gave up waiting for that end.           *)
THEOREM Success == FairSpec => []SuccessIsComplete
<1>1. ViewerInv => SuccessIsComplete
  BY DEF ViewerInv, PipelineInv, SuccessIsComplete
<1> QED
  BY <1>1, Begun, Kept, PTL DEF FairSpec

---------------------------------------------------------------------------
(* The list of a search                                                    *)

(* discover_devices lists every answer it heard, each device once per      *)
(* interface, and nothing else, however often the network repeats an       *)
(* answer (the test that precedes responses.push).                         *)
ListedOnce ==
  /\ Lists(responses, heard)
  /\ \A i \in 1 .. Len(responses) : responses[i] \in heard
  /\ \A i, j \in 1 .. Len(responses) : responses[i] = responses[j] => i = j

(* A list with no entry twice, ...                                         *)
NoneTwice(s, H) ==
  /\ \A i \in 1 .. Len(s) : s[i] \in H
  /\ \A i, j \in 1 .. Len(s) : s[i] = s[j] => i = j

(* ... that a new answer is pushed to has none either.                     *)
LEMMA PushedOnce ==
  ASSUME NEW s \in Seq(Answers), NEW a \in Answers, NEW H, NoneTwice(s, H),
         a \notin ToSet(s)
  PROVE  NoneTwice(Append(s, a), H \cup {a})
<1> DEFINE n == Len(s)
           t == Append(s, a)
<1>1. /\ n \in Nat /\ Len(t) = n + 1 /\ \A i \in 1 .. n : t[i] = s[i]
      /\ t[n + 1] = a
  BY AppendProperties, LenProperties
<1>2. \A i \in 1 .. n : s[i] # a /\ s[i] \in H
  BY LenProperties DEF ToSet, NoneTwice
<1>3. \A i, j \in 1 .. n : s[i] = s[j] => i = j
  BY DEF NoneTwice
<1> HIDE DEF n, t
<1>4. \A i \in 1 .. n + 1 : i \in 1 .. n \/ i = n + 1
  BY <1>1
<1>5. ASSUME NEW i \in 1 .. n + 1 PROVE t[i] \in H \cup {a}
  BY <1>1, <1>2, <1>4
<1>6. ASSUME NEW i \in 1 .. n + 1, NEW j \in 1 .. n + 1, t[i] = t[j] PROVE i = j
  BY <1>1, <1>2, <1>3, <1>4, <1>6
<1> QED
  BY <1>1, <1>5, <1>6 DEF NoneTwice, t

(* Every step keeps the list so.                                           *)
LEMMA ListStep ==
  ASSUME SearchInv, NoneTwice(responses, heard), [Next]_vars
  PROVE  NoneTwice(responses, heard)'
<1>1. CASE responses' = responses /\ heard' = heard
  BY <1>1 DEF NoneTwice
<1>2. CASE responses' = <<>>
  BY <1>2 DEF NoneTwice
<1>3. ASSUME NEW d \in Devices, Answer(d) PROVE NoneTwice(responses, heard)'
  <2>1. PICK a : a = [interface |-> current, device |-> d]
    OBVIOUS
  <2>2. a \in Answers /\ heard' = heard \cup {a}
    BY <1>3, <2>1 DEF SearchInv, Answer, Answers
  <2>3. CASE Seen(current, d)
    BY <1>3, <2>2, <2>3 DEF Answer, NoneTwice
  <2>4. CASE ~Seen(current, d)
    <3>1. responses' = Append(responses, a) /\ a \notin ToSet(responses)
      BY <1>3, <2>1, <2>4 DEF Answer, Seen
    <3> QED
      BY <2>2, <3>1, PushedOnce DEF SearchInv
  <2> QED
    BY <2>3, <2>4
<1>4. \/ responses' = responses /\ heard' = heard
      \/ responses' = <<>>
      \/ \E d \in Devices : Answer(d)
  <2>1. CASE Search
    BY <2>1 DEF Search, Searching, Ask, Abort, BadDatagram, Lose, Silence, Found
  <2>2. CASE GivenTarget \/ Discover \/ Resolve \/ Overlay
    BY <2>2 DEF GivenTarget, Discover, Begin, Resolve, Overlay, Forget, discovery
  <2>3. CASE UNCHANGED discovery
    BY <2>3 DEF discovery
  <2> QED
    BY <2>1, <2>2, <2>3
    DEF Next, vars, Run, SelectEncoder, Build, Connect, Play, Pop, SendEos, GiveUp,
        Stop, CtrlC, Pipeline, StreamEnds, Post, OtherOpens, Interrupted,
        DeviceChanges, Describe
<1> QED
  BY <1>1, <1>2, <1>3, <1>4

(* A search that is under way or done lists every device it heard once per *)
(* interface, and no other.                                                *)
THEOREM Listing == FairSpec => []ListedOnce
<1>1. Init => NoneTwice(responses, heard)
  BY DEF Init, DiscoveryInit, NoneTwice
<1>2. ViewerInv /\ NoneTwice(responses, heard) /\ [Next]_vars
        => NoneTwice(responses, heard)'
  BY ListStep DEF ViewerInv
<1>3. ViewerInv /\ NoneTwice(responses, heard) => ListedOnce
  BY DEF ViewerInv, SearchInv, Lists, NoneTwice, ListedOnce
<1> QED
  BY <1>1, <1>2, <1>3, Begun, Kept, PTL DEF FairSpec
=============================================================================

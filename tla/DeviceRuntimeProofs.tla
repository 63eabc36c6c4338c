------------------------ MODULE DeviceRuntimeProofs ------------------------
(***************************************************************************)
(* Proofs about DeviceRuntime, run by the daemons of DeviceDaemon, for     *)
(* every set of formats, destinations and packet sizes, every number of    *)
(* packets of a frame and every number of writes and failures.             *)
(***************************************************************************)
EXTENDS DeviceDaemon, TLAPS

SenderStates ==
  {"new", "bind", "top", "wait", "hold", "blocked", "decide", "start", "pull",
   "emit", "dropped", "finish", "off"}

(* The states in which the settings of the iteration are in use.           *)
Configured == {"decide", "start", "pull", "emit"}

RuntimeTypes ==
  /\ fixed \in BOOLEAN /\ registers \in Registers
  /\ camera \in Cameras \cup {None}
  /\ sender \in SenderStates
  /\ late \in Nat /\ left \in Nat

(* active_capture caches the camera, except while a new one is started.    *)
CaptureCached ==
  /\ sender = "start" => camera = None
  /\ sender # "start" => active = IF camera = None THEN None ELSE camera.format
  /\ sender \in {"new", "bind", "off"} => camera = None

(* Settings in use have a destination and a format the device knows.       *)
SettingsSound ==
  /\ sender \in Configured =>
       settings \in [mtu: Nat, port: Ports \cup {NoPort}, ip: Ips \cup {NoIp},
                     format: Known]
  /\ sender \in {"start", "pull", "emit"} => settings.port # NoPort

(* A fixed format is in the registers, the settings and the capture.       *)
FixedFormat ==
  fixed => /\ registers.format = Native
           /\ sender \in Configured => settings.format = Native
           /\ active \in {None, Native}

(* While a frame is pulled and sent the caches agree with the settings.    *)
FrameCached ==
  /\ sender \in {"pull", "emit"} =>
       active = settings.format /\ packetizer = settings.mtu
  /\ sender = "emit" => picture = settings.format

(* Packets are late only of a frame under way when the stream was          *)
(* disabled: what was sent of it and what is left are one frame.           *)
LateBounded ==
  /\ late <= NPackets
  /\ registers.enable => late = 0
  /\ sender \in {"decide", "start", "pull"} => late = 0
  /\ sender = "emit" => left > 0 /\ late + left <= NPackets

RuntimeInv ==
  /\ RuntimeTypes
  /\ CaptureCached
  /\ SettingsSound
  /\ FixedFormat
  /\ FrameCached
  /\ LateBounded

---------------------------------------------------------------------------
(* Nothing is captured and nothing is set before the threads are spawned.  *)
LEMMA InitInv ==
  ASSUME Init PROVE RuntimeInv
<1> USE DEF Init
<1>1. RuntimeTypes
  BY FormatsAssumption DEF RuntimeTypes, SenderStates, Registers
<1>2. CaptureCached /\ SettingsSound /\ FrameCached
  BY DEF CaptureCached, SettingsSound, FrameCached, Configured
<1>3. FixedFormat /\ LateBounded
  BY NPacketsAssumption DEF FixedFormat, LateBounded, Configured
<1> QED
  BY <1>1, <1>2, <1>3 DEF RuntimeInv

(* A step that leaves the registers, the capture and the caches alone, and *)
(* moves the sender at most to a state that uses no settings.              *)
LEMMA IdleInv ==
  ASSUME RuntimeInv, UNCHANGED <<device, frame, capture, late>>,
         \/ UNCHANGED sender
         \/ /\ sender # "start"
            /\ sender' \in {"bind", "top", "wait", "hold", "blocked", "finish"}
            /\ sender' = "bind" => sender = "new"
  PROVE  RuntimeInv'
<1> USE DEF RuntimeInv, device, frame, capture, backend
<1>1. RuntimeTypes'
  BY DEF RuntimeTypes, SenderStates
<1>2. CaptureCached' /\ SettingsSound' /\ FrameCached'
  BY DEF CaptureCached, SettingsSound, FrameCached, Configured
<1>3. FixedFormat' /\ LateBounded'
  BY DEF FixedFormat, LateBounded, Configured
<1> QED
  BY <1>1, <1>2, <1>3

(* The sender loop is not there until the owner has spawned it.            *)
Spawned == owner \in {"new", "serving"} => sender = "new"

(* Only the owner leaves the states in which there is no sender loop.      *)
LEMMA SpawnedStep ==
  ASSUME Spawned, Control \/ Sender \/ Owner PROVE Spawned'
<1> USE DEF Spawned
<1>1. CASE Control
  BY <1>1
     DEF Control, ControlTop, ControlIdle, ControlReports, ControlError,
         ControlKeeps, WriteStream, WriteMaxPacket, Write, Woken
<1>2. CASE Sender
  <2>1. sender # "new" /\ UNCHANGED owner
    BY <1>2
       DEF Sender, SenderKeeps, SenderBind, SenderTop, WaitTest, WaitSettings,
           NoDestination, Continue, Reconfigure, Start, NextFrame, DropCapture,
           SendPacket, SendFailure, WaitTimeout, Finish
  <2> QED
    BY <2>1
<1>3. CASE Owner
  BY <1>3
     DEF Owner, SpawnRefused, SpawnControl, SpawnSender, ShutdownFlag,
         ShutdownNotify, ShutdownJoin
<1> QED
  BY <1>1, <1>2, <1>3

(* The owner spawns the sender and wakes it, and touches nothing it uses.  *)
LEMMA OwnerInv ==
  ASSUME RuntimeInv, Spawned, Owner PROVE RuntimeInv'
<1>1. CASE SpawnRefused \/ SpawnControl
  BY <1>1, IdleInv DEF SpawnRefused, SpawnControl
<1>2. CASE SpawnSender
  BY <1>2, IdleInv DEF SpawnSender, Spawned
<1>3. CASE ShutdownFlag \/ ShutdownNotify \/ ShutdownJoin
  BY <1>3, IdleInv
     DEF ShutdownFlag, ShutdownNotify, ShutdownJoin, OwnerKeeps, Woken
<1> QED
  BY <1>1, <1>2, <1>3 DEF Owner

---------------------------------------------------------------------------
(* A write wakes at most a waiting sender: it may come while the sender    *)
(* uses settings it made of the old registers, and changes no cache.       *)
LEMMA WriteInv ==
  ASSUME RuntimeInv, NEW new \in Registers, NEW wake \in BOOLEAN,
         Write(new, wake), fixed => new.format = Native,
         \/ new.enable = registers.enable /\ late' = late
         \/ late' = 0
  PROVE  RuntimeInv'
<1> USE DEF RuntimeInv, Write, Woken, frame, capture, backend
<1>1. RuntimeTypes'
  BY DEF RuntimeTypes, SenderStates
<1>2. CaptureCached' /\ SettingsSound' /\ FrameCached'
  BY DEF CaptureCached, SettingsSound, FrameCached, Configured
<1>3. FixedFormat'
  BY DEF FixedFormat, Configured
<1>4. LateBounded'
  BY NPacketsAssumption DEF LateBounded, RuntimeTypes
<1> QED
  BY <1>1, <1>2, <1>3, <1>4

(* A write of MaxPacketSize: only one that switches the stream restarts    *)
(* the count of late packets.                                              *)
LEMMA WriteMaxPacketInv ==
  ASSUME RuntimeInv, NEW e \in BOOLEAN, NEW m \in Mtus, WriteMaxPacket(e, m)
  PROVE  RuntimeInv'
<1> DEFINE new == [registers EXCEPT !.enable = e, !.mtu = m]
<1>1. new \in Registers /\ new.format = registers.format /\ new.enable = e
  BY DEF RuntimeInv, RuntimeTypes, Registers
<1>2. Write(new, e # registers.enable)
  BY DEF WriteMaxPacket
<1>3. IF e = registers.enable THEN late' = late ELSE late' = 0
  BY DEF WriteMaxPacket
<1>4. fixed => new.format = Native
  BY <1>1 DEF RuntimeInv, FixedFormat
<1> HIDE DEF new
<1> QED
  BY <1>1, <1>2, <1>3, <1>4, WriteInv

(* A write of the destination or the format, which normalize_write_value   *)
(* keeps native on a device with a fixed format.                           *)
LEMMA WriteStreamInv ==
  ASSUME RuntimeInv, WriteStream PROVE RuntimeInv'
<1>1. ASSUME NEW new \in Registers, Write(new, TRUE), UNCHANGED late,
             new.enable = registers.enable, fixed => new.format = Native
      PROVE  RuntimeInv'
  BY <1>1, WriteInv
<1>2. registers \in Registers /\ UNCHANGED late
  BY DEF RuntimeInv, RuntimeTypes, WriteStream
<1>3. fixed => registers.format = Native
  BY DEF RuntimeInv, FixedFormat
<1>4. ASSUME NEW p \in Ports, Write([registers EXCEPT !.port = p], TRUE)
      PROVE  RuntimeInv'
  <2> DEFINE new == [registers EXCEPT !.port = p]
  <2>1. /\ new \in Registers /\ new.enable = registers.enable
        /\ new.format = registers.format
    BY <1>2 DEF Registers
  <2> HIDE DEF new
  <2>2. Write(new, TRUE)
    BY <1>4 DEF new
  <2> QED
    BY <1>1, <1>2, <1>3, <2>1, <2>2
<1>5. ASSUME NEW a \in Ips, Write([registers EXCEPT !.ip = a], TRUE)
      PROVE  RuntimeInv'
  <2> DEFINE new == [registers EXCEPT !.ip = a]
  <2>1. /\ new \in Registers /\ new.enable = registers.enable
        /\ new.format = registers.format
    BY <1>2 DEF Registers
  <2> HIDE DEF new
  <2>2. Write(new, TRUE)
    BY <1>5 DEF new
  <2> QED
    BY <1>1, <1>2, <1>3, <2>1, <2>2
<1>6. ASSUME NEW fmt \in Formats,
             Write([registers EXCEPT !.format = Normalized(fmt)], TRUE)
      PROVE  RuntimeInv'
  <2> DEFINE new == [registers EXCEPT !.format = Normalized(fmt)]
  <2>1. Normalized(fmt) \in Formats /\ (fixed => Normalized(fmt) = Native)
    BY <1>2, <1>3 DEF Normalized, Registers
  <2>2. /\ new \in Registers /\ new.enable = registers.enable
        /\ new.format = Normalized(fmt)
    BY <1>2, <2>1 DEF Registers
  <2> HIDE DEF new
  <2>3. Write(new, TRUE)
    BY <1>6 DEF new
  <2> QED
    BY <1>1, <1>2, <2>1, <2>2, <2>3
<1> QED
  BY <1>4, <1>5, <1>6 DEF WriteStream

(* The control loop keeps the invariant.                                   *)
LEMMA ControlInv ==
  ASSUME RuntimeInv, Control PROVE RuntimeInv'
<1>1. CASE ControlTop \/ ControlIdle \/ ControlReports \/ ControlError
  BY <1>1, IdleInv
     DEF ControlTop, ControlIdle, ControlReports, ControlError, ControlKeeps,
         capture
<1> QED
  BY <1>1, WriteStreamInv, WriteMaxPacketInv DEF Control

---------------------------------------------------------------------------
(* Stopping leaves the backend without a capture; nothing to stop means    *)
(* that there was none.                                                    *)
LEMMA StopFacts ==
  ASSUME RuntimeInv, sender # "start", StopIfActive
  PROVE  camera' = None
BY NoneAssumption
   DEF RuntimeInv, RuntimeTypes, CaptureCached, StopIfActive, StopCapture,
       backend, Cameras

(* The sender drops its capture and goes on without one.                   *)
LEMMA StoppedInv ==
  ASSUME RuntimeInv, sender # "start", camera' = None, active' = None,
         sender' \in {"top", "off"}, UNCHANGED <<device, frame, late>>
  PROVE  RuntimeInv'
<1> USE DEF RuntimeInv, device, frame
<1>1. RuntimeTypes'
  BY DEF RuntimeTypes, SenderStates
<1>2. CaptureCached' /\ SettingsSound' /\ FrameCached'
  BY DEF CaptureCached, SettingsSound, FrameCached, Configured
<1>3. FixedFormat' /\ LateBounded'
  BY DEF FixedFormat, LateBounded, Configured
<1> QED
  BY <1>1, <1>2, <1>3

(* The loop ends, pauses or drops its capture.                             *)
LEMMA StoppingInv ==
  ASSUME RuntimeInv, NoDestination \/ DropCapture \/ Finish
  PROVE  RuntimeInv'
<1>1. CASE NoDestination
  BY <1>1, StopFacts, StoppedInv DEF NoDestination, SenderKeeps
<1>2. CASE DropCapture
  BY <1>2, StoppedInv DEF DropCapture, SenderKeeps, StopCapture
<1>3. CASE Finish
  BY <1>3, StopFacts, StoppedInv DEF Finish, SenderKeeps
<1> QED
  BY <1>1, <1>2, <1>3

(* The steps that only wait or test the stop flag, and a socket that is    *)
(* not bound.                                                              *)
LEMMA WaitingInv ==
  ASSUME RuntimeInv, SenderBind \/ SenderTop \/ WaitTest \/ WaitTimeout
  PROVE  RuntimeInv'
<1>1. CASE SenderBind
  <2>1. CASE sender' = "top"
    BY <1>1, <2>1, IdleInv DEF SenderBind, SenderKeeps
  <2>2. CASE sender' = "off"
    <3>1. camera' = None /\ active' = None
      BY <1>1 DEF SenderBind, RuntimeInv, CaptureCached, capture, backend
    <3> QED
      BY <1>1, <2>2, <3>1, StoppedInv DEF SenderBind, SenderKeeps
  <2> QED
    BY <1>1, <2>1, <2>2 DEF SenderBind
<1>2. CASE SenderTop \/ WaitTest \/ WaitTimeout
  BY <1>2, IdleInv DEF SenderTop, WaitTest, WaitTimeout, SenderKeeps
<1> QED
  BY <1>1, <1>2

(* What the sender makes of the registers is sound whatever they hold.     *)
LEMMA CurrentFacts ==
  ASSUME RuntimeInv
  PROVE  /\ Current \in [mtu: Nat, port: Ports \cup {NoPort},
                         ip: Ips \cup {NoIp}, format: Known]
         /\ fixed => Current.format = Native
BY FormatsAssumption, MtusAssumption
   DEF RuntimeInv, RuntimeTypes, FixedFormat, Registers, Current

(* The sender waits, or takes the settings of an enabled stream.           *)
LEMMA WaitSettingsInv ==
  ASSUME RuntimeInv, WaitSettings PROVE RuntimeInv'
<1> USE DEF WaitSettings, SenderKeeps
<1>1. CASE sender' = "blocked"
  BY <1>1, IdleInv DEF frame
<1>2. CASE sender' = "decide"
  <2> USE <1>2 DEF RuntimeInv, device, capture, backend
  <2>1. settings' = Current /\ registers.enable
    OBVIOUS
  <2>2. RuntimeTypes'
    BY DEF RuntimeTypes, SenderStates
  <2>3. CaptureCached' /\ SettingsSound' /\ FrameCached'
    BY <2>1, CurrentFacts DEF CaptureCached, SettingsSound, FrameCached
  <2>4. FixedFormat'
    BY <2>1, CurrentFacts DEF FixedFormat
  <2>5. LateBounded'
    BY <2>1 DEF LateBounded
  <2> QED
    BY <2>2, <2>3, <2>4, <2>5
<1> QED
  BY <1>1, <1>2

(* The sender decides on the capture of its settings: the one that runs is *)
(* right, or it is stopped for another.                                    *)
LEMMA DecideInv ==
  ASSUME RuntimeInv, Continue \/ Reconfigure PROVE RuntimeInv'
<1> USE DEF RuntimeInv, device, capture, backend, frame, SenderKeeps
<1>1. CASE Continue
  <2> USE <1>1 DEF Continue
  <2>1. RuntimeTypes'
    BY DEF RuntimeTypes, SenderStates
  <2>2. CaptureCached' /\ SettingsSound' /\ FrameCached'
    BY DEF CaptureCached, SettingsSound, FrameCached, Configured
  <2>3. FixedFormat' /\ LateBounded'
    BY DEF FixedFormat, LateBounded, Configured
  <2> QED
    BY <2>1, <2>2, <2>3
<1>2. CASE Reconfigure
  <2> USE <1>2 DEF Reconfigure
  <2>1. camera' = None
    BY StopFacts
  <2>2. RuntimeTypes'
    BY <2>1 DEF RuntimeTypes, SenderStates
  <2>3. CaptureCached' /\ SettingsSound' /\ FrameCached'
    BY <2>1 DEF CaptureCached, SettingsSound, FrameCached, Configured
  <2>4. FixedFormat' /\ LateBounded'
    BY DEF FixedFormat, LateBounded, Configured
  <2> QED
    BY <2>2, <2>3, <2>4
<1> QED
  BY <1>1, <1>2

(* A capture that starts is one of the settings, one that fails leaves     *)
(* none.                                                                   *)
LEMMA StartInv ==
  ASSUME RuntimeInv, Start PROVE RuntimeInv'
<1> USE DEF RuntimeInv, device, SenderKeeps
<1>1. sender = "start" /\ settings.format \in Known /\ camera = None
  BY DEF Start, SettingsSound, CaptureCached, Configured
<1>2. CASE /\ StartOk(settings.format) /\ active' = settings.format
           /\ sender' = "pull" /\ packetizer' = settings.mtu
  <2>1. /\ camera' \in Cameras /\ camera' # None
        /\ camera'.format = settings.format
    BY <1>1, <1>2, FormatsAssumption, NoneAssumption
       DEF StartOk, StartSynthetic, PipelineStarts, Cameras, Accepts
  <2> USE DEF Start
  <2>2. RuntimeTypes'
    BY <1>2, <2>1 DEF RuntimeTypes, SenderStates
  <2>3. CaptureCached' /\ SettingsSound' /\ FrameCached'
    BY <1>1, <1>2, <2>1
       DEF CaptureCached, SettingsSound, FrameCached, Configured
  <2>4. FixedFormat' /\ LateBounded'
    BY <1>1, <1>2 DEF FixedFormat, LateBounded, Configured
  <2> QED
    BY <2>2, <2>3, <2>4
<1>3. CASE /\ StartFails(settings.format) /\ active' = None
           /\ sender' = "top" /\ UNCHANGED packetizer
  <2>1. camera' = None
    BY <1>1, <1>3
       DEF StartFails, StartInvalid, PipelineRefused, PipelineAbandoned, backend
  <2> USE DEF Start
  <2>2. RuntimeTypes'
    BY <1>3, <2>1 DEF RuntimeTypes, SenderStates
  <2>3. CaptureCached' /\ SettingsSound' /\ FrameCached'
    BY <1>3, <2>1 DEF CaptureCached, SettingsSound, FrameCached, Configured
  <2>4. FixedFormat' /\ LateBounded'
    BY <1>1, <1>3 DEF FixedFormat, LateBounded, Configured
  <2> QED
    BY <2>2, <2>3, <2>4
<1> QED
  BY <1>2, <1>3 DEF Start

(* A frame is one of the configured format, or none.                       *)
LEMMA NextFrameInv ==
  ASSUME RuntimeInv, NextFrame PROVE RuntimeInv'
<1> USE DEF RuntimeInv, device, SenderKeeps, NextFrame
<1>1. /\ camera \in Cameras /\ camera # None /\ active = settings.format
      /\ camera.format = settings.format
  BY FormatsAssumption, NoneAssumption
     DEF RuntimeTypes, CaptureCached, FrameCached, SettingsSound, Configured
<1>2. CASE \E sample \in Formats :
             /\ FrameOk(sample) /\ picture' = sample
             /\ sender' = "emit" /\ left' = NPackets
  <2>1. PICK sample \in Formats :
          /\ FrameOk(sample) /\ picture' = sample
          /\ sender' = "emit" /\ left' = NPackets
    BY <1>2
  <2>2. /\ camera' \in Cameras /\ camera' # None
        /\ camera'.format = settings.format /\ sample = settings.format
    BY <1>1, <2>1, NoneAssumption DEF FrameOk, Accepts, Cameras
  <2>3. RuntimeTypes'
    BY <2>1, <2>2, NPacketsAssumption DEF RuntimeTypes, SenderStates
  <2>4. CaptureCached' /\ SettingsSound' /\ FrameCached'
    BY <1>1, <2>1, <2>2
       DEF CaptureCached, SettingsSound, FrameCached, Configured
  <2>5. FixedFormat' /\ LateBounded'
    BY <2>1, NPacketsAssumption DEF FixedFormat, LateBounded, Configured
  <2> QED
    BY <2>3, <2>4, <2>5
<1>3. CASE /\ FrameFails
           /\ sender' = "dropped" /\ UNCHANGED <<picture, left>>
  <2> USE DEF FrameFails, backend
  <2>1. RuntimeTypes'
    BY <1>3 DEF RuntimeTypes, SenderStates
  <2>2. CaptureCached' /\ SettingsSound' /\ FrameCached'
    BY <1>3 DEF CaptureCached, SettingsSound, FrameCached, Configured
  <2>3. FixedFormat' /\ LateBounded'
    BY <1>3 DEF FixedFormat, LateBounded, Configured
  <2> QED
    BY <2>1, <2>2, <2>3
<1> QED
  BY <1>2, <1>3

(* A packet that is sent late leaves one fewer to send.                    *)
LEMMA EmitInv ==
  ASSUME RuntimeInv, SendPacket \/ SendFailure PROVE RuntimeInv'
<1> USE DEF RuntimeInv, device, capture, backend, SenderKeeps
<1>1. CASE SendPacket
  <2> USE <1>1 DEF SendPacket
  <2>1. left \in Nat \ {0} /\ late \in Nat /\ late + left <= NPackets
    BY DEF RuntimeTypes, LateBounded
  <2>2. left' \in Nat /\ left' = left - 1 /\ late' \in {late, late + 1}
    BY <2>1
  <2>3. RuntimeTypes'
    BY <2>1, <2>2 DEF RuntimeTypes, SenderStates
  <2>4. CaptureCached' /\ SettingsSound' /\ FrameCached'
    BY DEF CaptureCached, SettingsSound, FrameCached, Configured
  <2>5. FixedFormat'
    BY DEF FixedFormat, Configured
  <2>6. LateBounded'
    BY <2>1, <2>2, NPacketsAssumption DEF LateBounded
  <2> QED
    BY <2>3, <2>4, <2>5, <2>6
<1>2. CASE SendFailure
  <2> USE <1>2 DEF SendFailure
  <2>1. RuntimeTypes'
    BY DEF RuntimeTypes, SenderStates
  <2>2. CaptureCached' /\ SettingsSound' /\ FrameCached'
    BY DEF CaptureCached, SettingsSound, FrameCached, Configured
  <2>3. FixedFormat' /\ LateBounded'
    BY DEF FixedFormat, LateBounded, Configured
  <2> QED
    BY <2>1, <2>2, <2>3
<1> QED
  BY <1>1, <1>2

(* The sender loop keeps the invariant.                                    *)
LEMMA SenderInv ==
  ASSUME RuntimeInv, Sender PROVE RuntimeInv'
BY WaitingInv, WaitSettingsInv, StoppingInv, DecideInv, StartInv, NextFrameInv,
   EmitInv DEF Sender

---------------------------------------------------------------------------
(* The daemons do nothing to the runtime but spawn and shut it down.       *)
LEMMA DaemonStep ==
  ASSUME RuntimeInv, Spawned, [DaemonNext]_daemonVars
  PROVE  RuntimeInv' /\ Spawned'
<1>1. CASE Control \/ Sender \/ Owner
  BY <1>1, ControlInv, SenderInv, OwnerInv, SpawnedStep
<1>2. CASE UNCHANGED vars
  BY <1>2, IdleInv DEF vars, Spawned
<1>3. Control \/ Sender \/ Owner \/ UNCHANGED vars
  <2>1. Main => Owner \/ UNCHANGED vars
    BY DEF Main, ParseCli, Spawning, SetHandler, Poll, ShuttingDown, Owner
  <2> QED
    BY <2>1 DEF DaemonNext, CtrlC, daemonVars
<1> QED
  BY <1>1, <1>2, <1>3

(* The invariant holds of every behaviour of a daemon.                     *)
LEMMA RuntimeInvariant ==
  DaemonSpec => []RuntimeInv
<1>1. DaemonInit => RuntimeInv /\ Spawned
  BY InitInv DEF DaemonInit, Init, Spawned
<1> QED
  BY <1>1, DaemonStep, PTL DEF DaemonSpec

(* The sender's caches never send a frame captured or split otherwise than *)
(* its settings say, and a fixed format is never left, whatever            *)
(* controllers write and whichever backend operations fail.                *)
THEOREM Configuration ==
  DaemonSpec => []FrameAsConfigured
<1>1. RuntimeInv => FrameAsConfigured
  BY DEF RuntimeInv, CaptureCached, SettingsSound, FixedFormat, FrameCached,
         FrameAsConfigured
<1> QED
  BY <1>1, RuntimeInvariant, PTL

(* A write that disables the stream is obeyed within the frame under way,  *)
(* whatever number of packets that has.                                    *)
THEOREM Stopping ==
  DaemonSpec => []StopsWithinAFrame
<1>1. RuntimeInv => StopsWithinAFrame
  BY DEF RuntimeInv, LateBounded, StopsWithinAFrame
<1> QED
  BY <1>1, RuntimeInvariant, PTL

---------------------------------------------------------------------------
(* A pipeline nobody owns is a GStreamer provider's, and takes a failure.  *)
LostByFailure ==
  failures \in Nat /\ (abandoned => provider # "synthetic" /\ failures > 0)

(* What a step may do to that: lose a pipeline, by a failure.              *)
LosesAtMostOne ==
  /\ provider' = provider /\ failures' \in {failures, failures + 1}
  /\ \/ abandoned' = abandoned
     \/ provider # "synthetic" /\ failures' = failures + 1

(* The control loop and the owner touch no pipeline, ...                   *)
LEMMA OthersLoseNone ==
  ASSUME Control \/ Owner \/ UNCHANGED vars PROVE LosesAtMostOne
<1> USE DEF LosesAtMostOne, capture, backend, Disturbed
<1>1. CASE Control
  BY <1>1
     DEF Control, ControlTop, ControlIdle, ControlReports, ControlError,
         ControlKeeps, WriteStream, WriteMaxPacket, Write
<1>2. CASE Owner
  BY <1>2
     DEF Owner, SpawnRefused, SpawnControl, SpawnSender, ShutdownFlag,
         ShutdownNotify, ShutdownJoin, OwnerKeeps
<1>3. CASE UNCHANGED vars
  BY <1>3 DEF vars
<1> QED
  BY <1>1, <1>2, <1>3

(* ... and the sender loses one when a start or a stop fails.              *)
LEMMA SenderLosesOne ==
  ASSUME Sender PROVE LosesAtMostOne
<1> USE DEF LosesAtMostOne, capture, backend, Disturbed, Undisturbed, SenderKeeps
<1>1. CASE SenderBind \/ SenderTop \/ WaitTest \/ WaitSettings \/ WaitTimeout
             \/ Continue \/ SendPacket \/ SendFailure
  BY <1>1
     DEF SenderBind, SenderTop, WaitTest, WaitSettings, WaitTimeout, Continue,
         SendPacket, SendFailure
<1>2. StopCapture \/ StopIfActive =>
        /\ failures' \in {failures, failures + 1}
        /\ \/ abandoned' = abandoned
           \/ provider # "synthetic" /\ failures' = failures + 1
  BY DEF StopIfActive, StopCapture
<1>3. CASE NoDestination \/ Reconfigure \/ DropCapture \/ Finish
  BY <1>2, <1>3 DEF NoDestination, Reconfigure, DropCapture, Finish
<1>4. CASE Start
  <2>1. CASE StartOk(settings.format)
    BY <1>4, <2>1 DEF Start, StartOk, StartSynthetic, PipelineStarts
  <2>2. CASE StartFails(settings.format)
    BY <1>4, <2>2
       DEF Start, StartFails, StartInvalid, PipelineRefused, PipelineAbandoned
  <2> QED
    BY <1>4, <2>1, <2>2 DEF Start
<1>5. CASE NextFrame
  BY <1>5 DEF NextFrame, FrameOk, FrameFails
<1> QED
  BY <1>1, <1>3, <1>4, <1>5 DEF Sender

(* LostByFailure is kept.                                                  *)
LEMMA LostStep ==
  ASSUME LostByFailure, [DaemonNext]_daemonVars PROVE LostByFailure'
<1>1. Control \/ Sender \/ Owner \/ UNCHANGED vars
  <2>1. Main => Owner \/ UNCHANGED vars
    BY DEF Main, ParseCli, Spawning, SetHandler, Poll, ShuttingDown, Owner
  <2> QED
    BY <2>1 DEF DaemonNext, CtrlC, daemonVars
<1>2. LosesAtMostOne
  BY <1>1, OthersLoseNone, SenderLosesOne
<1> QED
  BY <1>2 DEF LosesAtMostOne, LostByFailure

(* A sender loop that has ended, in whichever way, leaves nothing that     *)
(* captures but a pipeline dropped while it played, which takes a failure  *)
(* of a GStreamer provider (Finish, stop_capture, start_capture).          *)
THEOREM Release ==
  DaemonSpec => []CaptureReleased
<1>1. RuntimeInv /\ LostByFailure => CaptureReleased
  BY DEF RuntimeInv, CaptureCached, LostByFailure, CaptureReleased, Capturing
<1>2. DaemonInit => LostByFailure
  BY DEF DaemonInit, Init, LostByFailure
<1> QED
  BY <1>1, <1>2, LostStep, RuntimeInvariant, PTL DEF DaemonSpec
=============================================================================

--------------------------- MODULE DeviceRuntime ---------------------------
(***************************************************************************)
(* The device of crates/eevideo-device: a control loop that serves         *)
(* register requests, a sender loop that captures and sends frames as the  *)
(* registers say, and the owner that shuts both down.  The registers are   *)
(* shared under a mutex with a condition variable.                         *)
(*                                                                         *)
(* Of the registers only those of the stream are kept; width, height and   *)
(* pixel format are one `format', the packet delay is left out.  What the  *)
(* sender captures from is in CaptureBackends.                             *)
(***************************************************************************)
EXTENDS CaptureBackends

CONSTANTS
  Ips,         \* destination addresses a controller may write
  Ports,       \* destination ports a controller may write
  Mtus,        \* packet sizes a controller may write
  Native,      \* config.format: the format the device starts with
  Known,       \* formats whose registers the device understands
  MinMtu,      \* the smallest packet size the sender uses (256)
  NPackets,    \* packets of a frame
  MaxWrites    \* bound: register writes served in one behaviour

ASSUME FormatsAssumption ==
  /\ Native \in Known /\ Capturable \subseteq Known /\ Known \subseteq Formats
ASSUME MtusAssumption == Mtus \subseteq Nat /\ MinMtu \in Nat
ASSUME NoneAssumption == None \notin Formats \cup Cameras \cup Nat
ASSUME NPacketsAssumption == NPackets \in Nat \ {0}

NoPort == 0
NoIp == 0

Registers == [enable: BOOLEAN, mtu: Mtus, port: Ports \cup {NoPort},
              ip: Ips \cup {NoIp}, format: Formats]

Settings == [mtu: Nat, port: Ports \cup {NoPort}, ip: Ips \cup {NoIp},
             format: Known]

VARIABLES
  fixed,      \* config.enforce_fixed_format
  registers,  \* DeviceState.registers
  stop,       \* the stop flag
  owner,      \* the thread that spawns the runtime and shuts it down: new,
              \* serving, up, flagged, notified, down, or failed
  control,    \* the control loop: new, top, recv, or off
  sender,     \* the sender loop: new, bind, top, wait, hold, blocked,
              \* decide, start, pull, emit, dropped, finish, or off
  settings,   \* SenderSettings of this iteration, or None
  active,     \* active_capture
  packetizer, \* the MTU of the packetizer (active_mtu), or None
  left,       \* packets of the frame being sent that are still to send
  picture,    \* the format of the frame being sent
  writes,     \* bound
  late        \* history: packets sent since the stream was last disabled

device == <<fixed, registers, writes>>
capture == <<active, backend>>
frame == <<settings, packetizer, picture, left>>
vars == <<device, stop, owner, control, sender, frame, provider, capture,
          failures, late>>

Init ==
  /\ fixed \in BOOLEAN /\ provider \in Providers
  /\ \E m \in Mtus : registers = [enable |-> FALSE, mtu |-> m, port |-> NoPort,
                                  ip |-> NoIp, format |-> Native]
  /\ writes = 0
  /\ stop = FALSE
  /\ owner = "new" /\ control = "new" /\ sender = "new"
  /\ settings = None /\ packetizer = None /\ picture = None /\ left = 0
  /\ active = None /\ camera = None /\ abandoned = FALSE
  /\ failures = 0 /\ late = 0

---------------------------------------------------------------------------
(* spawn(): none or several interfaces fit the configuration, the socket   *)
(* is taken or the multicast group is refused, before anything runs.       *)
SpawnRefused ==
  /\ owner = "new"
  /\ owner' = "failed"
  /\ UNCHANGED <<device, stop, control, sender, frame, provider, capture,
                 failures, late>>

SpawnControl ==
  /\ owner = "new"
  /\ owner' = "serving" /\ control' = "top"
  /\ UNCHANGED <<device, stop, sender, frame, provider, capture, failures,
                 late>>

(* advertised_ip comes after the control loop was started: when it fails   *)
(* that loop goes on, and nothing sets its stop flag.                      *)
SpawnSender ==
  /\ owner = "serving"
  /\ \/ owner' = "up" /\ sender' = "bind"
     \/ owner' = "failed" /\ UNCHANGED sender
  /\ UNCHANGED <<device, stop, control, frame, provider, capture, failures,
                 late>>

---------------------------------------------------------------------------
(* The control loop                                                        *)

ControlKeeps ==
  UNCHANGED <<device, stop, owner, sender, frame, provider, capture, late>>

ControlTop ==
  /\ control = "top"
  /\ control' = IF stop THEN "off" ELSE "recv"
  /\ ControlKeeps /\ UNCHANGED failures

(* A read timeout, a discovery request, a register read, or a write that   *)
(* handle_register_request ignores.                                        *)
ControlIdle ==
  /\ control = "recv"
  /\ control' = "top"
  /\ ControlKeeps /\ UNCHANGED failures

(* A datagram that does not decode, or a response that is not sent.        *)
ControlReports ==
  /\ control = "recv"
  /\ control' = "top"
  /\ ControlKeeps /\ Disturbed

(* A receive error ends the loop.                                          *)
ControlError ==
  /\ control = "recv"
  /\ control' = "off"
  /\ ControlKeeps /\ Disturbed

(* A condition variable: a notification wakes the loop only if it waits.   *)
Woken == IF sender = "blocked" THEN "wait" ELSE sender

(* A register is written while no thread holds the mutex.                  *)
Write(new, wake) ==
  /\ control = "recv" /\ sender # "hold" /\ writes < MaxWrites
  /\ control' = "top"
  /\ writes' = writes + 1
  /\ registers' = new
  /\ sender' = IF wake THEN Woken ELSE sender
  /\ UNCHANGED <<fixed, stop, owner, frame, provider, capture, failures>>

(* start_count and stop_count, which only tests read, are left out.         *)
WriteMaxPacket(enable, mtu) ==
  /\ Write([registers EXCEPT !.enable = enable, !.mtu = mtu],
           enable # registers.enable)
  /\ late' = IF enable = registers.enable THEN late ELSE 0

(* normalize_write_value                                                   *)
Normalized(format) ==
  IF fixed /\ format # Native THEN registers.format ELSE format

WriteStream ==
  /\ \/ \E p \in Ports : Write([registers EXCEPT !.port = p], TRUE)
     \/ \E a \in Ips : Write([registers EXCEPT !.ip = a], TRUE)
     \/ \E fmt \in Formats :
          Write([registers EXCEPT !.format = Normalized(fmt)], TRUE)
  /\ UNCHANGED late

---------------------------------------------------------------------------
(* The sender loop                                                         *)

SenderKeeps == UNCHANGED <<device, stop, owner, control, provider>>

(* Binding the socket may fail; the loop then ends before it begins.       *)
SenderBind ==
  /\ sender = "bind"
  /\ \/ sender' = "top" /\ Undisturbed
     \/ sender' = "off" /\ Disturbed
  /\ SenderKeeps /\ UNCHANGED <<frame, capture, late>>

SenderTop ==
  /\ sender = "top"
  /\ sender' = IF stop THEN "finish" ELSE "wait"
  /\ SenderKeeps /\ UNCHANGED <<frame, capture, failures, late>>

(* wait_for_stream_settings, under the mutex: the stop flag is tested      *)
(* first; between that test and the wait it may be set, and notified.      *)
WaitTest ==
  /\ sender = "wait"
  /\ sender' = IF stop THEN "finish" ELSE "hold"
  /\ SenderKeeps /\ UNCHANGED <<frame, capture, failures, late>>

(* What the sender makes of the registers: an MTU below the minimum, a     *)
(* zero size and unknown format bits are replaced by defaults.             *)
Current ==
  [mtu    |-> IF registers.mtu < MinMtu THEN MinMtu ELSE registers.mtu,
   port   |-> registers.port,
   ip     |-> registers.ip,
   format |-> IF registers.format \in Known THEN registers.format ELSE Native]

WaitSettings ==
  /\ sender = "hold"
  /\ \/ ~registers.enable /\ sender' = "blocked" /\ UNCHANGED settings
     \/ registers.enable /\ sender' = "decide" /\ settings' = Current
  /\ SenderKeeps
  /\ UNCHANGED <<packetizer, picture, left, capture, failures, late>>

(* Mutant: cvar.wait in place of cvar.wait_timeout.                        *)
WaitUntilNotified == FALSE /\ UNCHANGED vars

(* cvar.wait_timeout: 50 ms                                                *)
WaitTimeout ==
  /\ sender = "blocked"
  /\ sender' = "wait"
  /\ SenderKeeps /\ UNCHANGED <<frame, capture, failures, late>>

(* The capture is stopped when one is active; a failure is only reported.  *)
StopIfActive ==
  \/ active # None /\ StopCapture
  \/ active = None /\ UNCHANGED backend /\ Undisturbed

(* The destination port is 0: capturing stops, and the loop sleeps 20 ms.  *)
NoDestination ==
  /\ sender = "decide" /\ settings.port = NoPort
  /\ sender' = "top"
  /\ StopIfActive /\ active' = None
  /\ SenderKeeps /\ UNCHANGED <<frame, late>>

(* active_mtu: a size of at least MinMtu always makes a packetizer.         *)
Continue ==
  /\ sender = "decide" /\ settings.port # NoPort /\ active = settings.format
  /\ sender' = "pull" /\ packetizer' = settings.mtu
  /\ SenderKeeps
  /\ UNCHANGED <<settings, picture, left, capture, failures, late>>

(* Another format: a capture that is active stops before the new one       *)
(* starts.                                                                 *)
Reconfigure ==
  /\ sender = "decide" /\ settings.port # NoPort /\ active # settings.format
  /\ sender' = "start"
  /\ StopIfActive
  /\ SenderKeeps /\ UNCHANGED <<frame, active, late>>

Start ==
  /\ sender = "start"
  /\ \/ /\ StartOk(settings.format)
        /\ active' = settings.format
        /\ sender' = "pull" /\ packetizer' = settings.mtu
     \/ /\ StartFails(settings.format)
        /\ active' = None
        /\ sender' = "top" /\ UNCHANGED packetizer
  /\ SenderKeeps /\ UNCHANGED <<settings, picture, left, late>>

NextFrame ==
  /\ sender = "pull"
  /\ \/ /\ \E sample \in Formats : FrameOk(sample) /\ picture' = sample
        /\ sender' = "emit" /\ left' = NPackets
     \/ /\ FrameFails
        /\ sender' = "dropped" /\ UNCHANGED <<picture, left>>
  /\ SenderKeeps /\ UNCHANGED <<settings, packetizer, active, late>>

(* Mutant: the capture is stopped and active_capture stays set.            *)
DropCaptureOnly ==
  /\ sender = "dropped"
  /\ sender' = "top"
  /\ StopCapture
  /\ SenderKeeps /\ UNCHANGED <<frame, active, late>>

(* A failed pull ends the capture; the next iteration starts a new one.    *)
DropCapture ==
  /\ sender = "dropped"
  /\ sender' = "top"
  /\ StopCapture /\ active' = None
  /\ SenderKeeps /\ UNCHANGED <<frame, late>>

(* Mutant: the next frame is sent with the settings of the last.           *)
SendPacketOn ==
  /\ sender = "emit"
  /\ left' = left - 1
  /\ sender' = IF left = 1 THEN "pull" ELSE "emit"
  /\ late' = IF registers.enable \/ late > NPackets THEN late ELSE late + 1
  /\ SenderKeeps
  /\ UNCHANGED <<settings, packetizer, picture, capture, failures>>

(* One packet of emit_packets goes to the destination of the settings.     *)
SendPacket ==
  /\ sender = "emit"
  /\ left' = left - 1
  /\ sender' = IF left = 1 THEN "top" ELSE "emit"
  /\ late' = IF registers.enable \/ late > NPackets THEN late ELSE late + 1
  /\ SenderKeeps
  /\ UNCHANGED <<settings, packetizer, picture, capture, failures>>

SendFailure ==
  /\ sender = "emit"
  /\ sender' = "top" /\ left' = 0
  /\ Disturbed
  /\ SenderKeeps /\ UNCHANGED <<settings, packetizer, picture, capture, late>>

(* Mutant: the capture is left running at the end.                         *)
FinishOnly ==
  /\ sender = "finish"
  /\ sender' = "off"
  /\ SenderKeeps /\ UNCHANGED <<frame, capture, failures, late>>

Finish ==
  /\ sender = "finish"
  /\ sender' = "off"
  /\ StopIfActive /\ active' = None
  /\ SenderKeeps /\ UNCHANGED <<frame, late>>

---------------------------------------------------------------------------
(* shutdown(): the flag, the notification (without the mutex), the joins   *)

OwnerKeeps == UNCHANGED <<device, control, frame, provider, capture, late>>

ShutdownFlag ==
  /\ owner = "up"
  /\ owner' = "flagged" /\ stop' = TRUE
  /\ OwnerKeeps /\ UNCHANGED <<sender, failures>>

ShutdownNotify ==
  /\ owner = "flagged"
  /\ owner' = "notified" /\ sender' = Woken
  /\ OwnerKeeps /\ UNCHANGED <<stop, failures>>

(* Both threads are joined.                                                *)
ShutdownJoin ==
  /\ owner = "notified" /\ control = "off" /\ sender = "off"
  /\ owner' = "down"
  /\ OwnerKeeps /\ UNCHANGED <<stop, sender, failures>>

---------------------------------------------------------------------------
Control ==
  \/ ControlTop \/ ControlIdle \/ ControlReports \/ ControlError \/ WriteStream
  \/ \E e \in BOOLEAN, m \in Mtus : WriteMaxPacket(e, m)

Sender ==
  \/ SenderBind \/ SenderTop \/ WaitTest \/ WaitSettings \/ NoDestination
  \/ Continue \/ Reconfigure \/ Start \/ NextFrame \/ DropCapture
  \/ SendPacket \/ SendFailure \/ WaitTimeout \/ Finish

Owner ==
  \/ SpawnRefused \/ SpawnControl \/ SpawnSender
  \/ ShutdownFlag \/ ShutdownNotify \/ ShutdownJoin

---------------------------------------------------------------------------
(* Properties                                                              *)

(* The cached active_capture is what the backend does, and a frame is      *)
(* captured and split as the settings it is sent with say, however the     *)
(* registers have changed since and whatever the camera delivers (the      *)
(* caches of spawn_sender_loop).  A device with a fixed format never       *)
(* captures in another one.                                                *)
FrameAsConfigured ==
  /\ sender # "start" => active = IF camera = None THEN None ELSE camera.format
  /\ fixed => active \in {None, Native}
  /\ sender \in {"pull", "emit"} =>
       /\ active = settings.format
       /\ packetizer = settings.mtu
       /\ settings.port # NoPort
  /\ sender = "emit" => picture = settings.format

(* Once a controller's write has disabled the stream, at most the frame    *)
(* already under way is sent.                                              *)
StopsWithinAFrame == late <= NPackets

(* What captures: the backend, or a pipeline that nobody owns.             *)
Capturing == camera # None \/ abandoned

(* Once the sender has ended, in whichever way, nothing captures but a     *)
(* pipeline that was dropped while it played (PipelineAbandoned, and a     *)
(* StopCapture that fails), which shutdown() does not reach either.  That  *)
(* takes a GStreamer provider and a failure: the synthetic backend always  *)
(* stops, and a device without failures releases its camera.               *)
CaptureReleased ==
  sender = "off" /\ Capturing =>
    camera = None /\ provider # "synthetic" /\ failures > 0

(* Once controllers stop writing, every frame that is sent is one the      *)
(* registers describe: no cached setting outlives its register.            *)
SettingsTakeEffect == <>[](sender = "emit" => settings = Current)

(* ... and while the stream is enabled with a destination and a format the *)
(* backend can capture, frames keep being sent, unless the sender could    *)
(* not bind its socket or a pipeline was dropped while it played.          *)
KeepsStreaming ==
  <>[](/\ registers.enable /\ registers.port # NoPort
       /\ Valid(Current.format) /\ ~abandoned
       /\ sender \notin {"new", "off"} /\ ~stop)
    => []<>(sender = "emit")
=============================================================================

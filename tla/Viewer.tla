------------------------------- MODULE Viewer -------------------------------
(***************************************************************************)
(* run() of crates/eeview: the target is given or discovered, the device   *)
(* is described (for an overlay), the pipeline is built and played until   *)
(* the bus says Eos or Error or the user presses Ctrl+C, then stopped.     *)
(* Other clients (eevid, another eeview) use the same description files.   *)
(*                                                                         *)
(* The pipeline is external: it may fail to build, start or stop, post     *)
(* messages, and end its stream, which completes a recording.              *)
(***************************************************************************)
EXTENDS DeviceDescription

CONSTANTS
  Viewers,     \* the client that is the viewer, as a singleton
  MaxMessages  \* bound: messages the pipeline posts

ASSUME ViewerAssumption == \E v \in Clients : Viewers = {v}

Me == CHOOSE v \in Viewers : TRUE

VARIABLES
  phase,       \* of run(): target, search, overlay, encoder, build, start,
               \* connect, play, finalize, stop, or exit
  target,      \* the device to control, or None
  interrupted, \* external: Ctrl+C
  bus,         \* the messages of the pipeline's bus
  posted,      \* bound
  ended,       \* external: the stream has ended, a recording is complete
  result,      \* run_result and stop_result: ok, or error
  gaveUp,      \* history: the 5 s for the Eos of Ctrl+C passed
  failedFirst  \* history: an error was posted while nothing had ended

pipeline == <<bus, posted, ended, failedFirst>>
viewer == <<phase, target, interrupted, pipeline, result, gaveUp>>
vars == <<viewer, discovery, described>>

Init ==
  /\ DiscoveryInit /\ DescriptionInit
  /\ phase = "target" /\ target = None
  /\ interrupted = FALSE
  /\ bus = <<>> /\ posted = 0 /\ ended = FALSE /\ failedFirst = FALSE
  /\ result = "ok" /\ gaveUp = FALSE

---------------------------------------------------------------------------
(* Before the pipeline plays every error ends run().                       *)
Fail == phase' = "exit" /\ result' = "error"

(* resolve_target, with --device-uri ...                                   *)
GivenTarget ==
  /\ phase = "target"
  /\ \E d \in Devices : target' = d
  /\ phase' = "overlay"
  /\ UNCHANGED <<interrupted, pipeline, result, gaveUp, discovery,
                 described>>

(* ... and without.                                                        *)
Discover ==
  /\ phase = "target"
  /\ Begin
  /\ phase' = "search"
  /\ UNCHANGED <<target, interrupted, pipeline, result, gaveUp, described>>

Search ==
  /\ phase = "search" /\ Searching
  /\ UNCHANGED <<viewer, described>>

(* Mutant: the first of several devices is taken.                          *)
FirstFound == Len(responses) >= 1

OneFound == Len(responses) = 1

Resolve ==
  /\ phase = "search" /\ search \in {"done", "failed"}
  /\ \/ /\ search = "done" /\ OneFound
        /\ target' = responses[1].device
        /\ phase' = "overlay" /\ UNCHANGED result
     \/ /\ search = "failed" \/ ~OneFound
        /\ Fail /\ UNCHANGED target
  /\ UNCHANGED <<interrupted, pipeline, gaveUp, discovery,
                 described>>

(* describe(), whose failure only costs the overlay; --no-overlay.  It     *)
(* loads the description twice, the second time from where the first left  *)
(* it; one load stands for both.  Only --record takes an encoder.          *)
Overlay ==
  /\ phase = "overlay"
  /\ \/ job[Me].step = "idle" /\ Open(Me, target) /\ UNCHANGED phase
        /\ UNCHANGED discovery
     \/ /\ job[Me].step \in {"idle", "got", "unreadable", "failed"}
        /\ phase' \in {"encoder", "build"} /\ Forget /\ Close(Me)
  /\ UNCHANGED <<target, interrupted, pipeline, result, gaveUp>>

(* The requested encoder or the first of the table, with its muxer, if     *)
(* GStreamer has them.                                                     *)
SelectEncoder ==
  /\ phase = "encoder"
  /\ \/ phase' = "build" /\ UNCHANGED result
     \/ Fail
  /\ UNCHANGED <<target, interrupted, pipeline, gaveUp, discovery, described>>

(* build_pipeline and set_handler                                          *)
Build ==
  /\ phase = "build"
  /\ \/ phase' = "start" /\ UNCHANGED result
     \/ Fail
  /\ UNCHANGED <<target, interrupted, pipeline, gaveUp, discovery, described>>

(* set_state(Playing): start() of the source connects, for which it needs  *)
(* the description, and then controls the device.                          *)
Connect ==
  /\ phase = "start"
  /\ Open(Me, target)
  /\ phase' = "connect"
  /\ UNCHANGED <<target, interrupted, pipeline, result, gaveUp, discovery>>

Play ==
  /\ phase = "connect"
  /\ \/ job[Me].step = "got" /\ phase' = "play" /\ UNCHANGED result
     \/ /\ job[Me].step \in {"got", "unreadable", "failed"}
        /\ phase' = "stop" /\ result' = "error"
  /\ Close(Me)
  /\ UNCHANGED <<target, interrupted, pipeline, gaveUp, discovery>>

---------------------------------------------------------------------------
(* The loop of run() and wait_for_terminal_bus_message                     *)

CtrlC ==
  /\ phase \in {"start", "connect", "play"} /\ ~interrupted
  /\ interrupted' = TRUE
  /\ UNCHANGED <<phase, target, pipeline, result, gaveUp, discovery, described>>

(* Mutant: the pipeline is stopped as soon as Eos has been sent.           *)
StopAtOnce ==
  /\ phase = "play" /\ interrupted
  /\ phase' = "stop"
  /\ UNCHANGED <<target, interrupted, pipeline, result, gaveUp, discovery,
                 described>>

SendEos ==
  /\ phase = "play" /\ interrupted
  /\ phase' = "finalize"
  /\ UNCHANGED <<target, interrupted, pipeline, result, gaveUp, discovery,
                 described>>

(* The next message; Ctrl+C may come while the loop waits for one.         *)
Pop ==
  /\ phase \in {"play", "finalize"}
  /\ bus # <<>>
  /\ bus' = Tail(bus)
  /\ phase' = IF Head(bus) \in {"eos", "error"} THEN "stop" ELSE phase
  /\ result' = IF Head(bus) = "error" THEN "error" ELSE result
  /\ UNCHANGED <<target, interrupted, posted, ended, failedFirst, gaveUp,
                 discovery, described>>

(* Mutant: wait_for_terminal_bus_message has no deadline.                  *)
KeepWaiting == FALSE /\ UNCHANGED vars

(* 5 s have passed, which is not an error.                                 *)
GiveUp ==
  /\ phase = "finalize"
  /\ phase' = "stop" /\ gaveUp' = TRUE
  /\ UNCHANGED <<target, interrupted, pipeline, result, discovery, described>>

(* set_state(Null) and finalize_run_result                                 *)
Stop ==
  /\ phase = "stop"
  /\ phase' = "exit"
  /\ \/ UNCHANGED result
     \/ result' = "error"
  /\ UNCHANGED <<target, interrupted, pipeline, gaveUp, discovery, described>>

---------------------------------------------------------------------------
(* The pipeline: the stream ends by itself or, perhaps, after Eos was      *)
(* sent; its Eos is posted once every sink has it.                         *)

Playing == phase \in {"play", "finalize"}

StreamEnds ==
  /\ Playing /\ ~ended
  /\ ended' = TRUE /\ bus' = Append(bus, "eos")
  /\ UNCHANGED <<phase, target, interrupted, posted, failedFirst, result, gaveUp,
                 discovery, described>>

Post(m) ==
  /\ Playing /\ posted < MaxMessages
  /\ posted' = posted + 1
  /\ bus' = Append(bus, m)
  /\ failedFirst' = (failedFirst \/ (m = "error" /\ ~ended))
  /\ UNCHANGED <<phase, target, interrupted, ended, result, gaveUp, discovery,
                 described>>

Pipeline == StreamEnds \/ \E m \in {"error", "state"} : Post(m)

---------------------------------------------------------------------------
(* The other clients, and the devices                                      *)

OtherOpens ==
  /\ \E c \in Clients \ {Me}, d \in Devices : job[c].step = "idle" /\ Open(c, d)
  /\ UNCHANGED <<viewer, discovery>>

Describe(c) == Describing(c) /\ UNCHANGED <<viewer, discovery>>

(* A client that dies is gone; eeview's death ends the behaviour of        *)
(* interest, so only its failed writes are kept.                           *)
Interrupted ==
  /\ \E c \in Clients : CutShort(c) /\ (c = Me => job'[c].step = "failed")
  /\ UNCHANGED <<viewer, discovery>>

DeviceChanges == (\E d \in Devices : Relayout(d)) /\ UNCHANGED <<viewer, discovery>>

Run ==
  \/ GivenTarget \/ Discover \/ Search \/ Resolve \/ Overlay
  \/ SelectEncoder \/ Build \/ Connect \/ Play \/ SendEos \/ Pop \/ GiveUp \/ Stop

Next ==
  \/ Run \/ CtrlC \/ Pipeline \/ OtherOpens \/ Interrupted \/ DeviceChanges
  \/ \E c \in Clients : Describe(c)

(* The viewer's thread runs; requests to the device and set_state return.  *)
FairSpec ==
  /\ Init /\ [][Next]_vars
  /\ WF_vars(Run) /\ WF_vars(Describe(Me))

---------------------------------------------------------------------------
(* Properties                                                              *)

(* The viewer plays from the device it was given, or from the only one it  *)
(* heard: a device that answers after the 200 ms of silence is not one of  *)
(* those.  And what a client goes by is a whole description of its own     *)
(* device, but for the exceptions of SoundFor (resolve_target; connect and *)
(* its description files).                                                 *)
RightDevice ==
  /\ target # None => \A h \in heard : h.device = target
  /\ \A c \in Clients : SoundFor(c)

(* A run that reports success met no error before its stream ended, and a  *)
(* recording it leaves is complete; unless the 5 s passed, which run()     *)
(* reports as success too.                                                 *)
SuccessIsComplete ==
  phase = "exit" /\ result = "ok" => (ended /\ ~failedFirst) \/ gaveUp

(* Ctrl+C ends the viewer, whatever the pipeline does or fails to do.      *)
InterruptEnds == interrupted ~> phase = "exit"
=============================================================================

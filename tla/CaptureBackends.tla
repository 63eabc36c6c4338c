-------------------------- MODULE CaptureBackends --------------------------
(***************************************************************************)
(* The capture backends of a device: the synthetic one of                  *)
(* crates/eevideo-device and the GStreamer one of                          *)
(* crates/eedeviced/src/providers, behind ProviderBackend.                 *)
(*                                                                         *)
(* A configuration is one `format'; its frame rate is left out.  GStreamer *)
(* is external: a pipeline may not come up, may deliver no sample in time  *)
(* or one of another format, and may refuse to stop.  A pipeline that is   *)
(* dropped while it plays is not stopped: it is `abandoned', and the       *)
(* camera of an Argus or V4L2 provider stays busy.                         *)
(***************************************************************************)
EXTENDS Naturals

CONSTANTS
  Formats,     \* capture configurations
  Capturable,  \* those with dimensions a backend accepts
  ArgusFormats, \* those in UYVY
  MaxFailures, \* bound: operations that fail in one behaviour
  None

Providers == {"synthetic", "argus", "v4l2", "pipeline"}
Exclusive == {"argus", "v4l2"}

VARIABLES
  provider,  \* the configured backend
  camera,    \* the backend's state: None, or its format and pending sample
  abandoned, \* external: a pipeline nobody owns is still playing
  failures   \* bound

backend == <<camera, abandoned>>

Cameras == [format: Formats, pending: Formats \cup {None}]

(* An operation fails for a reason of its surroundings; events that report *)
(* it are left out.                                                        *)
Disturbed == failures < MaxFailures /\ failures' = failures + 1

Undisturbed == UNCHANGED failures

(* validate_provider_capture_config, and the checks of the synthetic one   *)
Valid(format) ==
  format \in IF provider = "argus" THEN Capturable \cap ArgusFormats
            ELSE Capturable

(* Mutant: the format a sample was negotiated with is not compared.        *)
AcceptsAny(format, sample) == sample # None

(* validate_expected_format and validate_sample_payload                    *)
Accepts(format, sample) == sample = format

---------------------------------------------------------------------------
(* start_capture, with no capture running: the sender stops first.         *)

(* The dimensions are checked before anything is started.                  *)
StartInvalid(format) ==
  /\ ~Valid(format)
  /\ Undisturbed /\ UNCHANGED backend

StartSynthetic(format) ==
  /\ provider = "synthetic" /\ Valid(format)
  /\ camera' = [format |-> format, pending |-> None]
  /\ Undisturbed /\ UNCHANGED abandoned

(* The pipeline is not built, does not expose its sink or does not play.   *)
PipelineRefused(format) ==
  /\ provider # "synthetic" /\ Valid(format)
  /\ \/ Disturbed
     \/ abandoned /\ provider \in Exclusive /\ Undisturbed
  /\ UNCHANGED backend

(* It plays, and its first sample is late or not as configured: the error  *)
(* drops the pipeline without set_state(Null).                             *)
PipelineAbandoned(format) ==
  /\ provider # "synthetic" /\ Valid(format)
  /\ ~(abandoned /\ provider \in Exclusive)
  /\ \E sample \in Formats \cup {None} : ~Accepts(format, sample)
  /\ Disturbed
  /\ abandoned' = TRUE
  /\ UNCHANGED camera

PipelineStarts(format) ==
  /\ provider # "synthetic" /\ Valid(format)
  /\ ~(abandoned /\ provider \in Exclusive)
  /\ \E sample \in Formats :
       /\ Accepts(format, sample)
       /\ camera' = [format |-> format, pending |-> sample]
  /\ Undisturbed /\ UNCHANGED abandoned

StartOk(format) == StartSynthetic(format) \/ PipelineStarts(format)

StartFails(format) ==
  StartInvalid(format) \/ PipelineRefused(format) \/ PipelineAbandoned(format)

---------------------------------------------------------------------------
(* stop_capture: the state is taken before the pipeline is told to stop.   *)
StopCapture ==
  /\ camera' = None
  /\ \/ Undisturbed /\ UNCHANGED abandoned
     \/ /\ camera # None /\ provider # "synthetic"
        /\ Disturbed
        /\ abandoned' = TRUE

(* next_frame: the pending sample first, then what the sink delivers.  The *)
(* synthetic backend fails only when it is not running.                    *)
FrameOk(sample) ==
  /\ camera # None
  /\ camera.pending \in {None, sample}
  /\ Accepts(camera.format, sample)
  /\ camera' = [camera EXCEPT !.pending = None]
  /\ Undisturbed /\ UNCHANGED abandoned

FrameFails ==
  /\ \/ camera = None /\ Undisturbed
     \/ /\ camera # None /\ camera.pending = None
        /\ provider # "synthetic" /\ Disturbed
  /\ UNCHANGED backend
=============================================================================

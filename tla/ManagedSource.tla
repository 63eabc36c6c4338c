---------------------------- MODULE ManagedSource ----------------------------
(***************************************************************************)
(* Who calls a control session: a user that makes any calls in any order,  *)
(* or eevideosrc, whose start() makes a new session, describes, configures *)
(* and starts the stream, and drops the session on the first error, and    *)
(* whose stop() stops the stream and disconnects whatever fails.           *)
(***************************************************************************)
EXTENDS ManagedControl

CONSTANT
  Users,    \* who may use the session, of {"any", "element"}
  MaxStarts \* bound: starts of the element

ASSUME UsersAssumption == Users \subseteq {"any", "element"}

VARIABLES
  user,    \* who uses the session, fixed
  element, \* EeVideoSrc: stopped, running, or the call start or stop makes
  report,  \* what the element's last start or stop returned
  failed,  \* stop_failure
  starts   \* starts of the element so far (bound)

userVars == <<user, element, report, failed, starts>>
sourceVars == <<vars, userVars>>

SourceInit ==
  /\ Init
  /\ user \in Users
  /\ element = "stopped" /\ report = "ok" /\ failed = FALSE /\ starts = 0

AnyCall == user = "any" /\ Calls /\ UNCHANGED userVars

(* The element is in this state and has no call under way.                 *)
At(state) == user = "element" /\ element = state /\ call = None

Becomes(state) == element' = state /\ UNCHANGED user

(* The addresses of the settings are resolved and the socket is bound      *)
(* first; without an address to give the device, it is not controlled.     *)
StartRefused ==
  /\ At("stopped") /\ starts < MaxStarts
  /\ starts' = starts + 1
  /\ report' = "error"
  /\ UNCHANGED <<vars, user, element, failed>>

Starting ==
  /\ At("stopped") /\ starts < MaxStarts
  /\ starts' = starts + 1
  /\ Describe
  /\ Becomes("describe") /\ UNCHANGED <<report, failed>>

Configuring ==
  /\ At("describe") /\ result = "ok"
  /\ Configure(session.requested)
  /\ Becomes("configure") /\ UNCHANGED <<report, failed, starts>>

Enabling ==
  /\ At("configure") /\ result = "ok"
  /\ Start
  /\ Becomes("start") /\ UNCHANGED <<report, failed, starts>>

Started ==
  /\ At("start") /\ result = "ok"
  /\ report' = "ok"
  /\ Becomes("running") /\ UNCHANGED <<vars, failed, starts>>

(* The session and its connection are dropped; the next start makes a new  *)
(* session for the settings of then.                                       *)
DropSession ==
  /\ \E c \in Configs : session' = NewSession(c)
  /\ conn' = None
  /\ result' = "none"
  /\ UNCHANGED <<network, registers, call, script, exchange, lastId, calls,
                 losses, history>>

StartFails ==
  /\ \E state \in {"describe", "configure", "start"} : At(state)
  /\ result # "ok"
  /\ DropSession
  /\ report' = "error"
  /\ Becomes("stopped") /\ UNCHANGED <<failed, starts>>

Stopping ==
  /\ At("running")
  /\ Stop
  /\ Becomes("stop") /\ UNCHANGED <<report, failed, starts>>

(* Mutant: the result of the session's stop is ignored.                    *)
StopIgnored == FALSE

StopFailed == result # "ok"

Disconnecting ==
  /\ At("stop")
  /\ Disconnect
  /\ failed' = StopFailed
  /\ Becomes("disconnect") /\ UNCHANGED <<report, starts>>

Stopped ==
  /\ At("disconnect")
  /\ DropSession
  /\ report' = IF failed THEN "error" ELSE "ok"
  /\ Becomes("stopped") /\ UNCHANGED <<failed, starts>>

Element ==
  \/ StartRefused \/ Starting \/ Configuring \/ Enabling \/ Started
  \/ StartFails \/ Stopping \/ Disconnecting \/ Stopped

SourceNext == AnyCall \/ Element \/ ((Client \/ Delivery) /\ UNCHANGED userVars)

(* The caller's thread runs; its socket has a read timeout.                *)
SourceSpec ==
  SourceInit /\ [][SourceNext]_sourceVars
    /\ WF_sourceVars(Client /\ UNCHANGED userVars)

---------------------------------------------------------------------------
(* Properties                                                              *)

(* A device is left streaming by a stopped element only when the start or  *)
(* stop that left it so has returned an error, whichever replies were      *)
(* lost: start() drops its session without a stop (imp.rs:583).  A network *)
(* that delays the start request past a stop can enable the device again.  *)
NoSilentRunaway ==
  Prompt /\ At("stopped") /\ registers.max.enable => report = "error"

(* An enabled device sends to a destination somebody asked for: although   *)
(* configure writes port and address one after the other, and disables     *)
(* the stream only then (backend.rs:262), the element never configures a   *)
(* device that is enabled, except after an error it has reported.          *)
DestinationWhole ==
  LET whole == \E c \in Configs : /\ registers.port.n = c.port
                                  /\ registers.ip.n = c.ip
  IN  Prompt /\ user = "element" /\ registers.max.enable
        => whole \/ report = "error"
=============================================================================

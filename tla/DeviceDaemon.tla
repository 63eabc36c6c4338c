---------------------------- MODULE DeviceDaemon ----------------------------
(***************************************************************************)
(* The two device daemons around DeviceRuntime: eedeviced                  *)
(* (crates/eedeviced), with any provider and a fixed format, and eefakedev *)
(* (crates/eefakedev), with the synthetic backend and a format controllers *)
(* may change.  Their main thread reads the command line, spawns the       *)
(* runtime, and shuts it down on Ctrl+C; the events it prints meanwhile    *)
(* are left out.                                                           *)
(***************************************************************************)
EXTENDS DeviceRuntime

VARIABLES
  main,       \* cli, spawn, handler, loop, shutdown, or exit
  interrupted \* external: Ctrl+C was pressed

daemon == <<main, interrupted>>
daemonVars == <<vars, daemon>>

(* runtime_config of the two, and build_capture_backend                    *)
DaemonInit ==
  /\ Init
  /\ ~fixed => provider = "synthetic"
  /\ main = "cli" /\ interrupted = FALSE

---------------------------------------------------------------------------
Options == {"sensor-id", "device", "pipeline"}

Allowed(input) ==
  CASE input = "synthetic" -> {}
    [] input = "argus"     -> {"sensor-id"}
    [] input = "v4l2"      -> {"device"}
    [] input = "pipeline"  -> {"pipeline"}

(* TryFrom<Cli>: an option of another provider is refused, and so is one   *)
(* that is missing or blank; the sensor defaults to 0.                     *)
Accepted(given) ==
  /\ given \subseteq Allowed(provider)
  /\ Allowed(provider) \subseteq given \cup {"sensor-id"}

(* ... and validate_config.                                                *)
ParseCli ==
  /\ main = "cli"
  /\ \E given \in SUBSET Options :
       main' = IF Accepted(given) /\ Valid(Native) THEN "spawn" ELSE "exit"
  /\ UNCHANGED <<vars, interrupted>>

Spawning ==
  /\ main = "spawn" /\ (SpawnRefused \/ SpawnControl \/ SpawnSender)
  /\ main' = CASE owner' = "up"     -> "handler"
               [] owner' = "failed" -> "exit"
               [] OTHER             -> "spawn"
  /\ UNCHANGED interrupted

(* ctrlc::set_handler; when it fails, the runtime is dropped, and that     *)
(* shuts it down.                                                          *)
SetHandler ==
  /\ main = "handler"
  /\ main' \in {"loop", "shutdown"}
  /\ UNCHANGED <<vars, interrupted>>

CtrlC ==
  /\ main = "loop" /\ ~interrupted
  /\ interrupted' = TRUE
  /\ UNCHANGED <<vars, main>>

(* recv_timeout: the signal is seen within 200 ms.                         *)
Poll ==
  /\ main = "loop" /\ interrupted
  /\ main' = "shutdown"
  /\ UNCHANGED <<vars, interrupted>>

ShuttingDown ==
  /\ main = "shutdown" /\ (ShutdownFlag \/ ShutdownNotify \/ ShutdownJoin)
  /\ main' = IF owner' = "down" THEN "exit" ELSE main
  /\ UNCHANGED interrupted

---------------------------------------------------------------------------
Main == ParseCli \/ Spawning \/ SetHandler \/ Poll \/ ShuttingDown

DaemonNext == ((Control \/ Sender) /\ UNCHANGED daemon) \/ Main \/ CtrlC

(* All three threads run, and next_frame returns (the backends wait for a  *)
(* frame with a timeout).  Nobody has to press Ctrl+C.                     *)
DaemonSpec ==
  /\ DaemonInit /\ [][DaemonNext]_daemonVars
  /\ WF_daemonVars(ControlTop /\ UNCHANGED daemon)
  /\ WF_daemonVars(ControlIdle /\ UNCHANGED daemon)
  /\ WF_daemonVars(Sender /\ UNCHANGED daemon)
  /\ WF_daemonVars(Main)

---------------------------------------------------------------------------
(* Properties                                                              *)

(* Ctrl+C ends the daemon from any state of its threads, although the      *)
(* notification of shutdown() may come between the sender's test of the    *)
(* flag and its wait.                                                      *)
StopsOnInterrupt == interrupted ~> main = "exit"
=============================================================================

------------------------- MODULE DeviceDescription -------------------------
(***************************************************************************)
(* How a client of crates/eevideo-control comes to the description of a    *)
(* device (load_or_create_device_config): from a YAML file when there is   *)
(* one, else by reading the device's feature table and registers           *)
(* (introspect_device_config), after which the file is written.            *)
(*                                                                         *)
(* Clients are processes: they share the files and nothing else.  Of a     *)
(* description the model keeps whose it is, which layout of the device it  *)
(* shows, and whether it is whole, a mixture of two layouts, or cut off:   *)
(* fs::write truncates the file first, and a YAML text that is cut off may *)
(* still parse, with registers missing.                                    *)
(***************************************************************************)
EXTENDS Discovery

CONSTANTS
  Clients,     \* processes that describe devices
  MaxLayouts,  \* bound: layouts a device has one after the other
  MaxCrashes   \* bound: clients that die, and writes that fail

VARIABLES
  root,    \* config.yaml_root: none, file, or directory
  layout,  \* external: the register layout each device has now
  files,   \* the YAML files: None, or the description that is in them
  job,     \* what each client is doing, and what came of it
  crashes, \* bound
  torn     \* history: paths whose text is not that of one completed write

described == <<root, layout, files, job, crashes, torn>>

Descriptions ==
  [device: Devices, layout: 1 .. MaxLayouts, text: {"whole", "mixed", "cut"}]

(* yaml_path: one file for all devices, or one for each.                   *)
Path(d) == IF root = "file" THEN "file" ELSE d

Steps == {"idle", "look", "introspect", "read", "persist", "write", "got",
          "unreadable", "failed", "dead"}

(* excused: when the file was read somebody was writing it, or its text    *)
(* was torn.                                                               *)
Jobs == [step: Steps, device: Devices \cup {None},
         descr: Descriptions \cup {None}, excused: BOOLEAN]

Idle == [step |-> "idle", device |-> None, descr |-> None, excused |-> FALSE]

DescriptionInit ==
  /\ root \in {"none", "file", "directory"}
  /\ layout = [d \in Devices |-> 1]
  /\ files = [p \in Devices \cup {"file"} |-> None]
  /\ job = [c \in Clients |-> Idle]
  /\ crashes = 0 /\ torn = {}

Becomes(c, step, descr) ==
  job' = [job EXCEPT ![c].step = step, ![c].descr = descr]

(* connect and describe begin with the endpoint of the device URI.         *)
Open(c, d) ==
  /\ job' = [job EXCEPT ![c] = [Idle EXCEPT !.step = "look", !.device = d]]
  /\ UNCHANGED <<root, layout, files, crashes, torn>>

(* The description is no longer needed.                                    *)
Close(c) ==
  /\ job' = [job EXCEPT ![c] = Idle]
  /\ UNCHANGED <<root, layout, files, crashes, torn>>

(* The clients whose write to p is under way.                              *)
Writing(p) == {c \in Clients : job[c].step = "write" /\ Path(job[c].device) = p}

(* read_device_config: a text that is cut off may parse or not.            *)
Parsed(d) == {"got"} \cup (IF d.text = "cut" THEN {"unreadable"} ELSE {})

(* maybe_read_device_config                                                *)
Look(c) ==
  LET p == Path(job[c].device) IN
  /\ job[c].step = "look"
  /\ \/ /\ root = "none" \/ files[p] = None
        /\ Becomes(c, "introspect", None)
     \/ /\ root # "none" /\ files[p] # None
        /\ \E s \in Parsed(files[p]) :
             job' = [job EXCEPT ![c].step = s, ![c].descr = files[p],
                                ![c].excused = p \in torn \/ Writing(p) # {}]
  /\ UNCHANGED <<root, layout, files, crashes, torn>>

(* The table and the registers are read one by one; the first of them ...  *)
Introspect(c) ==
  /\ job[c].step = "introspect"
  /\ Becomes(c, "read", [device |-> job[c].device, text |-> "whole",
                         layout |-> layout[job[c].device]])
  /\ UNCHANGED <<root, layout, files, crashes, torn>>

(* ... and the last; a device that changed in between gives a mixture.     *)
Introspected(c) ==
  LET d == job[c].descr IN
  /\ job[c].step = "read"
  /\ Becomes(c, IF root = "none" THEN "got" ELSE "persist",
             [d EXCEPT !.text = IF d.layout = layout[d.device] THEN "whole"
                                ELSE "mixed"])
  /\ UNCHANGED <<root, layout, files, crashes, torn>>

(* The device URI names no endpoint, or the file that is there cannot be   *)
(* read at all: the call fails before anything is known of the device.     *)
LookFails(c) ==
  /\ job[c].step = "look"
  /\ Becomes(c, "failed", None)
  /\ UNCHANGED <<root, layout, files, crashes, torn>>

(* Mutant: what was read until the failure is kept.                        *)
IntrospectPartly(c) ==
  /\ job[c].step = "read"
  /\ Becomes(c, IF root = "none" THEN "got" ELSE "persist",
             [job[c].descr EXCEPT !.text = "cut"])
  /\ UNCHANGED <<root, layout, files, crashes, torn>>

(* A read fails, the signature or a feature is unknown: nothing is kept.   *)
IntrospectFails(c) ==
  /\ job[c].step \in {"introspect", "read"}
  /\ Becomes(c, "failed", None)
  /\ UNCHANGED <<root, layout, files, crashes, torn>>

CutOff(d) == [d EXCEPT !.text = "cut"]

(* persist_device_config: the directory, then fs::write, which truncates,  *)
(* also what another client has just begun to write.                       *)
Persist(c) ==
  LET p == Path(job[c].device) IN
  /\ job[c].step = "persist"
  /\ Becomes(c, "write", job[c].descr)
  /\ files' = [files EXCEPT ![p] = CutOff(job[c].descr)]
  /\ torn' = IF Writing(p) = {} THEN torn \ {p} ELSE torn \cup {p}
  /\ UNCHANGED <<root, layout, crashes>>

(* The directory cannot be made or the file not opened: the call fails and *)
(* an old text stays.                                                      *)
PersistFails(c) ==
  /\ job[c].step = "persist"
  /\ Becomes(c, "failed", None)
  /\ UNCHANGED <<root, layout, files, crashes, torn>>

(* ... and writes.  Two texts written over each other need not be one.     *)
Written(c) ==
  LET p == Path(job[c].device) IN
  /\ job[c].step = "write"
  /\ Becomes(c, "got", job[c].descr)
  /\ \E d \in {job[c].descr} \cup
              (IF p \in torn THEN {CutOff(job[c].descr)} ELSE {}) :
       files' = [files EXCEPT ![p] = d]
  /\ UNCHANGED <<root, layout, crashes, torn>>

(* The client dies, or its disk is full: the text stays as far as it got.  *)
CutShort(c) ==
  /\ job[c].step = "write" /\ crashes < MaxCrashes
  /\ crashes' = crashes + 1
  /\ torn' = torn \cup {Path(job[c].device)}
  /\ \E s \in {"failed", "dead"} : Becomes(c, s, None)
  /\ UNCHANGED <<root, layout, files>>

(* External: a device comes back with another register layout.             *)
Relayout(d) ==
  /\ layout[d] < MaxLayouts
  /\ layout' = [layout EXCEPT ![d] = @ + 1]
  /\ UNCHANGED <<root, files, job, crashes, torn>>

Describing(c) ==
  \/ Look(c) \/ Introspect(c) \/ Introspected(c) \/ Persist(c) \/ Written(c)
  \/ LookFails(c) \/ IntrospectFails(c) \/ PersistFails(c)

---------------------------------------------------------------------------
(* A client holds the description of its own device, whole and in one of   *)
(* its layouts, with three exceptions, each of which the code lets happen: *)
(* another device's, where one file serves all of them; a text cut off,    *)
(* read while somebody wrote it or after a write was cut short or written  *)
(* over; a mixture, once a device has changed its layout.                  *)
SoundFor(c) ==
  LET d == job[c].descr IN
  job[c].step \in {"got", "unreadable"} =>
    /\ d.device # job[c].device => root = "file"
    /\ d.text = "cut" => job[c].excused
    /\ d.text = "mixed" => layout[d.device] > 1
=============================================================================

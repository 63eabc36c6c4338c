--------------------------- MODULE RegisterFields ---------------------------
(***************************************************************************)
(* Several controllers write one register of a device: eevid's reg-write,  *)
(* field-write, stream-stop and stream-start commands, each a call of      *)
(* DeviceController that ends in write_register_u32 or                     *)
(* write_register_fields.  A word is the set of its bits that are 1; a     *)
(* register access is one request that is answered, or that fails with the *)
(* request served or not.  The register is one the device stores as        *)
(* written, as MaxPacketSize.                                              *)
(***************************************************************************)
EXTENDS Naturals

CONSTANTS
  Width,       \* bits of a register (32)
  Fields,      \* the fields of the register
  Layout,      \* Layout[f]: the most significant bit and the length of f
  Controllers, \* processes that write the register
  Commands,    \* what they are asked: [values: set of field |-> word]
               \* or [word: a word]
  MaxCommands, \* bound: commands in one behaviour
  None

Bits == 0 .. Width - 1
Word == SUBSET Bits

(* field_mask; the definitions it rejects do not occur in the catalog.     *)
Shift(f) == Layout[f].msb + 1 - Layout[f].len

MaskOf(f) == Shift(f) .. Layout[f].msb

ASSUME WidthAssumption == Width \in Nat \ {0}
ASSUME LayoutAssumption ==
  /\ Layout \in [Fields -> [msb: Bits, len: Nat \ {0}]]
  /\ \A f \in Fields : Layout[f].len <= Layout[f].msb + 1
  /\ \A f, g \in Fields : f # g => MaskOf(f) \cap MaskOf(g) = {}
ASSUME CommandsAssumption ==
  /\ None \notin Commands
  /\ \A cmd \in Commands :
       cmd.kind = "fields" \/ (cmd.kind = "word" /\ cmd.word \in Word)

VARIABLES
  register, \* the device's register
  task,     \* per controller: its command, or None
  step,     \* the access it does next: read, write or check
  out,      \* write_value
  result,   \* what its last command returned
  commands, \* commands so far (bound)
  asked,    \* history: the value last written to each field on purpose
  given,    \* history: the values any command gave to each field
  stale,    \* history: the register was written since the controller read it
  raced     \* history: a stale word was written

history == <<asked, given, stale, raced>>
vars == <<register, task, step, out, result, commands, history>>

(* extract_field                                                           *)
Extract(word, f) == {b - Shift(f) : b \in word \cap MaskOf(f)}

(* field.value << shift                                                    *)
Placed(value, f) == {b + Shift(f) : b \in value}

Named(cmd) == DOMAIN cmd.values

WriteValue(cmd) == UNION {Placed(cmd.values[f], f) : f \in Named(cmd)}
MaskValue(cmd) == UNION {MaskOf(f) : f \in Named(cmd)}

(* The bits a command is asked to set.                                     *)
Wanted(cmd, f) == IF cmd.kind = "word" THEN Extract(cmd.word, f)
                  ELSE cmd.values[f]

Concerns(cmd, f) == cmd.kind = "word" \/ f \in Named(cmd)

Init ==
  /\ register \in {{}, Bits}
  /\ task = [c \in Controllers |-> None]
  /\ step = [c \in Controllers |-> "read"]
  /\ out = [c \in Controllers |-> {}]
  /\ result = [c \in Controllers |-> "none"]
  /\ commands = 0
  /\ asked = [f \in Fields |-> Extract(register, f)]
  /\ given = [f \in Fields |-> {Extract(register, f)}]
  /\ stale = [c \in Controllers |-> FALSE]
  /\ raced = FALSE

---------------------------------------------------------------------------
(* Mutant: the value is not compared with the width of its field.          *)
AcceptableField(cmd) ==
  cmd.kind = "fields" => Named(cmd) # {} /\ Named(cmd) \subseteq Fields

(* write_register_fields refuses an empty list, a field the register does  *)
(* not define, and a value that exceeds its field.                         *)
Acceptable(cmd) ==
  cmd.kind = "fields" =>
    /\ Named(cmd) # {} /\ Named(cmd) \subseteq Fields
    /\ \A f \in Named(cmd) : cmd.values[f] \subseteq 0 .. Layout[f].len - 1

(* A word, or all fields of the register, need no read.                    *)
FirstStep(cmd) ==
  IF cmd.kind = "fields" /\ Named(cmd) # Fields THEN "read" ELSE "write"

Begin(c, cmd) ==
  /\ task[c] = None /\ commands < MaxCommands
  /\ commands' = commands + 1
  /\ IF Acceptable(cmd)
     THEN /\ task' = [task EXCEPT ![c] = cmd]
          /\ step' = [step EXCEPT ![c] = FirstStep(cmd)]
          /\ out' = [out EXCEPT ![c] = IF cmd.kind = "word" THEN cmd.word
                                       ELSE WriteValue(cmd)]
          /\ result' = [result EXCEPT ![c] = "pending"]
     ELSE /\ result' = [result EXCEPT ![c] = "refused"]
          /\ UNCHANGED <<task, step, out>>
  /\ stale' = [stale EXCEPT ![c] = FALSE]
  /\ UNCHANGED <<register, asked, given, raced>>

(* Mutant: the value is merged in without clearing the field first.        *)
Ored(current, word, mask) == current \cup word

(* (current & !mask_value) | (write_value & mask_value)                    *)
Merged(current, word, mask) == (current \ mask) \cup (word \cap mask)

Read(c) ==
  /\ task[c] # None /\ step[c] = "read"
  /\ out' = [out EXCEPT ![c] = Merged(register, @, MaskValue(task[c]))]
  /\ step' = [step EXCEPT ![c] = "write"]
  /\ stale' = [stale EXCEPT ![c] = FALSE]
  /\ UNCHANGED <<register, task, result, commands, asked, given, raced>>

(* The device stores the word.                                             *)
Stored(c) ==
  /\ register' = out[c]
  /\ asked' = [f \in Fields |-> IF Concerns(task[c], f) THEN Wanted(task[c], f)
                                ELSE asked[f]]
  /\ given' = [f \in Fields |-> given[f] \cup {asked'[f]}]
  /\ stale' = [d \in Controllers |-> d # c \/ stale[d]]
  /\ raced' = (raced \/ (stale[c] /\ FirstStep(task[c]) = "read"))

Write(c) ==
  /\ task[c] # None /\ step[c] = "write"
  /\ Stored(c)
  /\ step' = [step EXCEPT ![c] = "check"]
  /\ UNCHANGED <<task, out, result, commands>>

Return(c, r) ==
  /\ task' = [task EXCEPT ![c] = None]
  /\ result' = [result EXCEPT ![c] = r]
  /\ UNCHANGED <<step, out, commands>>

(* Mutant: the whole word is compared, not the fields that were set.       *)
WholeApplied(c) ==
  register = IF task[c].kind = "word" THEN out[c] ELSE WriteValue(task[c])

(* What is read back is compared, of a field command only the fields.      *)
Applied(c) ==
  IF task[c].kind = "word" THEN register = out[c]
  ELSE \A f \in Named(task[c]) : Extract(register, f) = task[c].values[f]

Check(c) ==
  /\ task[c] # None /\ step[c] = "check"
  /\ Return(c, IF Applied(c) THEN "ok" ELSE "mismatch")
  /\ UNCHANGED <<register, history>>

(* No answer arrives: the request was not served, or only its answer lost. *)
AccessFails(c) ==
  /\ task[c] # None
  /\ Return(c, "timeout")
  /\ \/ UNCHANGED <<register, history>>
     \/ step[c] = "write" /\ Stored(c)

Next ==
  \E c \in Controllers :
    \/ \E cmd \in Commands : Begin(c, cmd)
    \/ Read(c) \/ Write(c) \/ Check(c) \/ AccessFails(c)

Spec == Init /\ [][Next]_vars

---------------------------------------------------------------------------
(* Properties                                                              *)

(* Every variable keeps its type.                                          *)
TypeOK ==
  /\ register \in Word
  /\ task \in [Controllers -> Commands \cup {None}]
  /\ step \in [Controllers -> {"read", "write", "check"}]
  /\ out \in [Controllers -> Word]
  /\ result \in [Controllers -> {"none", "pending", "refused", "ok",
                                 "mismatch", "timeout"}]
  /\ commands \in Nat
  /\ \A f \in Fields : asked[f] \in given[f]
  /\ stale \in [Controllers -> BOOLEAN] /\ raced \in BOOLEAN

(* A field is what the last command that named it made it, whatever other  *)
(* fields were written and whatever failed: an update is lost only if a    *)
(* controller wrote back a word that was written since it had read it      *)
(* (write_register_fields, which takes no lock).                           *)
LostUpdateNeedsRace ==
  ~raced => \A f \in Fields : Extract(register, f) = asked[f]

(* Even in a race a field is never a mixture: it holds a value some        *)
(* command, or the device at first, gave to it.                            *)
FieldsWhole ==
  \A f \in Fields : Extract(register, f) \in given[f]

(* A command that nobody interfered with does not return a mismatch, and   *)
(* one that does was overtaken by another.                                 *)
MismatchNeedsRace ==
  \A c \in Controllers : result[c] = "mismatch" => stale[c]
=============================================================================

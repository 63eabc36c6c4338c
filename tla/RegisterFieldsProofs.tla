------------------------ MODULE RegisterFieldsProofs ------------------------
(***************************************************************************)
(* Proofs about RegisterFields, for every width, layout of fields, set of  *)
(* commands and number of controllers.                                     *)
(***************************************************************************)
EXTENDS RegisterFields, TLAPS

(* A mask lies within the register, and field values fit in it.            *)
LEMMA MaskFacts ==
  ASSUME NEW f \in Fields
  PROVE  /\ Shift(f) \in Nat /\ Layout[f].msb \in Nat /\ Layout[f].len \in Nat
         /\ Layout[f].msb < Width /\ Width \in Nat
         /\ Layout[f].msb + 1 = Shift(f) + Layout[f].len
         /\ MaskOf(f) = Shift(f) .. Layout[f].msb
         /\ MaskOf(f) \subseteq Bits
BY WidthAssumption, LayoutAssumption DEF Shift, MaskOf, Bits

(* Of a value that is placed in its field the field reads the value.       *)
LEMMA ExtractPlaced ==
  ASSUME NEW f \in Fields, NEW v \in SUBSET (0 .. Layout[f].len - 1)
  PROVE  /\ Placed(v, f) \subseteq MaskOf(f)
         /\ Extract(Placed(v, f), f) = v
<1>1. \A b \in v : b \in Nat /\ b + Shift(f) \in MaskOf(f)
  BY MaskFacts
<1>2. Placed(v, f) \subseteq MaskOf(f)
  BY <1>1 DEF Placed
<1>3. \A b \in v : (b + Shift(f)) - Shift(f) = b
  BY <1>1, MaskFacts
<1> QED
  BY <1>2, <1>3, <1>1 DEF Placed, Extract

(* A field depends on its own bits only.                                   *)
LEMMA ExtractSame ==
  ASSUME NEW f \in Fields, NEW u, NEW w, u \cap MaskOf(f) = w \cap MaskOf(f)
  PROVE  Extract(u, f) = Extract(w, f)
BY DEF Extract

(* write_value and mask_value of an acceptable list of fields: the mask    *)
(* covers the named fields and no other, and each named field reads as     *)
(* its value.                                                              *)
LEMMA ValueFacts ==
  ASSUME NEW cmd, cmd.kind = "fields", Acceptable(cmd)
  PROVE  /\ WriteValue(cmd) \in Word
         /\ \A f \in Named(cmd) :
              /\ f \in Fields
              /\ MaskOf(f) \subseteq MaskValue(cmd)
              /\ Extract(WriteValue(cmd), f) = cmd.values[f]
         /\ \A f \in Fields \ Named(cmd) : MaskOf(f) \cap MaskValue(cmd) = {}
<1>1. \A f \in Named(cmd) :
        /\ f \in Fields /\ cmd.values[f] \in SUBSET (0 .. Layout[f].len - 1)
  BY DEF Acceptable
<1>2. \A f \in Named(cmd) : MaskOf(f) \subseteq MaskValue(cmd)
  BY DEF MaskValue
<1>3. \A f \in Named(cmd) : Placed(cmd.values[f], f) \subseteq MaskOf(f)
  BY <1>1, ExtractPlaced
<1>4. WriteValue(cmd) \in Word
  BY <1>1, <1>3, MaskFacts DEF WriteValue, Word
<1>5. ASSUME NEW f \in Named(cmd)
      PROVE  Extract(WriteValue(cmd), f) = cmd.values[f]
  <2>1. \A g \in Named(cmd) :
          g # f => Placed(cmd.values[g], g) \cap MaskOf(f) = {}
    BY <1>1, <1>3, LayoutAssumption
  <2>2. WriteValue(cmd) \cap MaskOf(f) = Placed(cmd.values[f], f) \cap MaskOf(f)
    BY <2>1 DEF WriteValue
  <2> QED
    BY <1>1, <2>2, ExtractSame, ExtractPlaced
<1>6. ASSUME NEW f \in Fields \ Named(cmd)
      PROVE  MaskOf(f) \cap MaskValue(cmd) = {}
  BY <1>1, LayoutAssumption DEF MaskValue
<1> QED
  BY <1>1, <1>2, <1>4, <1>5, <1>6

(* The merge gives the named fields their values and keeps the others.     *)
LEMMA MergedFacts ==
  ASSUME NEW cmd, cmd.kind = "fields", Acceptable(cmd), NEW w \in Word,
         NEW u \in Word,
         \A f \in Named(cmd) : Extract(u, f) = cmd.values[f]
  PROVE  LET m == Merged(w, u, MaskValue(cmd)) IN
         /\ m \in Word
         /\ \A f \in Named(cmd) : Extract(m, f) = cmd.values[f]
         /\ \A f \in Fields \ Named(cmd) : Extract(m, f) = Extract(w, f)
<1> DEFINE m == Merged(w, u, MaskValue(cmd))
<1>1. m \in Word
  BY DEF Merged, Word
<1>2. ASSUME NEW f \in Named(cmd) PROVE Extract(m, f) = cmd.values[f]
  <2>1. f \in Fields /\ MaskOf(f) \subseteq MaskValue(cmd)
    BY ValueFacts
  <2>2. m \cap MaskOf(f) = u \cap MaskOf(f)
    BY <2>1 DEF Merged
  <2> HIDE DEF m
  <2> QED
    BY <2>1, <2>2, ExtractSame
<1>3. ASSUME NEW f \in Fields \ Named(cmd)
      PROVE  Extract(m, f) = Extract(w, f)
  <2>1. m \cap MaskOf(f) = w \cap MaskOf(f)
    BY ValueFacts DEF Merged
  <2> HIDE DEF m
  <2> QED
    BY <2>1, ExtractSame
<1> QED
  BY <1>1, <1>2, <1>3

---------------------------------------------------------------------------
(* What holds of a controller between its accesses: its word carries what  *)
(* it was asked to set; the other fields of a word it is about to write    *)
(* are ones the register held, and still holds if nobody wrote since; and  *)
(* a word it has written is the register if nobody wrote since.            *)
Carries(c) ==
  \A f \in Fields :
    Concerns(task[c], f) => Extract(out[c], f) = Wanted(task[c], f)

Keeps(c) ==
  \A f \in Fields :
    ~Concerns(task[c], f) =>
      /\ Extract(out[c], f) \in given[f]
      /\ ~stale[c] => Extract(out[c], f) = Extract(register, f)

Busy(c) ==
  /\ task[c] \in Commands /\ Acceptable(task[c]) /\ result[c] = "pending"
  /\ step[c] = "read" => FirstStep(task[c]) = "read"
  /\ Carries(c)
  /\ step[c] = "write" => Keeps(c)
  /\ step[c] = "check" /\ ~stale[c] => register = out[c]

RegisterInv ==
  /\ TypeOK
  /\ LostUpdateNeedsRace
  /\ FieldsWhole
  /\ MismatchNeedsRace
  /\ \A c \in Controllers : task[c] # None => Busy(c)

(* The register and every controller start with nothing asked.             *)
LEMMA InitInv ==
  ASSUME Init PROVE RegisterInv
BY CommandsAssumption
   DEF Init, RegisterInv, TypeOK, LostUpdateNeedsRace, FieldsWhole,
       MismatchNeedsRace, Word

(* A command that is accepted starts with the word it asks for.            *)
LEMMA BeginInv ==
  ASSUME RegisterInv, NEW c \in Controllers, NEW cmd \in Commands,
         Begin(c, cmd)
  PROVE  RegisterInv'
<1> USE DEF RegisterInv, Begin
<1>1. TypeOK'
  <2>1. ASSUME Acceptable(cmd)
        PROVE  (IF cmd.kind = "word" THEN cmd.word ELSE WriteValue(cmd)) \in Word
    BY <2>1, CommandsAssumption, ValueFacts
  <2>2. FirstStep(cmd) \in {"read", "write"}
    BY DEF FirstStep
  <2> QED
    BY <2>1, <2>2 DEF TypeOK
<1>2. LostUpdateNeedsRace' /\ FieldsWhole'
  BY DEF LostUpdateNeedsRace, FieldsWhole
<1>3. MismatchNeedsRace'
  BY DEF MismatchNeedsRace, TypeOK
<1>4. ASSUME NEW d \in Controllers, task'[d] # None, d # c PROVE Busy(d)'
  BY <1>4 DEF TypeOK, Busy, Carries, Keeps
<1>5. ASSUME task'[c] # None PROVE Busy(c)'
  <2>1. Acceptable(cmd)
    BY <1>5
  <2>2. /\ task'[c] = cmd /\ step'[c] = FirstStep(cmd)
        /\ out'[c] = IF cmd.kind = "word" THEN cmd.word ELSE WriteValue(cmd)
        /\ result'[c] = "pending"
    BY <2>1 DEF TypeOK
  <2>3. Carries(c)'
    BY <2>1, <2>2, ValueFacts, CommandsAssumption DEF Carries, Concerns, Wanted
  <2>4. step'[c] = "write" => \A f \in Fields : Concerns(cmd, f)
    BY <2>2, CommandsAssumption DEF FirstStep, Concerns
  <2>5. Keeps(c)' \/ step'[c] = "read"
    BY <2>2, <2>4 DEF Keeps, FirstStep
  <2> QED
    BY <2>1, <2>2, <2>3, <2>5 DEF Busy, FirstStep
<1> QED
  BY <1>1, <1>2, <1>3, <1>4, <1>5

(* The read merges what the register holds around what is asked for.       *)
LEMMA ReadInv ==
  ASSUME RegisterInv, NEW c \in Controllers, Read(c)
  PROVE  RegisterInv'
<1> USE DEF RegisterInv, Read
<1>1. /\ Busy(c) /\ task[c].kind = "fields" /\ Acceptable(task[c])
      /\ \A f \in Named(task[c]) :
           f \in Fields /\ Extract(out[c], f) = task[c].values[f]
  <2>1. Busy(c) /\ FirstStep(task[c]) = "read"
    BY DEF Busy
  <2>2. task[c].kind = "fields" /\ Acceptable(task[c])
    BY <2>1 DEF Busy, FirstStep
  <2> QED
    BY <2>1, <2>2, ValueFacts DEF Busy, Carries, Concerns, Wanted
<1>2. /\ out'[c] = Merged(register, out[c], MaskValue(task[c]))
      /\ step'[c] = "write" /\ stale'[c] = FALSE
  BY DEF TypeOK
<1>3. /\ out'[c] \in Word
      /\ \A f \in Named(task[c]) : Extract(out'[c], f) = task[c].values[f]
      /\ \A f \in Fields \ Named(task[c]) :
           Extract(out'[c], f) = Extract(register, f)
  BY <1>1, <1>2, MergedFacts DEF TypeOK
<1>4. TypeOK'
  BY <1>2, <1>3 DEF TypeOK
<1>5. LostUpdateNeedsRace' /\ FieldsWhole'
  BY DEF LostUpdateNeedsRace, FieldsWhole
<1>6. MismatchNeedsRace'
  BY <1>1 DEF MismatchNeedsRace, TypeOK, Busy
<1>7. ASSUME NEW d \in Controllers, task'[d] # None, d # c PROVE Busy(d)'
  BY <1>7 DEF TypeOK, Busy, Carries, Keeps
<1>8. Busy(c)'
  <2>1. Carries(c)'
    BY <1>1, <1>3 DEF Carries, Concerns, Wanted
  <2>2. Keeps(c)'
    BY <1>1, <1>3 DEF Keeps, Concerns, FieldsWhole
  <2> QED
    BY <1>1, <1>2, <2>1, <2>2 DEF Busy
<1> QED
  BY <1>4, <1>5, <1>6, <1>7, <1>8

(* The word that is stored sets what its command concerns, and takes       *)
(* nothing else back unless the register was written since it was read.    *)
LEMMA StoredFacts ==
  ASSUME RegisterInv, NEW c \in Controllers, task[c] # None,
         step[c] = "write", Stored(c)
  PROVE  /\ LostUpdateNeedsRace' /\ FieldsWhole'
         /\ register' \in Word /\ raced' \in BOOLEAN
         /\ stale' \in [Controllers -> BOOLEAN]
         /\ \A f \in Fields : asked'[f] \in given'[f] /\ given[f] \subseteq given'[f]
<1> USE DEF RegisterInv, Stored
<1>1. Busy(c) /\ Carries(c) /\ Keeps(c)
  BY DEF Busy
<1>2. \A f \in Fields :
        /\ asked'[f] = IF Concerns(task[c], f) THEN Wanted(task[c], f)
                       ELSE asked[f]
        /\ given'[f] = given[f] \cup {asked'[f]}
  OBVIOUS
<1>3. FieldsWhole'
  BY <1>1, <1>2 DEF FieldsWhole, Carries, Keeps
<1>4. ASSUME ~raced', NEW f \in Fields PROVE Extract(register', f) = asked'[f]
  <2>1. CASE Concerns(task[c], f)
    BY <1>1, <1>2, <2>1 DEF Carries
  <2>2. CASE ~Concerns(task[c], f)
    <3>1. ~raced /\ ~stale[c]
      BY <1>1, <1>4, <2>2, CommandsAssumption DEF Busy, Concerns, FirstStep
    <3> QED
      BY <1>1, <1>2, <2>2, <3>1 DEF Keeps, LostUpdateNeedsRace
  <2> QED
    BY <2>1, <2>2
<1> QED
  BY <1>2, <1>3, <1>4 DEF LostUpdateNeedsRace, TypeOK, FirstStep

(* The other controllers' words become stale.                              *)
LEMMA StoredOthers ==
  ASSUME RegisterInv, NEW c \in Controllers, task[c] # None,
         step[c] = "write", Stored(c),
         NEW d \in Controllers, d # c, task[d] # None,
         task'[d] = task[d], step'[d] = step[d], out'[d] = out[d],
         result'[d] = result[d]
  PROVE  Busy(d)'
<1>1. stale'[d] = TRUE
  BY DEF Stored
<1>2. \A f \in Fields : given[f] \subseteq given'[f]
  BY StoredFacts
<1>3. Busy(d)
  BY DEF RegisterInv
<1> QED
  BY <1>1, <1>2, <1>3 DEF Busy, Carries, Keeps

(* A write that is answered.                                               *)
LEMMA WriteInv ==
  ASSUME RegisterInv, NEW c \in Controllers, Write(c)
  PROVE  RegisterInv'
<1> USE DEF RegisterInv, Write
<1>1. step'[c] = "check" /\ \A d \in Controllers : d # c => step'[d] = step[d]
  BY DEF TypeOK
<1>2. TypeOK' /\ LostUpdateNeedsRace' /\ FieldsWhole'
  BY StoredFacts DEF TypeOK
<1>3. \A d \in Controllers : stale'[d] = (d # c \/ stale[d])
  BY DEF Stored
<1>4. MismatchNeedsRace'
  BY <1>3 DEF MismatchNeedsRace
<1>5. ASSUME NEW d \in Controllers, task'[d] # None, d # c PROVE Busy(d)'
  BY <1>1, <1>5, StoredOthers
<1>6. Busy(c)'
  <2>1. Busy(c) /\ Carries(c)'
    BY DEF Busy, Carries
  <2>2. register' = out'[c]
    BY DEF Stored
  <2> QED
    BY <1>1, <2>1, <2>2 DEF Busy
<1> QED
  BY <1>2, <1>4, <1>5, <1>6

(* What is read back agrees unless the register was written since.         *)
LEMMA CheckInv ==
  ASSUME RegisterInv, NEW c \in Controllers, Check(c)
  PROVE  RegisterInv'
<1> USE DEF RegisterInv, Check, Return, history
<1>1. Busy(c)
  OBVIOUS
<1>2. ~stale[c] => Applied(c)
  <2>1. SUFFICES ASSUME ~stale[c] PROVE Applied(c)
    OBVIOUS
  <2>2. register = out[c]
    BY <1>1, <2>1 DEF Busy
  <2>3. CASE task[c].kind = "fields"
    <3>1. \A f \in Named(task[c]) : f \in Fields
      BY <1>1, <2>3 DEF Busy, Acceptable
    <3> QED
      BY <1>1, <2>2, <2>3, <3>1 DEF Applied, Busy, Carries, Concerns, Wanted
  <2>4. CASE task[c].kind # "fields"
    BY <1>1, <2>2, <2>4, CommandsAssumption DEF Busy, Applied
  <2> QED
    BY <2>3, <2>4
<1>3. TypeOK'
  BY DEF TypeOK
<1>4. LostUpdateNeedsRace' /\ FieldsWhole'
  BY DEF LostUpdateNeedsRace, FieldsWhole
<1>5. MismatchNeedsRace'
  BY <1>2 DEF MismatchNeedsRace, TypeOK
<1>6. ASSUME NEW d \in Controllers, task'[d] # None PROVE Busy(d)'
  <2>1. d # c
    BY <1>6 DEF TypeOK
  <2> QED
    BY <1>6, <2>1 DEF TypeOK, Busy, Carries, Keeps
<1> QED
  BY <1>3, <1>4, <1>5, <1>6

(* An access that fails has stored the word, or nothing.                   *)
LEMMA AccessFailsInv ==
  ASSUME RegisterInv, NEW c \in Controllers, AccessFails(c)
  PROVE  RegisterInv'
<1> USE DEF RegisterInv, AccessFails, Return
<1>1. /\ task'[c] = None /\ result'[c] = "timeout"
      /\ \A d \in Controllers : d # c =>
           task'[d] = task[d] /\ result'[d] = result[d]
      /\ step' = step /\ out' = out
  BY DEF TypeOK
<1>2. CASE UNCHANGED <<register, history>>
  <2>1. TypeOK' /\ LostUpdateNeedsRace' /\ FieldsWhole' /\ MismatchNeedsRace'
    BY <1>1, <1>2
       DEF TypeOK, history, LostUpdateNeedsRace, FieldsWhole, MismatchNeedsRace
  <2> QED
    BY <1>1, <1>2, <2>1 DEF history, Busy, Carries, Keeps
<1>3. CASE step[c] = "write" /\ Stored(c)
  <2>1. TypeOK' /\ LostUpdateNeedsRace' /\ FieldsWhole'
    BY <1>1, <1>3, StoredFacts DEF TypeOK
  <2>2. \A d \in Controllers : stale'[d] = (d # c \/ stale[d])
    BY <1>3 DEF Stored
  <2>3. MismatchNeedsRace'
    BY <1>1, <2>2 DEF MismatchNeedsRace
  <2>4. ASSUME NEW d \in Controllers, task'[d] # None PROVE Busy(d)'
    <3>1. d # c /\ task[d] # None
      BY <1>1, <2>4
    <3> QED
      BY <1>1, <1>3, <3>1, StoredOthers
  <2> QED
    BY <2>1, <2>3, <2>4
<1> QED
  BY <1>2, <1>3

(* The invariant is inductive.                                             *)
LEMMA RegisterStep ==
  ASSUME RegisterInv, [Next]_vars
  PROVE  RegisterInv'
<1>1. CASE UNCHANGED vars
  BY <1>1
     DEF vars, history, RegisterInv, TypeOK, LostUpdateNeedsRace, FieldsWhole,
         MismatchNeedsRace, Busy, Carries, Keeps
<1>2. CASE Next
  BY <1>2, BeginInv, ReadInv, WriteInv, CheckInv, AccessFailsInv DEF Next
<1> QED
  BY <1>1, <1>2

(* The invariant holds of every behaviour.                                 *)
LEMMA RegisterInvariant ==
  Spec => []RegisterInv
BY InitInv, RegisterStep, PTL DEF Spec

(* Every variable keeps its type, whatever the layout, the commands and    *)
(* the number of controllers.                                              *)
THEOREM Typing ==
  Spec => []TypeOK
<1>1. RegisterInv => TypeOK
  BY DEF RegisterInv
<1> QED
  BY <1>1, RegisterInvariant, PTL

(* write_register_fields loses an update only by writing back a word that  *)
(* was written since it was read: failures alone never lose one.           *)
THEOREM LostUpdates ==
  Spec => []LostUpdateNeedsRace
<1>1. RegisterInv => LostUpdateNeedsRace
  BY DEF RegisterInv
<1> QED
  BY <1>1, RegisterInvariant, PTL

(* Even in a race no field is a mixture of the bits of two commands.       *)
THEOREM WholeFields ==
  Spec => []FieldsWhole
<1>1. RegisterInv => FieldsWhole
  BY DEF RegisterInv
<1> QED
  BY <1>1, RegisterInvariant, PTL

(* The comparison of write_register_fields never blames a command that     *)
(* nobody interfered with.                                                 *)
THEOREM Mismatches ==
  Spec => []MismatchNeedsRace
<1>1. RegisterInv => MismatchNeedsRace
  BY DEF RegisterInv
<1> QED
  BY <1>1, RegisterInvariant, PTL
=============================================================================

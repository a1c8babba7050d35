------------------------------ MODULE SvmForms ------------------------------
(***************************************************************************)
(* A section of an SVM preset on its way through the editor: from the file *)
(* to the settings (src/src/svm/mod.rs), from there to the form            *)
(* (src/templates/svm/partials/section.html), through the browser          *)
(* (src/src/assets/svm-form.js) and back (src/src/web/handlers/svm.rs).    *)
(* The form posts the whole section: what it does not show, or shows in a  *)
(* way it cannot read back, is lost.  Who saves when, under which preset,  *)
(* is in GameServer.  Here one administrator has a form open while the     *)
(* preset is replaced, and of each preset one setting is not the standard: *)
(* which one it is differs from behaviour to behaviour.                    *)
(***************************************************************************)
EXTENDS Naturals
LOCAL Tables == INSTANCE SvmTables

CONSTANTS
  OtherSections, \* those that are opened also when the setting is not in them
  NoForm         \* no form is open

VARIABLES
  focus,     \* the setting that differs: [section, path, type, missing]
  preset,    \* what the file says of it: a value, or missing
  svmConf,   \* its value in memory
  form       \* the open form: [section, text, typed], or NoForm

formVars == <<focus, preset, svmConf, form>>

SettingsOf(s) == {[section |-> s, path |-> x.path, type |-> x.type, missing |-> x.missing] :
                  x \in Tables!ConfigSections[s]}
FormSections == DOMAIN Tables!ConfigSections
AllSettings == UNION {SettingsOf(s) : s \in FormSections}
FieldTable ==
  [x \in AllSettings |-> {f \in Tables!FieldsForSection[x.section] : f.path = x.path}]
FieldOf(x) == FieldTable[x]

\* The kinds of input a setting of each type is edited with.
EditedWith == [bool |-> {"Toggle"}, i32 |-> {"Integer"}, f64 |-> {"Float"},
               String |-> {"Text", "Textarea"}]
ASSUME FormsAssumption == OtherSections \subseteq FormSections

\* The two tables fit together: every setting has a field, of a kind for its type.  Of
\* the tables as they stand, so that an evaluation settles it.
ASSUME TablesFit ==
  \A x \in AllSettings :
    /\ x.type \in DOMAIN EditedWith /\ x.missing \in {"standard", "zero", "error"}
    /\ FieldOf(x) # {} /\ \A f \in FieldOf(x) : f.input \in EditedWith[x.type]

\* Of a number: nothing, a whole one, one with a fraction, one so small that it is written
\* with an exponent; and what parseInt makes of an exponent, its first digit.
FieldValues(type) ==
  CASE type = "bool" -> {"standard", "zero", "flipped"}
    [] type = "i32" -> {"standard", "zero", "whole", "digit"}
    [] type = "f64" -> {"standard", "zero", "whole", "fraction", "tiny", "digit"}
    [] type = "String" -> {"standard", "zero", "words"}

------------------------------------------------------------------------------
(* The file                                                                *)

\* load_preset_from_disk: a setting that is missing while its group is there.
Deserialize(x, says) ==
  IF says # "missing" THEN says ELSE x.missing

FormsInit ==
  /\ focus \in AllSettings
  /\ preset = "standard" /\ svmConf = "standard" /\ form = NoForm

\* Somebody replaces the preset; reload_from_disk takes it, unless it does not load.
ReplacePreset(says) ==
  /\ preset' = says
  /\ svmConf' = IF Deserialize(focus, says) = "error" THEN svmConf ELSE Deserialize(focus, says)
  /\ UNCHANGED <<focus, form>>

------------------------------------------------------------------------------
(* The browser                                                             *)

\* What an input of a kind holds of a value: a number is written with an exponent when
\* it is tiny (el.value = val), or when somebody writes it so.
Text(v, notation) == [is |-> v, notation |-> notation]
Shown(v) == Text(v, IF v = "tiny" THEN "exponent" ELSE "plain")

\* Constraint validation: step="1".  (Floats have step="any"; ranges are left out.)
Valid(input, text) == input = "Integer" => text.is \notin {"fraction", "tiny"}

\* Mutant: parseInt for every text.
ParseInt(text) ==
  CASE text.notation = "empty" \/ text.is \in {"fraction", "tiny"} -> "zero"
    [] text.notation = "exponent" /\ text.is \notin {"fraction", "tiny"} -> "digit"
    [] OTHER -> text.is

\* The number the script posts: nothing is zero; a text with a point is read by
\* parseFloat; any other by parseInt, which stops at the exponent.
ParseNumber(text) ==
  CASE text.notation = "empty" -> "zero"
    [] text.notation = "exponent" -> "digit"
    [] OTHER -> text.is

Posted(input, text) ==
  CASE input = "Toggle" -> [json |-> "bool", is |-> text.is]
    [] input \in {"Integer", "Float"} -> [json |-> "number", is |-> ParseNumber(text)]
    [] input \in {"Text", "Textarea"} -> [json |-> "string", is |-> text.is]

OpenForm(s) ==
  /\ form = NoForm
  /\ form' = [section |-> s, typed |-> FALSE,
              text |-> Shown(IF s = focus.section THEN svmConf ELSE "standard")]
  /\ UNCHANGED <<focus, preset, svmConf>>

\* What may be typed into a field: into an integer's also what the browser will refuse.
\* (Numbers of more than 32 bits are left out.)
Typings(input) ==
  CASE input = "Toggle" -> {Text(v, "plain") : v \in {"standard", "flipped"}}
    [] input \in {"Integer", "Float"} ->
         {Text(v, "plain") : v \in {"standard", "zero", "whole", "fraction", "tiny"}}
           \cup {Text("whole", "exponent"), Text("zero", "empty")}
    [] input \in {"Text", "Textarea"} -> {Text(v, "plain") : v \in {"standard", "zero", "words"}}
TypeIn(text) ==
  /\ form # NoForm /\ form.section = focus.section
  /\ form' = [form EXCEPT !.text = text, !.typed = TRUE]
  /\ UNCHANGED <<focus, preset, svmConf>>

CloseForm ==
  /\ form # NoForm /\ form' = NoForm
  /\ UNCHANGED <<focus, preset, svmConf>>

------------------------------------------------------------------------------
(* The save                                                                *)

\* serde refuses what is of another type.
Fits(type, posted) ==
  CASE type = "bool" -> posted.json = "bool"
    [] type = "i32" -> posted.json = "number" /\ posted.is \notin {"fraction", "tiny"}
    [] type = "f64" -> posted.json = "number"
    [] type = "String" -> posted.json = "string"

\* The browser lets the text through and the server takes it; without a field the setting
\* is missing from what is posted.
Taken(x, text) ==
  IF FieldOf(x) = {} THEN x.missing # "error"
  ELSE \A f \in FieldOf(x) : Valid(f.input, text) /\ Fits(x.type, Posted(f.input, text))
Received(x, text) ==
  IF FieldOf(x) = {} THEN {x.missing} ELSE {Posted(f.input, text).is : f \in FieldOf(x)}

\* The settings that do not differ, of every section.
StandardTaken ==
  [s \in FormSections |-> \A x \in SettingsOf(s) : Taken(x, Shown("standard"))]

CanSave == StandardTaken[form.section] /\ (form.section = focus.section => Taken(focus, form.text))

\* save_section takes a section as a whole, or refuses it; the file gets every setting.
SaveForm ==
  /\ form # NoForm /\ CanSave
  /\ svmConf' \in (IF form.section = focus.section THEN Received(focus, form.text) ELSE {svmConf})
  /\ preset' = svmConf' /\ form' = NoForm
  /\ UNCHANGED focus

FormsNext ==
  \/ \E says \in (FieldValues(focus.type) \ {"digit"}) \cup {"missing"} : ReplacePreset(says)
  \/ \E s \in {focus.section} \cup OtherSections : OpenForm(s)
  \/ \E text \in UNION {Typings(f.input) : f \in FieldOf(focus)} : TypeIn(text)
  \/ CloseForm \/ SaveForm

FormsSpec == FormsInit /\ [][FormsNext]_formVars

------------------------------------------------------------------------------
FormsTypeOK ==
  /\ focus \in AllSettings /\ svmConf \in FieldValues(focus.type)
  /\ preset \in FieldValues(focus.type) \cup {"missing"}
  /\ form # NoForm =>
       IF form.typed THEN \E f \in FieldOf(focus) : form.text \in Typings(f.input)
       ELSE form.text \in {Shown(v) : v \in FieldValues(focus.type)}

\* A form can be saved as it was opened, whatever the preset holds, and with whatever the
\* browser let somebody type; and a save changes what it was asked to, of all that the
\* preset holds: the setting is then what was typed, or what the form was opened with,
\* another section's is left alone, and a reload finds the same.  The exception is a
\* number with an exponent and no point.
LetThrough == ~form.typed \/ \A f \in FieldOf(focus) : Valid(f.input, form.text)
MeantValue ==
  IF form.section # focus.section THEN {svmConf}
  ELSE IF form.text.notation = "exponent" THEN {form.text.is, "digit"} ELSE {form.text.is}
FormsKeepSettings ==
  /\ [](form # NoForm /\ LetThrough => CanSave)
  /\ [][SaveForm => svmConf' \in MeantValue /\ Deserialize(focus, preset') = svmConf']_formVars
=============================================================================

-------------------------------- MODULE Notes --------------------------------
(***************************************************************************)
(* The notes of the dashboard: src/src/web/handlers/notes.rs on the table  *)
(* of src/src/db/notes.rs.  The middleware reads who the user is and what  *)
(* the user may do; the form is applied to the table later, in one         *)
(* critical section that reads the note again.  A form was filled in from  *)
(* a page, so it may be older than the note.  Of a note the model keeps    *)
(* who wrote it last; whether it is pinned goes the way of visibility.     *)
(***************************************************************************)
EXTENDS Naturals, FiniteSets

CONSTANTS
  Writers,   \* user ids
  NoteIds,   \* ids of notes: AUTOINCREMENT numbers them from 1
  NoNote     \* no row

VARIABLES
  notes,     \* id -> row, or NoNote
  nextNote,  \* the id the next note gets
  accounts,  \* the users there are
  forms      \* the handlers under way: admitted, and not yet at the table

noteVars == <<notes, nextNote, accounts, forms>>

Visibilities == {"private", "public_readonly", "public_editable"}
Note == [author : Writers, visibility : Visibilities, updatedBy : Writers \cup {NoNote}]

ASSUME NotesAssumption ==
  /\ IsFiniteSet(NoteIds) /\ NoteIds = 1..Cardinality(NoteIds)
  /\ NoNote \notin Writers /\ NoNote \notin Note

Rows == {n \in NoteIds : notes[n] # NoNote}

\* The page: one's own notes, and of the others' the public ones, or all.
MyNotes(u) == {n \in Rows : notes[n].author = u}
SharedNotes(u, manage) ==
  {n \in Rows \ MyNotes(u) : manage \/ notes[n].visibility # "private"}

NotesInit ==
  /\ notes = [n \in NoteIds |-> NoNote] /\ nextNote = 1
  /\ accounts = Writers
  /\ forms = {}

------------------------------------------------------------------------------
\* A form is sent from the page, with the rights the middleware finds: administrators
\* give and take them at any time.
SendNote(u, n, kind) ==
  /\ u \in accounts /\ Cardinality(forms) < 2
  /\ \E manage \in BOOLEAN, edit \in BOOLEAN, visibility \in Visibilities :
       /\ IF kind = "create" THEN n = nextNote ELSE n \in MyNotes(u) \cup SharedNotes(u, manage)
       /\ kind # "update" => ~edit
       /\ kind = "delete" => visibility = "private"
       /\ forms' = forms \cup {[by |-> u, note |-> n, kind |-> kind, visibility |-> visibility,
                                edit |-> edit, manage |-> manage]}
  /\ UNCHANGED <<notes, nextNote, accounts>>

\* The author of a note must still be there.
CreateNote(f) ==
  /\ f.kind = "create"
  /\ IF f.by \in accounts /\ nextNote \in NoteIds
     THEN /\ notes' = [notes EXCEPT ![nextNote] =
               [author |-> f.by, visibility |-> f.visibility, updatedBy |-> NoNote]]
          /\ nextNote' = nextNote + 1
     ELSE UNCHANGED <<notes, nextNote>>

CanEdit(f) ==
  \/ notes[f.note].author = f.by
  \/ notes[f.note].visibility = "public_editable" /\ f.edit

\* Of another's form only the text is taken.
SettingsOfForm(f) == f.visibility  \* Mutant.
FormSettings(f) == IF notes[f.note].author = f.by THEN f.visibility ELSE notes[f.note].visibility

UpdateNote(f) ==
  /\ f.kind = "update"
  /\ notes' = IF f.note \in Rows /\ f.by \in accounts /\ CanEdit(f)
              THEN [notes EXCEPT ![f.note] = [@ EXCEPT !.visibility = FormSettings(f), !.updatedBy = f.by]]
              ELSE notes
  /\ UNCHANGED nextNote

DeleteNote(f) ==
  /\ f.kind = "delete"
  /\ notes' = IF f.note \in Rows /\ (notes[f.note].author = f.by \/ f.manage)
              THEN [notes EXCEPT ![f.note] = NoNote] ELSE notes
  /\ UNCHANGED nextNote

ApplyForm(f) ==
  /\ forms' = forms \ {f}
  /\ CreateNote(f) \/ UpdateNote(f) \/ DeleteNote(f)
  /\ UNCHANGED accounts

\* An account goes only when no note names it: the keys have no ON DELETE.
RemoveWriter(u) ==
  /\ u \in accounts /\ \A n \in Rows : u \notin {notes[n].author, notes[n].updatedBy}
  /\ accounts' = accounts \ {u}
  /\ UNCHANGED <<notes, nextNote, forms>>

NotesNext ==
  \/ \E u \in Writers, n \in NoteIds, kind \in {"create", "update", "delete"} : SendNote(u, n, kind)
  \/ \E f \in forms : ApplyForm(f)
  \/ \E u \in Writers : RemoveWriter(u)

NotesSpec == NotesInit /\ [][NotesNext]_noteVars

NotesTypeOK ==
  /\ notes \in [NoteIds -> Note \cup {NoNote}] /\ nextNote \in 1..(Cardinality(NoteIds) + 1)
  /\ \A n \in Rows : {notes[n].author, notes[n].updatedBy} \subseteq accounts \cup {NoNote}
  /\ accounts \subseteq Writers
  /\ \A f \in forms : f.by \in Writers /\ f.visibility \in Visibilities

------------------------------------------------------------------------------
\* Whatever forms are under way, and however old their pages are: who sees a note and
\* where it stands is its author's to say, a note that its author has closed for others
\* keeps the text it had then, and one that goes is its author's or goes by the hand of
\* someone who could manage notes when the form came in.
NoteObeys(n) ==
  IF notes'[n] = NoNote
  THEN \E f \in forms \ forms' : f.note = n /\ (f.by = notes[n].author \/ f.manage)
  ELSE \/ notes'[n] = notes[n] \/ notes'[n].updatedBy = notes[n].author
       \/ /\ notes[n].visibility = "public_editable"
          /\ \E f \in forms \ forms' : f.by = notes'[n].updatedBy /\ f.edit
          /\ notes'[n] = [notes[n] EXCEPT !.updatedBy = notes'[n].updatedBy]
NotesAreTheirAuthors == [][\A n \in Rows : NoteObeys(n)]_noteVars
=============================================================================

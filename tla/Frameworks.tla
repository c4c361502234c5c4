----------------------------- MODULE Frameworks -----------------------------
(***************************************************************************)
(* The versions of a framework (a set of controls to assess), held twice:  *)
(* as YAML files of the directory frameworks/ and as rows of the database. *)
(* The files are read into the rows at each start of the backend and on    *)
(* request; the editor of the application writes a row, then its file.     *)
(* An assessment refers to the controls of the version it was made with:   *)
(* the foreign keys refuse whatever deletes them.                          *)
(*                                                                         *)
(* A request is one transaction; the files it wrote stay when the backend  *)
(* stops before the commit. Left out: the effort of a control, which an    *)
(* update drops, is_active, which only lists read, and the frameworks of    *)
(* other names.                                                            *)
(***************************************************************************)
EXTENDS Naturals, Sequences, SequencesExt

CONSTANTS Versions,     \* the versions of the framework
          Contents,     \* what the controls of a version can be
          Shipped,      \* the name of the file that comes with the code
          Order,        \* the names of the files, in the order of sorted()
          MaxWrites     \* bound on the edits, of a file or of a row

VARIABLES file,     \* name -> the YAML file
          rows,     \* version -> the row of frameworks, with its controls
          assessed, \* the versions some assessment refers to
          phase,    \* "down", "up", or "dead": the last start failed
          settled,  \* nothing was written since a start that succeeded
          writes

libraryVars == <<file, rows, assessed, phase, settled, writes>>

\* A version is exported to a file of its own.
Names == {Shipped} \cup Versions

ASSUME NamesAssumption == Shipped \notin Versions
ASSUME OrderAssumption == Order \in Seq(Names) /\ ToSet(Order) = Names
ASSUME WritesAssumption == MaxWrites \in Nat

None == "none"

\* A file that is no YAML or has no name, and one with a wrong control in its
\* second category.
Wrong == {"unreadable", "broken"}

File == [version : Versions, content : Contents \cup {"partial"} \cup Wrong,
         by : {"hand", "export"}]

NoFile == [version |-> None]

Row == [content : Contents \cup {"partial"}, hash : File \cup {NoFile},
        source : Names \cup {None}, parent : Versions \cup {None}]

NoRow == [content |-> None]

Present(v) == rows[v] # NoRow

LibraryInit ==
  /\ file \in [Names -> {NoFile} \cup File]
  /\ \A n \in Names \ {Shipped} : file[n] = NoFile
  /\ file[Shipped] # NoFile => file[Shipped].by = "hand" /\ file[Shipped].content \in Contents
  /\ rows = [v \in Versions |-> NoRow]
  /\ assessed = {}
  /\ phase = "down"
  /\ settled = FALSE
  /\ writes = 0

-----------------------------------------------------------------------------
\* From the files to the rows.

\* The controls that get in: those before the wrong one.
Read(content) == IF content = "broken" THEN "partial" ELSE content

\* Mutant: an existing row keeps the hash it had.
ImportedKeepsHash(row, n, f) ==
  IF row = NoRow
  THEN [content |-> Read(f.content), hash |-> f, source |-> n, parent |-> None]
  ELSE [row EXCEPT !.content = Read(f.content), !.source = n]

\* The hash is recorded before the controls are read.
Imported(row, n, f) ==
  IF row = NoRow
  THEN [content |-> Read(f.content), hash |-> f, source |-> n, parent |-> None]
  ELSE [row EXCEPT !.content = Read(f.content), !.hash = f, !.source = n]

\* Mutant: the foreign key of the results does not hold.
RefusedNever(v) == FALSE

\* The controls of a version that is assessed cannot be deleted.
Refused(v) == v \in assessed

\* One file of the loop: an error is noted and the loop goes on, but after an
\* error of the database the session does nothing any more.
ImportFile(acc, n) ==
  LET f == file[n]
  IN  IF \/ acc.failed
         \/ f = NoFile
         \/ f.content = "unreadable"
         \/ acc.rows[f.version] # NoRow /\ acc.rows[f.version].hash = f
      THEN acc
      ELSE IF acc.rows[f.version] # NoRow /\ Refused(f.version)
      THEN [acc EXCEPT !.failed = TRUE]
      ELSE [acc EXCEPT !.rows[f.version] = Imported(@, n, f)]

NothingRead == [rows |-> rows, failed |-> FALSE]

\* The rows after the first i files, and whether the session failed.
ReadUpTo[i \in 0 .. Len(Order)] ==
  IF i = 0 THEN NothingRead ELSE ImportFile(ReadUpTo[i - 1], Order[i])

Synced == ReadUpTo[Len(Order)]

\* The commit raises in a session that failed: nothing of the loop is kept.
Boot ==
  /\ phase # "up"
  /\ rows' = IF Synced.failed THEN rows ELSE Synced.rows
  /\ phase' = IF Synced.failed THEN "dead" ELSE "up"
  /\ UNCHANGED <<file, assessed>>

SyncFrameworks ==
  /\ phase = "up"
  /\ ~Synced.failed
  /\ rows' = Synced.rows
  /\ UNCHANGED <<file, assessed, phase>>

\* One file by its name: an error undoes all of it.
ImportOne(n) ==
  LET one == ImportFile(NothingRead, n)
  IN  /\ phase = "up"
      /\ file[n] # NoFile /\ file[n].content \notin Wrong
      /\ ~one.failed
      /\ rows' = one.rows
      /\ UNCHANGED <<file, assessed, phase>>

-----------------------------------------------------------------------------
\* The editor.

\* The request commits, or the backend stops before.
CommitOrStop(new) ==
  \/ rows' = new /\ phase' = phase
  \/ rows' = rows /\ phase' = "down"

Exported(v, content) == [version |-> v, content |-> content, by |-> "export"]

\* The name of the file is kept once the export is done, the hash never is.
CreateFramework(v, content) ==
  /\ phase = "up" /\ ~Present(v)
  /\ \E exported \in BOOLEAN :
       /\ file' = IF exported THEN [file EXCEPT ![v] = Exported(v, content)] ELSE file
       /\ CommitOrStop([rows EXCEPT ![v] =
            [content |-> content, hash |-> NoFile, source |-> IF exported THEN v ELSE None,
             parent |-> None]])
  /\ UNCHANGED assessed

\* The controls are replaced, then the file of the row, whichever versions it
\* is also the file of.
UpdateFramework(v, content) ==
  /\ phase = "up" /\ Present(v) /\ ~Refused(v)
  /\ LET n == IF rows[v].source = None THEN v ELSE rows[v].source
     IN  \E exported \in BOOLEAN :
           file' = IF exported THEN [file EXCEPT ![n] = Exported(v, content)] ELSE file
  /\ CommitOrStop([rows EXCEPT ![v].content = content])
  /\ UNCHANGED assessed

\* The clone has the file of the original and no hash.
CloneAsNewVersion(v, new) ==
  /\ phase = "up" /\ Present(v) /\ ~Present(new)
  /\ rows' = [rows EXCEPT ![new] = [content |-> rows[v].content, hash |-> NoFile,
                                    source |-> rows[v].source, parent |-> v]]
  /\ UNCHANGED <<file, assessed, phase>>

\* Mutant: the foreign key of the clones does not hold.
DeleteOriginal(v) ==
  /\ phase = "up" /\ Present(v) /\ ~Refused(v)
  /\ file' = IF rows[v].source = None THEN file
             ELSE [file EXCEPT ![rows[v].source] = NoFile]
  /\ CommitOrStop([rows EXCEPT ![v] = NoRow])
  /\ UNCHANGED assessed

\* The row goes with its controls, unless an assessment or a clone refers to
\* it; then its file.
DeleteFramework(v) ==
  /\ phase = "up" /\ Present(v) /\ ~Refused(v)
  /\ \A w \in Versions : Present(w) => rows[w].parent # v
  /\ file' = IF rows[v].source = None THEN file
             ELSE [file EXCEPT ![rows[v].source] = NoFile]
  /\ CommitOrStop([rows EXCEPT ![v] = NoRow])
  /\ UNCHANGED assessed

-----------------------------------------------------------------------------
\* Around.

\* create_assessment and delete_assessment
Assess(v) ==
  /\ phase = "up" /\ Present(v)
  /\ assessed' = assessed \cup {v}
  /\ UNCHANGED <<file, rows, phase>>

Unassess(v) ==
  /\ phase = "up"
  /\ assessed' = assessed \ {v}
  /\ UNCHANGED <<file, rows, phase>>

\* The operator writes the file of the code, or takes it away.
Edit ==
  /\ \E f \in {g \in File : g.by = "hand" /\ g.content # "partial"} \cup {NoFile} :
       file' = [file EXCEPT ![Shipped] = f]
  /\ UNCHANGED <<rows, assessed, phase>>

Stop ==
  /\ phase = "up"
  /\ phase' = "down"
  /\ UNCHANGED <<file, rows, assessed>>

-----------------------------------------------------------------------------
Write ==
  \/ Edit
  \/ \E v \in Versions :
       \/ \E c \in Contents : CreateFramework(v, c) \/ UpdateFramework(v, c)
       \/ \E w \in Versions : CloneAsNewVersion(v, w)
       \/ DeleteFramework(v)

Other ==
  \/ SyncFrameworks \/ Stop
  \/ \E n \in Names : ImportOne(n)
  \/ \E v \in Versions : Assess(v) \/ Unassess(v)

LibraryNext ==
  \/ Boot /\ settled' = (phase' = "up") /\ UNCHANGED writes
  \/ /\ \/ writes < MaxWrites /\ Write /\ writes' = writes + 1
        \/ Other /\ UNCHANGED writes
     /\ settled' = (settled /\ file' = file /\ rows' = rows)

LibrarySpec == LibraryInit /\ [][LibraryNext]_libraryVars

-----------------------------------------------------------------------------
\* Properties.

\* The types; a clone and an assessment refer to versions that are there.
LibraryTypes ==
  /\ file \in [Names -> File \cup {NoFile}]
  /\ rows \in [Versions -> Row \cup {NoRow}]
  /\ assessed \subseteq {v \in Versions : Present(v)}
  /\ \A v \in Versions : Present(v) /\ rows[v].parent # None => Present(rows[v].parent)
  /\ phase \in {"down", "up", "dead"}
  /\ settled \in BOOLEAN
  /\ writes \in 0 .. MaxWrites

\* An assessment keeps the controls it was made with: no start, request or edit
\* of a file changes a version while it is assessed (framework_service.py,
\* models/assessment.py).
AssessedIsKept ==
  [][\A v \in assessed : v \in assessed' => rows'[v].content = rows[v].content]_libraryVars

\* A start that succeeded can be done again, whatever was assessed since: it
\* succeeds and changes nothing, as long as each version has one file
\* (sync_from_directory skips the files it has already read).
OneFilePerVersion ==
  \A n, m \in Names :
    file[n] # NoFile /\ file[m] # NoFile /\ file[n].version = file[m].version => n = m

BootIsStable ==
  [][Boot /\ settled /\ OneFilePerVersion => phase' = "up" /\ rows' = rows]_libraryVars

=============================================================================

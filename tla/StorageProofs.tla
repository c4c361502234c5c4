---------------------------- MODULE StorageProofs ----------------------------
(***************************************************************************)
(* The safety properties of what the backend keeps: FileStore, for any     *)
(* files, columns, keys and requests, and Database, for any rows found at  *)
(* the first start and any number of kills and downgrades.                 *)
(*                                                                         *)
(* FileStore: RowsHaveFiles lets a request excuse a file; for the step     *)
(* that ends the request, OnDisk says where the file is and SavesAreAlone  *)
(* that no other upload names it. CarefulIsReadable needs what a rotation  *)
(* has read to be all there is when it commits: Undisturbed.               *)
(*                                                                         *)
(* Database: Stage(i, m) is the tables after i revisions of those that     *)
(* were there before, and Stage(34, {}) is the tables of the models. Each  *)
(* revision is followed operation by operation from its stage to the next  *)
(* (UpStage), and back where it can be undone (DownStage). What a command  *)
(* does follows along the recursion of UpToHead; Shape says what the       *)
(* tables are by where the database comes from, and is what every step     *)
(* keeps.                                                                  *)
(***************************************************************************)
EXTENDS FileStore, Database, FiniteSetTheorems, WellFoundedInduction, TLAPS

-----------------------------------------------------------------------------
\* FileStore.

\* A request is idle, or has a file and the row it will write or delete.
RequestTypes ==
  request \in [Requests -> {Idle} \cup [doing : {"save"}, of : Files, row : Row]
                                  \cup [doing : {"delete"}, of : Files, row : {NoRow}]]

\* What an upload saves is on the disk, what a deletion deletes is not.
OnDisk ==
  \A r \in Requests : request[r].doing = "delete" => request[r].of \notin disk

SavesAreAlone ==
  \A r, q \in Requests :
    request[r].doing = "save" /\ request[q].of = request[r].of => q = r

\* What a rotation has read, and the secrets it was started with.
RotationTypes ==
  /\ rotation \in [phase : {None, "kek", "columns"}, types : SUBSET {"kek", "enc"},
                   old : [kek : Keys \cup {Other, None}, enc : Keys \cup {Other, None}],
                   new : [kek : Keys \cup {None}, enc : Keys \cup {None}],
                   deks : SUBSET Files, cells : SUBSET Cells, seen : SUBSET Cells]
  /\ rotation.phase = None => rotation = Still
  /\ rotation.phase = "kek" => "kek" \in rotation.types /\ rotation.seen = {}
  /\ "kek" \in rotation.types => rotation.new.kek \in Keys
  /\ "enc" \in rotation.types => rotation.new.enc \in Keys
  /\ "kek" \notin rotation.types => rotation.deks = {}
  /\ "enc" \notin rotation.types => rotation.cells = {}

\* With a careful operator the backend and a rotation are not there together,
\* the backend works with the secrets in force, and a rotation has read all
\* there is to read so far.
Undisturbed ==
  careful =>
    /\ Up => backend = held /\ rotation = Still
    /\ \A r \in Requests :
         request[r].row.kind # "artifact" => request[r].row.under \in {None, held.kek}
    /\ rotation.phase = "columns" =>
         /\ "kek" \in rotation.types => rotation.deks = {f \in Files : Wrapped(f)}
         /\ rotation.cells = {c \in rotation.seen : cell[c] # None}

\* The inductive invariant.
StoreInv ==
  /\ TypeOK
  /\ RequestTypes
  /\ OnDisk
  /\ SavesAreAlone
  /\ RotationTypes
  /\ RowsHaveFiles
  /\ Undisturbed
  /\ CarefulIsReadable

\* The initial state satisfies the inductive invariant: nothing is stored.
LEMMA StoreInvInit == Init => StoreInv
<1> SUFFICES ASSUME Init PROVE StoreInv
  OBVIOUS
<1> USE NamesAssumption DEF Init, None, Other, Secrets, Row, NoRow, Idle, Down, Still, Up
<1>1. TypeOK
  BY DEF TypeOK
<1>2. RequestTypes /\ OnDisk /\ SavesAreAlone
  BY DEF RequestTypes, OnDisk, SavesAreAlone
<1>3. RotationTypes
  BY DEF RotationTypes
<1>4. RowsHaveFiles /\ CarefulIsReadable
  BY DEF RowsHaveFiles, Begun, CarefulIsReadable, Opens, Decrypts
<1>5. Undisturbed
  BY DEF Undisturbed
<1>6. QED
  BY <1>1, <1>2, <1>3, <1>4, <1>5 DEF StoreInv

\* What a request step leaves alone.
Aside == UNCHANGED <<env, backend, rotation, held, careful, changes>>

\* An upload writes a file that nothing names, and will save its row.
LEMMA UploadInv ==
  ASSUME StoreInv, NEW r \in Requests, NEW f \in Files, NEW new \in Row,
         Upload(r, f, new), Aside,
         careful /\ new.kind # "artifact" => new.under \in {None, held.kek}
  PROVE  StoreInv'
<1> USE NamesAssumption DEF StoreInv, cuts, Upload, Aside, Fresh, Idle, None
<1>1. TypeOK'
  BY DEF TypeOK, Up, Row, RequestTypes
<1>2. RequestTypes'
  BY DEF RequestTypes
<1>3. OnDisk' /\ SavesAreAlone'
  BY DEF OnDisk, SavesAreAlone, RequestTypes, TypeOK
<1>4. RotationTypes'
  BY DEF RotationTypes
<1>5. RowsHaveFiles'
  BY DEF RowsHaveFiles, Begun, RequestTypes
<1>6. Undisturbed'
  BY DEF Undisturbed, Up, RequestTypes, Wrapped
<1>7. CarefulIsReadable'
  BY DEF CarefulIsReadable, Opens, Decrypts
<1>8. QED
  BY <1>1, <1>2, <1>3, <1>4, <1>5, <1>6, <1>7

\* The upload's end: the row is committed, or refused and the file is left.
LEMMA SaveInv ==
  ASSUME StoreInv, NEW r \in Requests, SaveRow(r) \/ SaveFails(r), Aside
  PROVE  StoreInv'
<1> USE NamesAssumption DEF StoreInv, cuts, SaveRow, SaveFails, Aside, Idle, None, NoRow
<1>1. TypeOK'
  BY DEF TypeOK, Up, Row, RequestTypes, SavesAreAlone
<1>2. RequestTypes'
  BY DEF RequestTypes
<1>3. OnDisk'
  BY DEF OnDisk, RequestTypes
<1>4. SavesAreAlone'
  BY DEF SavesAreAlone, RequestTypes
<1>5. RotationTypes'
  BY DEF RotationTypes
<1>6. RowsHaveFiles'
  BY DEF RowsHaveFiles, Begun, RequestTypes, TypeOK, Row, SavesAreAlone
<1>7. Undisturbed'
  BY DEF Undisturbed, Up, RequestTypes, Wrapped, TypeOK, Still
<1>8. CarefulIsReadable'
  BY DEF CarefulIsReadable, Opens, Decrypts, Undisturbed, RequestTypes, TypeOK
<1>9. QED
  BY <1>1, <1>2, <1>3, <1>4, <1>5, <1>6, <1>7, <1>8

\* A deletion takes the file away and will delete its row, which no upload is
\* about to write.
LEMMA UnlinkInv ==
  ASSUME StoreInv, NEW r \in Requests, NEW f \in Files, Unlink(r, f), Aside
  PROVE  StoreInv'
<1> USE NamesAssumption DEF StoreInv, cuts, Unlink, Aside, Idle, None, NoRow
<1>1. TypeOK'
  BY DEF TypeOK, Up, Row, RequestTypes
<1>2. RequestTypes'
  BY DEF RequestTypes
<1>3. OnDisk'
  BY DEF OnDisk, RequestTypes
<1>4. SavesAreAlone'
  BY DEF SavesAreAlone, RequestTypes, TypeOK
<1>5. RotationTypes'
  BY DEF RotationTypes
<1>6. RowsHaveFiles'
  BY DEF RowsHaveFiles, Begun, RequestTypes
<1>7. Undisturbed'
  BY DEF Undisturbed, Up, RequestTypes, Wrapped
<1>8. CarefulIsReadable'
  BY DEF CarefulIsReadable, Opens, Decrypts
<1>9. QED
  BY <1>1, <1>2, <1>3, <1>4, <1>5, <1>6, <1>7, <1>8

\* The deletion's end: the row goes, or stays and its file is gone.
LEMMA DeleteRowInv ==
  ASSUME StoreInv, NEW r \in Requests, DeleteRow(r) \/ DeleteFails(r), Aside
  PROVE  StoreInv'
<1> USE NamesAssumption DEF StoreInv, cuts, DeleteRow, DeleteFails, Aside, Idle, None, NoRow
<1>1. TypeOK'
  BY DEF TypeOK, Up, Row, RequestTypes, OnDisk
<1>2. RequestTypes'
  BY DEF RequestTypes
<1>3. OnDisk'
  BY DEF OnDisk, RequestTypes
<1>4. SavesAreAlone'
  BY DEF SavesAreAlone, RequestTypes
<1>5. RotationTypes'
  BY DEF RotationTypes
<1>6. RowsHaveFiles'
  BY DEF RowsHaveFiles, Begun, RequestTypes, OnDisk, TypeOK
<1>7. Undisturbed'
  BY DEF Undisturbed, Up, RequestTypes, Wrapped, TypeOK, Still
<1>8. CarefulIsReadable'
  BY DEF CarefulIsReadable, Opens, Decrypts, TypeOK, RequestTypes
<1>9. QED
  BY <1>1, <1>2, <1>3, <1>4, <1>5, <1>6, <1>7, <1>8

\* A result or a task that goes leaves the files of its rows.
LEMMA CascadeInv ==
  ASSUME StoreInv, NEW f \in Files, row[f] # NoRow, Cascade(f), Aside
  PROVE  StoreInv'
<1> USE NamesAssumption DEF StoreInv, cuts, Cascade, Aside, Idle, None, NoRow
<1>1. TypeOK'
  BY DEF TypeOK, Up, Row
<1>2. RequestTypes'
  BY DEF RequestTypes
<1>3. OnDisk'
  BY DEF OnDisk
<1>4. SavesAreAlone'
  BY DEF SavesAreAlone
<1>5. RotationTypes'
  BY DEF RotationTypes
<1>6. RowsHaveFiles'
  BY DEF RowsHaveFiles, Begun, TypeOK
<1>7. Undisturbed'
  BY DEF Undisturbed, Up, Wrapped, TypeOK, Still
<1>8. CarefulIsReadable'
  BY DEF CarefulIsReadable, Opens, Decrypts, TypeOK
<1>9. QED
  BY <1>1, <1>2, <1>3, <1>4, <1>5, <1>6, <1>7, <1>8

\* A column is written with the secret of the process.
LEMMA WriteCellInv ==
  ASSUME StoreInv, NEW c \in Cells, WriteCell(c), Aside
  PROVE  StoreInv'
<1> USE NamesAssumption DEF StoreInv, cuts, WriteCell, Aside
<1>1. TypeOK'
  BY DEF TypeOK, Up, Secrets, Down, None
<1>2. RequestTypes'
  BY DEF RequestTypes
<1>3. OnDisk'
  BY DEF OnDisk
<1>4. SavesAreAlone'
  BY DEF SavesAreAlone
<1>5. RotationTypes'
  BY DEF RotationTypes
<1>6. RowsHaveFiles'
  BY DEF RowsHaveFiles, Begun
<1>7. Undisturbed'
  BY DEF Undisturbed, Up, Wrapped, TypeOK, Still, Decrypts
<1>8. CarefulIsReadable'
  BY DEF CarefulIsReadable, Opens, Decrypts, TypeOK, Undisturbed
<1>9. QED
  BY <1>1, <1>2, <1>3, <1>4, <1>5, <1>6, <1>7, <1>8

\* Every request step preserves the invariant.
LEMMA RequestStepInv ==
  ASSUME StoreInv, RequestStep
  PROVE  StoreInv'
<1>1. Aside
  BY DEF RequestStep, Aside
<1>2. ASSUME NEW r \in Requests, NEW f \in Files,
             UploadAttachment(r, f) \/ UploadFile(r, f) \/ UploadArtifact(r, f)
      PROVE  StoreInv'
  <2>1. Up /\ backend \in Secrets /\ (careful => backend = held)
    BY <1>2 DEF UploadAttachment, UploadFile, UploadArtifact, Upload, StoreInv, TypeOK, Up,
                Undisturbed
  <2>2. CASE UploadAttachment(r, f)
    BY <1>1, <2>2, UploadInv DEF UploadAttachment, Row
  <2>3. CASE UploadFile(r, f)
    BY <1>1, <2>1, <2>3, UploadInv DEF UploadFile, Row, Secrets
  <2>4. CASE UploadArtifact(r, f)
    BY <1>1, <2>1, <2>4, UploadInv DEF UploadArtifact, Row, Secrets
  <2>5. QED
    BY <1>2, <2>2, <2>3, <2>4
<1>3. ASSUME NEW f \in Files, DeleteResult(f) \/ DeleteTask(f)
      PROVE  StoreInv'
  <2>1. row[f] # NoRow
    BY <1>3 DEF DeleteResult, DeleteTask, NoRow, None
  <2>2. QED
    BY <1>1, <1>3, <2>1, CascadeInv DEF DeleteResult, DeleteTask
<1>4. QED
  BY <1>1, <1>2, <1>3, SaveInv, UnlinkInv, DeleteRowInv, WriteCellInv DEF RequestStep

\* What a step of the rotation leaves alone.
Apart == UNCHANGED <<disk, env, backend, request, cuts, changes>>

\* A rotation that fails leaves no trace.
LEMMA FailureInv ==
  ASSUME StoreInv, RotationFails, Apart
  PROVE  StoreInv'
<1> USE NamesAssumption DEF StoreInv, cuts, RotationFails, Apart, Still, None, Down
<1>1. TypeOK'
  BY DEF TypeOK, Up
<1>2. RequestTypes'
  BY DEF RequestTypes
<1>3. OnDisk'
  BY DEF OnDisk
<1>4. SavesAreAlone'
  BY DEF SavesAreAlone
<1>5. RotationTypes'
  BY DEF RotationTypes
<1>6. RowsHaveFiles'
  BY DEF RowsHaveFiles, Begun
<1>7. Undisturbed'
  BY DEF Undisturbed, Up
<1>8. CarefulIsReadable'
  BY DEF CarefulIsReadable, Opens, Decrypts
<1>9. QED
  BY <1>1, <1>2, <1>3, <1>4, <1>5, <1>6, <1>7, <1>8

\* It starts with the secrets of the environment, and if the backend is there
\* the operator was not careful.
LEMMA RotateInv ==
  ASSUME StoreInv, NEW types \in SUBSET {"kek", "enc"} \ {{}}, NEW old \in Told,
         Rotate(types, old), Apart
  PROVE  StoreInv'
<1> USE NamesAssumption DEF StoreInv, cuts, Rotate, Apart, None, Down
<1>1. TypeOK'
  BY DEF TypeOK, Up, Still
<1>2. RequestTypes'
  BY DEF RequestTypes
<1>3. OnDisk'
  BY DEF OnDisk
<1>4. SavesAreAlone'
  BY DEF SavesAreAlone
<1>5. RotationTypes'
  BY DEF RotationTypes, Still, Of, Told, TypeOK, Secrets, Other
<1>6. RowsHaveFiles'
  BY DEF RowsHaveFiles, Begun
<1>7. Undisturbed'
  BY DEF Undisturbed, Up, Still
<1>8. CarefulIsReadable'
  BY DEF CarefulIsReadable, Opens, Decrypts
<1>9. QED
  BY <1>1, <1>2, <1>3, <1>4, <1>5, <1>6, <1>7, <1>8

\* The keys of the files are read, all of them or the rotation fails.
LEMMA RotateKekInv ==
  ASSUME StoreInv, RotateKek, Apart, ~RotationFails
  PROVE  StoreInv'
<1> DEFINE deks == {f \in Files : Wrapped(f)}
<1> USE DEF StoreInv, cuts, Apart
<1>0. /\ rotation.phase = "kek"
      /\ rotation' = [rotation EXCEPT !.phase = "columns", !.deks = deks]
      /\ UNCHANGED <<row, cell, held, careful>>
  BY DEF RotateKek
<1>a. /\ rotation'.phase = "columns" /\ rotation'.deks = deks /\ rotation'.seen = {}
      /\ rotation'.types = rotation.types /\ "kek" \in rotation.types
      /\ rotation'.new = rotation.new /\ rotation'.cells = {} /\ rotation.cells = {}
      /\ deks \subseteq Files
  BY <1>0 DEF RotationTypes, TypeOK
<1> HIDE DEF deks
<1>1. TypeOK'
  BY <1>0, <1>a DEF TypeOK, Up
<1>2. RequestTypes'
  BY <1>0 DEF RequestTypes
<1>3. OnDisk'
  BY <1>0 DEF OnDisk
<1>4. SavesAreAlone'
  BY <1>0 DEF SavesAreAlone
<1>5. RotationTypes'
  BY <1>0, <1>a, NamesAssumption DEF RotationTypes, None
<1>6. RowsHaveFiles'
  BY <1>0 DEF RowsHaveFiles, Begun
<1>7. Undisturbed'
  BY <1>0, <1>a DEF Undisturbed, Up, Still, Wrapped, None, deks
<1>8. CarefulIsReadable'
  BY <1>0 DEF CarefulIsReadable, Opens, Decrypts
<1>9. QED
  BY <1>1, <1>2, <1>3, <1>4, <1>5, <1>6, <1>7, <1>8

\* A column is read.
LEMMA RotateColumnInv ==
  ASSUME StoreInv, NEW c \in Cells, RotateColumn(c), Apart, ~RotationFails
  PROVE  StoreInv'
<1> DEFINE cells == IF cell[c] = None THEN rotation.cells ELSE rotation.cells \cup {c}
<1> USE DEF StoreInv, cuts, Apart
<1>0. /\ rotation.phase = "columns" /\ "enc" \in rotation.types
      /\ rotation' = [rotation EXCEPT !.seen = @ \cup {c}, !.cells = cells]
      /\ UNCHANGED <<row, cell, held, careful>>
  BY DEF RotateColumn, RotationTypes
<1>a. /\ rotation'.phase = "columns" /\ rotation'.deks = rotation.deks
      /\ rotation'.seen = rotation.seen \cup {c} /\ rotation'.types = rotation.types
      /\ rotation'.new = rotation.new /\ rotation'.cells = cells
      /\ cells \subseteq rotation'.seen
  BY <1>0 DEF RotationTypes, TypeOK
<1> HIDE DEF cells
<1>1. TypeOK'
  BY <1>0, <1>a DEF TypeOK, Up
<1>2. RequestTypes'
  BY <1>0 DEF RequestTypes
<1>3. OnDisk'
  BY <1>0 DEF OnDisk
<1>4. SavesAreAlone'
  BY <1>0 DEF SavesAreAlone
<1>5. RotationTypes'
  BY <1>0, <1>a, NamesAssumption DEF RotationTypes, None
<1>6. RowsHaveFiles'
  BY <1>0 DEF RowsHaveFiles, Begun
<1>7. Undisturbed'
  BY <1>0, <1>a, NamesAssumption DEF Undisturbed, Up, Still, Wrapped, None, cells
<1>8. CarefulIsReadable'
  BY <1>0 DEF CarefulIsReadable, Opens, Decrypts
<1>9. QED
  BY <1>1, <1>2, <1>3, <1>4, <1>5, <1>6, <1>7, <1>8

\* The commit: everything that was under the old secrets is under the new ones,
\* which are then in force.
LEMMA CommitRotationInv ==
  ASSUME StoreInv, CommitRotation, Apart, ~RotationFails
  PROVE  StoreInv'
<1> USE DEF StoreInv, cuts, Apart
<1>0. /\ rotation.phase = "columns" /\ ("enc" \in rotation.types => rotation.seen = Cells)
      /\ \A f \in rotation.deks : Wrapped(f)
      /\ row' = [f \in Files |-> IF f \in rotation.deks
                                 THEN [row[f] EXCEPT !.under = rotation.new.kek]
                                 ELSE row[f]]
      /\ cell' = [c \in Cells |-> IF c \in rotation.cells /\ cell[c] # None
                                  THEN rotation.new.enc ELSE cell[c]]
      /\ held' = Rotated /\ rotation' = Still /\ UNCHANGED careful
  BY DEF CommitRotation
<1>a. \A f \in Files :
        IF f \in rotation.deks
        THEN /\ row[f].kind = "blob" /\ rotation.new.kek \in Keys
             /\ "kek" \in rotation.types
             /\ row'[f] = [kind |-> "blob", under |-> rotation.new.kek]
        ELSE row'[f] = row[f]
  BY <1>0, NamesAssumption DEF Wrapped, RotationTypes, TypeOK, Row, NoRow, None
<1>b. /\ held'.kek = IF "kek" \in rotation.types THEN rotation.new.kek ELSE held.kek
      /\ held'.enc = IF "enc" \in rotation.types THEN rotation.new.enc ELSE held.enc
      /\ held' \in Secrets
  BY <1>0 DEF Rotated, RotationTypes, TypeOK, Secrets
<1>c. /\ \A f \in Files : row'[f] = NoRow <=> row[f] = NoRow
      /\ row' \in [Files -> Row \cup {NoRow}]
  BY <1>0, <1>a DEF TypeOK, Row, NoRow, None
<1>d. cell' \in [Cells -> Keys \cup {None}]
  BY <1>0 DEF TypeOK, RotationTypes
<1>e. careful => \A r \in Requests : request[r] = Idle
  BY <1>0, NamesAssumption DEF TypeOK, Undisturbed, Still, None
<1>f. ASSUME careful', NEW f \in Files, row'[f].kind # "artifact"
      PROVE  Opens(held.kek, f)'
  <2>1. careful /\ row[f].kind # "artifact" /\ row[f].under \in {None, held.kek}
    BY <1>0, <1>a, <1>f DEF CarefulIsReadable, Opens
  <2>2. CASE f \in rotation.deks
    BY <1>a, <1>b, <2>2 DEF Opens
  <2>3. CASE f \notin rotation.deks
    <3>1. row[f].kind # "blob" \/ held'.kek = held.kek
      BY <1>0, <1>b, <2>1, <2>3 DEF Undisturbed, Wrapped
    <3>2. row[f].kind # "blob" => row[f].under = None
      BY <2>1 DEF TypeOK, Row, NoRow
    <3>3. QED
      BY <1>a, <2>1, <2>3, <3>1, <3>2 DEF Opens
  <2>4. QED
    BY <2>2, <2>3
<1>g. ASSUME careful', NEW c \in Cells
      PROVE  Decrypts(held.enc, c)'
  <2>1. careful /\ cell[c] \in {None, held.enc}
    BY <1>0, <1>g DEF CarefulIsReadable, Decrypts
  <2>2. CASE "enc" \in rotation.types
    BY <1>0, <1>b, <2>1, <2>2 DEF Undisturbed, Decrypts
  <2>3. CASE "enc" \notin rotation.types
    BY <1>0, <1>b, <2>1, <2>3 DEF RotationTypes, Decrypts
  <2>4. QED
    BY <2>2, <2>3
<1>1. TypeOK'
  BY <1>0, <1>b, <1>c, <1>d DEF TypeOK, Up, RequestTypes, Still
<1>2. RequestTypes'
  BY <1>0 DEF RequestTypes
<1>3. OnDisk'
  BY <1>0 DEF OnDisk
<1>4. SavesAreAlone'
  BY <1>0 DEF SavesAreAlone
<1>5. RotationTypes'
  BY <1>0, NamesAssumption DEF RotationTypes, None, Still, Down
<1>6. RowsHaveFiles'
  BY <1>c DEF RowsHaveFiles, Begun
<1>7. Undisturbed'
  BY <1>0, <1>e, NamesAssumption DEF Undisturbed, Up, Still, Idle, NoRow, None
<1>8. CarefulIsReadable'
  BY <1>f, <1>g DEF CarefulIsReadable
<1>9. QED
  BY <1>1, <1>2, <1>3, <1>4, <1>5, <1>6, <1>7, <1>8

\* Every step of a rotation preserves the invariant.
LEMMA RotationStepInv ==
  ASSUME StoreInv, RotationStep
  PROVE  StoreInv'
<1>1. Apart
  BY DEF RotationStep, Apart
<1>2. CASE RotationFails
  BY <1>1, <1>2, FailureInv
<1>3. QED
  BY <1>1, <1>2, RotateInv, RotateKekInv, RotateColumnInv, CommitRotationInv DEF RotationStep

\* The operator changes the environment, starts the backend or stops it, which
\* cuts the requests under way.
LEMMA OperatorInv ==
  ASSUME StoreInv, ChangeKeys \/ Start \/ Stop
  PROVE  StoreInv'
<1> USE DEF StoreInv, cuts
<1>1. CASE ChangeKeys
  BY <1>1 DEF ChangeKeys, TypeOK, RequestTypes, OnDisk, SavesAreAlone, RotationTypes,
              RowsHaveFiles, Begun, Undisturbed, CarefulIsReadable, Up, Wrapped, Opens, Decrypts
<1>2. CASE Start
  <2>1. ~Up /\ Up'
    BY <1>2, NamesAssumption DEF Start, Up, TypeOK, Secrets, Down, None
  <2>2. TypeOK' /\ RequestTypes' /\ OnDisk' /\ SavesAreAlone'
    BY <1>2, <2>1 DEF Start, TypeOK, RequestTypes, OnDisk, SavesAreAlone
  <2>3. RotationTypes' /\ CarefulIsReadable'
    BY <1>2 DEF Start, RotationTypes, CarefulIsReadable, Opens, Decrypts
  <2>4. RowsHaveFiles'
    BY <1>2 DEF Start, RowsHaveFiles, Begun
  <2>5. Undisturbed'
    BY <1>2, <2>1 DEF Start, Undisturbed, Wrapped
  <2>6. QED
    BY <2>2, <2>3, <2>4, <2>5
<1>3. CASE Stop
  <2> USE NamesAssumption DEF Idle, None, NoRow
  <2>0. Begun("save") \subseteq Files /\ Begun("delete") \subseteq Files
    BY DEF Begun, RequestTypes
  <2>1. TypeOK' /\ RequestTypes'
    BY <1>3, <2>0 DEF Stop, TypeOK, RequestTypes, Up
  <2>2. OnDisk' /\ SavesAreAlone' /\ RotationTypes' /\ CarefulIsReadable'
    BY <1>3 DEF Stop, OnDisk, SavesAreAlone, RotationTypes, CarefulIsReadable, Opens, Decrypts
  <2>3. RowsHaveFiles'
    BY <1>3 DEF Stop, RowsHaveFiles, Begun
  <2>4. Undisturbed'
    BY <1>3 DEF Stop, Undisturbed, Up, Wrapped
  <2>5. QED
    BY <2>1, <2>2, <2>3, <2>4
<1>4. QED
  BY <1>1, <1>2, <1>3

\* The invariant holds in every reachable state.
LEMMA InvIsInductive == Spec => []StoreInv
<1>1. StoreInv /\ [Next]_vars => StoreInv'
  <2> SUFFICES ASSUME StoreInv, [Next]_vars
               PROVE  StoreInv'
    OBVIOUS
  <2>1. CASE UNCHANGED vars
    BY <2>1 DEF vars, cuts, StoreInv, TypeOK, RequestTypes, OnDisk, SavesAreAlone, RotationTypes,
                RowsHaveFiles, Begun, Undisturbed, CarefulIsReadable, Up, Wrapped, Opens, Decrypts
  <2>2. QED
    BY <2>1, RequestStepInv, RotationStepInv, OperatorInv DEF Next
<1>2. QED
  BY StoreInvInit, <1>1, PTL DEF Spec

\* The types; no request without a process, and no upload saves a row that is
\* there or whose file is not (upload_file, upload_attachment).
THEOREM StoreTypes == Spec => []TypeOK
<1>1. StoreInv => TypeOK
  BY DEF StoreInv
<1>2. QED
  BY InvIsInductive, <1>1, PTL

\* Only a deletion that went no further leaves a row without its file, and only an
\* upload that did, or a cascade, a file without its row, whatever the order of the
\* uploads, the deletions, the rotations and the stops (upload_file, delete_file).
THEOREM RowsAlwaysHaveFiles == Spec => []RowsHaveFiles
<1>1. StoreInv => RowsHaveFiles
  BY DEF StoreInv
<1>2. QED
  BY InvIsInductive, <1>1, PTL

\* Nothing becomes unreadable under a careful operator, for any number of
\* files, columns, secrets and rotations, right, wrong, killed or failed
\* (run_rotation).
THEOREM CarefulIsAlwaysReadable == Spec => []CarefulIsReadable
<1>1. StoreInv => CarefulIsReadable
  BY DEF StoreInv
<1>2. QED
  BY InvIsInductive, <1>1, PTL

-----------------------------------------------------------------------------
\* Database. Recursive functions: induction up to n, by the order of subsets.

\* Induction up to n, for any set.
LEMMA IntervalInduction ==
  ASSUME NEW n \in Nat, NEW good, 0 \in good,
         \A i \in 1 .. n : i - 1 \in good => i \in good
  PROVE  \A i \in 0 .. n : i \in good
<1> DEFINE bad == {i \in 0 .. n : i \notin good}
           below == {0 .. i : i \in bad}
<1>1. IsWellFoundedOn(StrictSubsetOrdering(0 .. n), FiniteSubsetsOf(0 .. n))
  BY FS_StrictSubsetOrderingWellFounded
<1>2. below \subseteq FiniteSubsetsOf(0 .. n)
  <2>1. ASSUME NEW i \in bad
        PROVE  0 .. i \in SUBSET (0 .. n) /\ IsFiniteSet(0 .. i)
    BY FS_Interval
  <2>2. QED
    BY <2>1 DEF FiniteSubsetsOf
<1>3. SUFFICES ASSUME below # {}
               PROVE  FALSE
  OBVIOUS
<1>4. PICK x \in below : \A y \in below : <<y, x>> \notin StrictSubsetOrdering(0 .. n)
  <2> HIDE DEF below
  <2> QED
    BY <1>1, <1>2, <1>3, WFMin
<1>5. PICK k \in bad : x = 0 .. k
  BY <1>4
<1>6. k - 1 \in bad
  OBVIOUS
<1>7. 0 .. (k - 1) \in below
  BY <1>6
<1>8. <<0 .. (k - 1), x>> \in StrictSubsetOrdering(0 .. n)
  BY <1>5, <1>6 DEF StrictSubsetOrdering
<1>9. QED
  BY <1>4, <1>7, <1>8

\* What Perform does, operation by operation.
LEMMA PerformSteps ==
  ASSUME NEW d, NEW ops, Len(ops) \in Nat
  PROVE  \E f : /\ f[0] = d
                /\ \A i \in 1 .. Len(ops) : f[i] = Then(f[i - 1], ops[i])
                /\ Perform(d, ops) = f[Len(ops)]
<1> DEFINE n == Len(ops)
           Body(g, i) == [j \in 0 .. i |-> IF j = 0 THEN d ELSE Then(g[j - 1], ops[j])]
           good == {i \in 0 .. n : \E g : g = Body(g, i)}
<1>1. 0 \in good
  <2>1. [j \in 0 .. 0 |-> d] = Body([j \in 0 .. 0 |-> d], 0)
    OBVIOUS
  <2>2. \E g : g = Body(g, 0)
    <3> HIDE DEF Body
    <3> QED
      BY <2>1
  <2>3. QED
    BY <2>2
<1>2. ASSUME NEW i \in 1 .. n, i - 1 \in good
      PROVE  i \in good
  <2>1. PICK g : g = Body(g, i - 1)
    BY <1>2
  <2> DEFINE h == [j \in 0 .. i |-> IF j = i THEN Then(g[i - 1], ops[i]) ELSE g[j]]
  <2>2. \A j \in 0 .. i - 1 : h[j] = g[j] /\ g[j] = IF j = 0 THEN d ELSE Then(g[j - 1], ops[j])
    BY <2>1
  <2>3. h[i] = Then(h[i - 1], ops[i])
    BY <2>2
  <2>4. ASSUME NEW j \in 0 .. i
        PROVE  h[j] = IF j = 0 THEN d ELSE Then(h[j - 1], ops[j])
    <3>1. CASE j = i
      BY <2>3, <3>1
    <3>2. CASE j # i
      <4>1. j \in 0 .. i - 1 /\ (j # 0 => j - 1 \in 0 .. i - 1)
        BY <3>2
      <4> HIDE DEF h
      <4>2. QED
        BY <2>2, <4>1
    <3>3. QED
      BY <3>1, <3>2
  <2>5. h = Body(h, i)
    BY <2>4
  <2>6. \E f : f = Body(f, i)
    <3> HIDE DEF Body, h
    <3> QED
      BY <2>5
  <2>7. QED
    BY <2>6
<1>3. PICK g : g = Body(g, n)
  <2> HIDE DEF good, n
  <2>1. \A i \in 0 .. n : i \in good
    BY <1>1, <1>2, IntervalInduction DEF n
  <2>2. QED
    BY <2>1 DEF good, n
<1> DEFINE f == CHOOSE b : b = Body(b, n)
<1>4. f = Body(f, n)
  BY <1>3
<1>5. Perform(d, ops) = f[n]
  BY DEF Perform
<1>6. /\ f[0] = d
      /\ \A i \in 1 .. n : f[i] = Then(f[i - 1], ops[i])
  <2> HIDE DEF f
  <2> QED
    BY <1>4
<1>7. QED
  <2> HIDE DEF f
  <2> QED
    BY <1>5, <1>6

-----------------------------------------------------------------------------
\* Operations.

IsDb(d) ==
  d = [tables |-> d.tables, types |-> d.types, names |-> d.names,
       ownerless |-> d.ownerless, filled |-> d.filled, users |-> d.users, ok |-> d.ok]

\* An operation that went through was possible, as was what came before.
LEMMA ThenOk ==
  ASSUME NEW d, IsDb(d), NEW o, Then(d, o).ok
  PROVE  d.ok /\ Possible(d, o) /\ Then(d, o) = Effect(d, o)
<1>1. d.ok
  BY DEF Then
<1>2. [d EXCEPT !.ok = FALSE].ok = FALSE
  BY DEF IsDb
<1>3. QED
  BY <1>1, <1>2 DEF Then, Do

\* Rows without an owner are rows, and rows are in tables.
Sane(d) == d.ownerless \subseteq d.filled /\ d.filled \subseteq DOMAIN d.tables

\* Whatever an operation does, it leaves the users alone.
LEMMA EffectKeeps ==
  ASSUME NEW d, IsDb(d), NEW o
  PROVE  /\ IsDb(Effect(d, o)) /\ Effect(d, o).ok = d.ok /\ Effect(d, o).users = d.users
         /\ Sane(d) => Sane(Effect(d, o))
         /\ o.op \notin {"create type", "drop type"} => Effect(d, o).types = d.types
<1> USE DEF IsDb, Effect, Sane
<1>1. CASE o.op = "create type"
  BY <1>1 DEF Put
<1>2. CASE o.op = "drop type"
  BY <1>2 DEF Cut
<1>3. CASE o.op = "create"
  BY <1>3 DEF Put
<1>4. CASE o.op = "drop"
  BY <1>4 DEF Cut
<1>5. CASE o.op = "backfill"
  BY <1>5
<1>6. CASE o.op = "delete ownerless"
  BY <1>6
<1>7. CASE o.op = "rows"
  BY <1>7
<1>8. CASE o.op \notin {"create type", "drop type", "create", "drop", "backfill",
                        "delete ownerless", "rows"}
  <2> DEFINE N == CASE o.op \in {"add ref", "add key"}   -> d.names \cup {o.n}
                    [] o.op \in {"drop ref", "drop key"} -> d.names \ {o.n}
                    [] OTHER                             -> d.names
             O == IF o.op = "add" /\ o.c = "owner_id" /\ o.t \in d.filled
                  THEN d.ownerless \cup {o.t} ELSE d.ownerless
             T == [d.tables EXCEPT ![o.t] = Altered(@, o)]
  <2>1. Effect(d, o) = [d EXCEPT !.tables = T, !.names = N, !.ownerless = O]
    BY <1>8
  <2>2. DOMAIN T = DOMAIN d.tables
    OBVIOUS
  <2>3. O \subseteq d.ownerless \cup d.filled
    OBVIOUS
  <2> HIDE DEF N, T, O, Effect, Sane
  <2>4. Effect(d, o) = [tables |-> T, types |-> d.types, names |-> N, ownerless |-> O,
                        filled |-> d.filled, users |-> d.users, ok |-> d.ok]
    BY <2>1
  <2>5. /\ Effect(d, o).tables = T /\ Effect(d, o).ownerless = O
        /\ Effect(d, o).filled = d.filled /\ Effect(d, o).types = d.types
    BY <2>4
  <2>6. Sane(d) => Sane(Effect(d, o))
    <3> HIDE DEF IsDb
    <3> QED
      BY <2>2, <2>3, <2>5 DEF Sane
  <2>7. IsDb(Effect(d, o))
    <3> DEFINE e == Effect(d, o)
    <3>1. e = [tables |-> T, types |-> d.types, names |-> N, ownerless |-> O,
               filled |-> d.filled, users |-> d.users, ok |-> d.ok]
      BY <2>4
    <3> HIDE DEF e, IsDb
    <3>2. IsDb(e)
      BY <3>1 DEF IsDb
    <3>3. QED
      BY <3>2 DEF e
  <2>8. Effect(d, o).ok = d.ok /\ Effect(d, o).users = d.users
    BY <2>4
  <2>9. QED
    <3> HIDE DEF IsDb, Sane
    <3> QED
      BY <2>5, <2>6, <2>7, <2>8
<1>9. QED
  BY <1>1, <1>2, <1>3, <1>4, <1>5, <1>6, <1>7, <1>8

\* A database marked as failed is still a database.
LEMMA Failing ==
  ASSUME NEW d, IsDb(d)
  PROVE  IsDb([d EXCEPT !.ok = FALSE])
<1> DEFINE e == [d EXCEPT !.ok = FALSE]
<1>1. e = [tables |-> d.tables, types |-> d.types, names |-> d.names,
           ownerless |-> d.ownerless, filled |-> d.filled, users |-> d.users, ok |-> FALSE]
  <2>1. PICK c : c = d
    OBVIOUS
  <2>2. c = [tables |-> d.tables, types |-> d.types, names |-> d.names,
             ownerless |-> d.ownerless, filled |-> d.filled, users |-> d.users, ok |-> d.ok]
    BY <2>1 DEF IsDb
  <2>3. e = [c EXCEPT !.ok = FALSE]
    BY <2>1
  <2> HIDE DEF e
  <2>4. QED
    BY <2>2, <2>3
<1> HIDE DEF e
<1>2. IsDb(e)
  BY <1>1 DEF IsDb
<1>3. QED
  BY <1>2 DEF e

\* An operation that went through.
Goes(d, o, e) ==
  /\ IsDb(d) /\ d.ok /\ Possible(d, o)
  /\ IsDb(e) /\ e.ok /\ e = Effect(d, o)

\* A command that went through is operations that did.
LEMMA PerformRun ==
  ASSUME NEW d, IsDb(d), NEW ops, Len(ops) \in Nat, Perform(d, ops).ok
  PROVE  \E f : /\ f[0] = d /\ f[Len(ops)] = Perform(d, ops)
                /\ \A i \in 1 .. Len(ops) : Goes(f[i - 1], ops[i], f[i])
<1> DEFINE n == Len(ops)
<1>1. PICK f : /\ f[0] = d
               /\ \A i \in 1 .. n : f[i] = Then(f[i - 1], ops[i])
               /\ Perform(d, ops) = f[n]
  BY PerformSteps
<1>2. \A i \in 0 .. n : IsDb(f[i])
  <2> DEFINE good == {i \in 0 .. n : IsDb(f[i])}
  <2>1. 0 \in good
    BY <1>1
  <2>2. ASSUME NEW i \in 1 .. n, i - 1 \in good
        PROVE  i \in good
    <3>1. IsDb(f[i - 1]) /\ f[i] = Then(f[i - 1], ops[i])
      BY <1>1, <2>2
    <3>2. IsDb(Then(f[i - 1], ops[i]))
      BY <3>1, Failing, EffectKeeps DEF Then, Do
    <3>3. QED
      BY <3>1, <3>2
  <2> HIDE DEF good, n
  <2>3. \A i \in 0 .. n : i \in good
    BY <2>1, <2>2, IntervalInduction DEF n
  <2>4. QED
    BY <2>3 DEF good
<1>3. \A i \in 0 .. n : f[n - i].ok
  <2> DEFINE good == {i \in 0 .. n : f[n - i].ok}
  <2>1. 0 \in good
    BY <1>1
  <2>2. ASSUME NEW i \in 1 .. n, i - 1 \in good
        PROVE  i \in good
    <3>1. n - i + 1 \in 1 .. n /\ n - (i - 1) = n - i + 1 /\ (n - i + 1) - 1 = n - i
      OBVIOUS
    <3>2. f[n - i + 1].ok /\ f[n - i + 1] = Then(f[n - i], ops[n - i + 1])
      BY <1>1, <2>2, <3>1
    <3>3. IsDb(f[n - i])
      BY <1>2
    <3>4. f[n - i].ok
      BY <3>2, <3>3, ThenOk
    <3>5. QED
      BY <3>4
  <2> HIDE DEF good, n
  <2>3. \A i \in 0 .. n : i \in good
    BY <2>1, <2>2, IntervalInduction DEF n
  <2>4. QED
    BY <2>3 DEF good
<1>4. \A i \in 0 .. n : f[i].ok
  <2>1. ASSUME NEW i \in 0 .. n
        PROVE  f[i].ok
    <3>1. n - i \in 0 .. n /\ n - (n - i) = i
      OBVIOUS
    <3>2. QED
      BY <1>3, <3>1
  <2>2. QED
    BY <2>1
<1>5. ASSUME NEW i \in 1 .. n
      PROVE  Goes(f[i - 1], ops[i], f[i])
  <2>1. i - 1 \in 0 .. n /\ i \in 0 .. n
    OBVIOUS
  <2>2. IsDb(f[i - 1]) /\ IsDb(f[i]) /\ f[i].ok /\ f[i] = Then(f[i - 1], ops[i])
    BY <1>1, <1>2, <1>4, <2>1
  <2>3. QED
    BY <2>2, ThenOk DEF Goes
<1>6. QED
  BY <1>1, <1>5

\* The tables after an operation that went through.
LEMMA Altering ==
  ASSUME NEW d, NEW o, NEW e, Goes(d, o, e), o.t \in DOMAIN d.tables,
         o.op \in {"add", "drop column", "nullable", "to text", "add ref", "add key",
                   "drop ref", "drop key", "not null"}
  PROVE  e.tables = Put(d.tables, o.t, Altered(d.tables[o.t], o))
<1> DEFINE N == CASE o.op \in {"add ref", "add key"}   -> d.names \cup {o.n}
                  [] o.op \in {"drop ref", "drop key"} -> d.names \ {o.n}
                  [] OTHER                             -> d.names
           O == IF o.op = "add" /\ o.c = "owner_id" /\ o.t \in d.filled
                THEN d.ownerless \cup {o.t} ELSE d.ownerless
           T == [d.tables EXCEPT ![o.t] = Altered(@, o)]
<1>1. e = [d EXCEPT !.tables = T, !.names = N, !.ownerless = O]
  BY DEF Goes, Effect
<1> HIDE DEF T, N, O
<1>2. e.tables = T
  BY <1>1 DEF Goes, IsDb
<1>3. T = Put(d.tables, o.t, Altered(d.tables[o.t], o))
  BY DEF T, Put
<1>4. QED
  BY <1>2, <1>3

\* CREATE TABLE adds the table, which was not there.
LEMMA Creating ==
  ASSUME NEW d, NEW t, NEW v, NEW e, Goes(d, Create(t, v), e)
  PROVE  e.tables = Put(d.tables, t, v) /\ t \notin DOMAIN d.tables
BY DEF Goes, IsDb, Effect, Possible, Create, HasTable

\* DROP TABLE takes it away.
LEMMA Dropping ==
  ASSUME NEW d, NEW t, NEW e, Goes(d, Drop(t), e)
  PROVE  e.tables = Cut(d.tables, t)
BY DEF Goes, IsDb, Effect, Drop

\* A type created or dropped changes no table.
LEMMA Typing ==
  ASSUME NEW d, NEW n, NEW ls, NEW e, Goes(d, CreateType(n, ls), e) \/ Goes(d, DropType(n), e)
  PROVE  e.tables = d.tables
BY DEF Goes, IsDb, Effect, CreateType, DropType

\* A type that is created was not there,
LEMMA TypeCreated ==
  ASSUME NEW d, NEW n, NEW ls, NEW e, Goes(d, CreateType(n, ls), e)
  PROVE  n \notin DOMAIN d.types /\ e.types = Put(d.types, n, ls)
<1>1. PICK o : o = CreateType(n, ls)
  OBVIOUS
<1>2. o.op = "create type" /\ o.n = n /\ o.labels = ls
  BY <1>1 DEF CreateType
<1>3. Possible(d, o) /\ e = Effect(d, o) /\ IsDb(d)
  BY <1>1 DEF Goes
<1>4. QED
  BY <1>2, <1>3 DEF Possible, Effect, IsDb

\* and one that is dropped is no more.
LEMMA TypeDropped ==
  ASSUME NEW d, NEW n, NEW e, Goes(d, DropType(n), e)
  PROVE  e.types = Cut(d.types, n)
<1>1. PICK o : o = DropType(n)
  OBVIOUS
<1>2. o.op = "drop type" /\ o.n = n
  BY <1>1 DEF DropType
<1>3. e = Effect(d, o) /\ IsDb(d)
  BY <1>1 DEF Goes
<1>4. QED
  BY <1>2, <1>3 DEF Effect, IsDb

\* The operations on rows leave the tables as they are.
LEMMA Filling ==
  ASSUME NEW d, NEW o, NEW e, Goes(d, o, e), o.op \in {"backfill", "delete ownerless", "rows"}
  PROVE  e.tables = d.tables
BY DEF Goes, IsDb, Effect

-----------------------------------------------------------------------------
\* The tables, from those that preceded the first revision to the models.

Old(t) == BaselineTables[t]
New(t) == ModelTables[t]

\* What is left of a table without some columns, field by field.
LEMMA WithoutTable ==
  ASSUME NEW a, NEW b, NEW r, NEW k, NEW cs
  PROVE  Without(Table(a, b, r, k), cs)
           = Table(a \ cs, b \ cs, {x \in r : x[1] \notin cs}, {x \in k : x \cap cs = {}})
BY DEF Table, Without
\* The column and the target of a foreign key.
LEMMA RefFields ==
  ASSUME NEW c, NEW t
  PROVE  /\ Ref(c, t)[1] = c /\ Cascades(c, t)[1] = c /\ SetsNull(c, t)[1] = c
         /\ Ref(c, t)[2] = t /\ Cascades(c, t)[2] = t /\ SetsNull(c, t)[2] = t
BY DEF Ref, Cascades, SetsNull

AuditFields ==
  {"date_fin", "client_contact_name", "client_contact_title", "client_contact_email",
   "client_contact_phone", "access_level", "access_missing_details",
   "intervention_window", "intervention_constraints", "scope_covered",
   "scope_excluded", "audit_type"}

\* frameworks: source and author were added.
LEMMA FrameworksAre ==
  /\ New("frameworks") = Table({}, {"source", "author"},
               {Ref("parent_version_id", "frameworks")}, {{"ref_id", "version"}})
  /\ Old("frameworks") =
         Table({}, {},
               {Ref("parent_version_id", "frameworks")}, {{"ref_id", "version"}})
<1>1. New("frameworks") = Framework
  BY DEF ModelTables, New
<1>2. Framework = Table({}, {"source", "author"},
               {Ref("parent_version_id", "frameworks")}, {{"ref_id", "version"}})
  BY DEF Framework
<1>3. Old("frameworks") = Without(Framework, {"source", "author"})
  BY <1>1 DEF BaselineTables, Old, New
<1>4. {} \ {"source", "author"} = {} /\ {"source", "author"} \ {"source", "author"} = {}
  OBVIOUS
<1>5. {r \in {Ref("parent_version_id", "frameworks")} : r[1] \notin {"source", "author"}}
        = {Ref("parent_version_id", "frameworks")}
  BY RefFields
<1>6. {k \in {{"ref_id", "version"}} : k \cap {"source", "author"} = {}} = {{"ref_id", "version"}}
  OBVIOUS
<1>7. QED
  BY <1>1, <1>2, <1>3, <1>4, <1>5, <1>6, WithoutTable

\* controls: the effort was added.
LEMMA ControlsAre ==
  /\ New("controls") = Table({}, {"effort_days"},
               {Ref("category_id", "framework_categories")}, {})
  /\ Old("controls") =
         Table({}, {},
               {Ref("category_id", "framework_categories")}, {})
<1>1. New("controls") = Control
  BY DEF ModelTables, New
<1>2. Control = Table({}, {"effort_days"},
               {Ref("category_id", "framework_categories")}, {})
  BY DEF Control
<1>3. Old("controls") = Without(Control, {"effort_days"})
  BY <1>1 DEF BaselineTables, Old, New
<1>4. {} \ {"effort_days"} = {} /\ {"effort_days"} \ {"effort_days"} = {}
  OBVIOUS
<1>5. {r \in {Ref("category_id", "framework_categories")} : r[1] \notin {"effort_days"}}
        = {Ref("category_id", "framework_categories")}
  BY RefFields
<1>6. {k \in {} : k \cap {"effort_days"} = {}} = {}
  OBVIOUS
<1>7. QED
  BY <1>1, <1>2, <1>3, <1>4, <1>5, <1>6, WithoutTable

\* entreprises: the owner was added.
LEMMA EntreprisesAre ==
  /\ New("entreprises") = Table({"owner_id"}, {},
               {Ref("owner_id", "users")}, {{"nom"}, {"siret"}})
  /\ Old("entreprises") =
         Table({}, {},
               {}, {{"nom"}, {"siret"}})
<1>1. New("entreprises") = Entreprise
  BY DEF ModelTables, New
<1>2. Entreprise = Table({"owner_id"}, {},
               {Ref("owner_id", "users")}, {{"nom"}, {"siret"}})
  BY DEF Entreprise
<1>3. Old("entreprises") = Without(Entreprise, {"owner_id"})
  BY <1>1 DEF BaselineTables, Old, New
<1>4. {"owner_id"} \ {"owner_id"} = {} /\ {} \ {"owner_id"} = {}
  OBVIOUS
<1>5. {r \in {Ref("owner_id", "users")} : r[1] \notin {"owner_id"}} = {}
  BY RefFields
<1>6. {k \in {{"nom"}, {"siret"}} : k \cap {"owner_id"} = {}} = {{"nom"}, {"siret"}}
  OBVIOUS
<1>7. QED
  BY <1>1, <1>2, <1>3, <1>4, <1>5, <1>6, WithoutTable

\* equipements: the status of the ports was moved there.
LEMMA EquipementsAre ==
  /\ New("equipements") = Table({}, {"ports_status"},
               {Ref("site_id", "sites")}, {{"site_id", "ip_address"}})
  /\ Old("equipements") =
         Table({}, {},
               {Ref("site_id", "sites")}, {{"site_id", "ip_address"}})
<1>1. New("equipements") = Equipement
  BY DEF ModelTables, New
<1>2. Equipement = Table({}, {"ports_status"},
               {Ref("site_id", "sites")}, {{"site_id", "ip_address"}})
  BY DEF Equipement
<1>3. Old("equipements") = Without(Equipement, {"ports_status"})
  BY <1>1 DEF BaselineTables, Old, New
<1>4. {} \ {"ports_status"} = {} /\ {"ports_status"} \ {"ports_status"} = {}
  OBVIOUS
<1>5. {r \in {Ref("site_id", "sites")} : r[1] \notin {"ports_status"}} = {Ref("site_id", "sites")}
  BY RefFields
<1>6. {k \in {{"site_id", "ip_address"}} : k \cap {"ports_status"} = {}}
        = {{"site_id", "ip_address"}}
  OBVIOUS
<1>7. QED
  BY <1>1, <1>2, <1>3, <1>4, <1>5, <1>6, WithoutTable

\* collect_results: the task of the agent was added.
LEMMA CollectsAre ==
  /\ New("collect_results") = Table({"username"}, {"agent_task_id"},
               {Ref("equipement_id", "equipements"), SetsNull("agent_task_id", "agent_tasks")}, {})
  /\ Old("collect_results") =
         Table({"username"}, {},
               {Ref("equipement_id", "equipements")}, {})
<1>1. New("collect_results") = CollectResult
  BY DEF ModelTables, New
<1>2. CollectResult = Table({"username"}, {"agent_task_id"},
               {Ref("equipement_id", "equipements"), SetsNull("agent_task_id", "agent_tasks")}, {})
  BY DEF CollectResult
<1>3. Old("collect_results") = Without(CollectResult, {"agent_task_id"})
  BY <1>1 DEF BaselineTables, Old, New
<1>4. {"username"} \ {"agent_task_id"} = {"username"} /\ {"agent_task_id"} \ {"agent_task_id"} = {}
  OBVIOUS
<1>5. {r \in {Ref("equipement_id", "equipements"), SetsNull("agent_task_id", "agent_tasks")} :
        r[1] \notin {"agent_task_id"}} = {Ref("equipement_id", "equipements")}
  BY RefFields
<1>6. {k \in {} : k \cap {"agent_task_id"} = {}} = {}
  OBVIOUS
<1>7. QED
  BY <1>1, <1>2, <1>3, <1>4, <1>5, <1>6, WithoutTable

\* ad_audit_results: the owner was added.
LEMMA ADAuditsAre ==
  /\ New("ad_audit_results") = Table({"owner_id", "username"},
       {"dc_list", "domain_admins", "findings"},
               {Ref("equipement_id", "equipements"), Ref("owner_id", "users")}, {})
  /\ Old("ad_audit_results") =
         Table({"username"}, {"dc_list", "domain_admins", "findings"},
               {Ref("equipement_id", "equipements")}, {})
<1>1. New("ad_audit_results") = ADAuditResultModel
  BY DEF ModelTables, New
<1>2. ADAuditResultModel = Table({"owner_id", "username"}, {"dc_list", "domain_admins", "findings"},
               {Ref("equipement_id", "equipements"), Ref("owner_id", "users")}, {})
  BY DEF ADAuditResultModel
<1>3. Old("ad_audit_results") = Without(ADAuditResultModel, {"owner_id"})
  BY <1>1 DEF BaselineTables, Old, New
<1>4. {"owner_id", "username"} \ {"owner_id"} = {"username"}
        /\ {"dc_list", "domain_admins", "findings"} \ {"owner_id"}
             = {"dc_list", "domain_admins", "findings"}
  OBVIOUS
<1>5. {r \in {Ref("equipement_id", "equipements"), Ref("owner_id", "users")} : r[1]
        \notin {"owner_id"}} = {Ref("equipement_id", "equipements")}
  BY RefFields
<1>6. {k \in {} : k \cap {"owner_id"} = {}} = {}
  OBVIOUS
<1>7. QED
  BY <1>1, <1>2, <1>3, <1>4, <1>5, <1>6, WithoutTable

\* attachments: the encryption columns were added.
LEMMA AttachmentsAre ==
  /\ New("attachments") = Table({}, {"file_uuid", "encrypted_dek", "dek_nonce", "kek_version"},
               {Cascades("control_result_id", "control_results")}, {{"file_uuid"}})
  /\ Old("attachments") =
         Table({}, {},
               {Cascades("control_result_id", "control_results")}, {})
<1>1. New("attachments") = Attachment
  BY DEF ModelTables, New
<1>2. Attachment = Table({}, {"file_uuid", "encrypted_dek", "dek_nonce", "kek_version"},
               {Cascades("control_result_id", "control_results")}, {{"file_uuid"}})
  BY DEF Attachment
<1>3. Old("attachments") = Without(Attachment,
        {"file_uuid", "encrypted_dek", "dek_nonce", "kek_version"})
  <2>1. Old("attachments") = Without(Attachment, Attachment.opt)
    BY <1>1 DEF BaselineTables, Old, New
  <2>2. Attachment.opt = {"file_uuid", "encrypted_dek", "dek_nonce", "kek_version"}
    BY <1>2 DEF Table
  <2>3. QED
    BY <2>1, <2>2
<1>4. {} \ {"file_uuid", "encrypted_dek", "dek_nonce", "kek_version"} = {}
        /\ {"file_uuid", "encrypted_dek", "dek_nonce", "kek_version"}
             \ {"file_uuid", "encrypted_dek", "dek_nonce", "kek_version"} = {}
  OBVIOUS
<1>5. {r \in {Cascades("control_result_id", "control_results")} : r[1]
        \notin {"file_uuid", "encrypted_dek", "dek_nonce", "kek_version"}}
          = {Cascades("control_result_id", "control_results")}
  BY RefFields
<1>6. {k \in {{"file_uuid"}} : k \cap {"file_uuid", "encrypted_dek", "dek_nonce", "kek_version"}
        = {}} = {}
  OBVIOUS
<1>7. QED
  BY <1>1, <1>2, <1>3, <1>4, <1>5, <1>6, WithoutTable

\* audits: the owner and the fields of the intervention were added.
LEMMA AuditsAre ==
  /\ New("audits") = Table({"owner_id"}, AuditFields,
               {Ref("entreprise_id", "entreprises"), Ref("owner_id", "users")}, {})
  /\ Old("audits") =
         Table({}, {},
               {Ref("entreprise_id", "entreprises")}, {})
<1>1. New("audits") = Audit
  BY DEF ModelTables, New
<1>2. Audit = Table({"owner_id"}, AuditFields,
               {Ref("entreprise_id", "entreprises"), Ref("owner_id", "users")}, {})
  BY DEF Audit, AuditFields
<1>3. Old("audits") = Without(Audit, ({"owner_id"} \cup AuditFields))
  <2>1. Old("audits") = Without(Audit, (Audit.req \cup Audit.opt))
    BY <1>1 DEF BaselineTables, Old, New
  <2>2. (Audit.req \cup Audit.opt) = ({"owner_id"} \cup AuditFields)
    BY <1>2 DEF Table
  <2>3. QED
    BY <2>1, <2>2
<1>4. {"owner_id"} \ ({"owner_id"} \cup AuditFields) = {}
        /\ AuditFields \ ({"owner_id"} \cup AuditFields) = {}
  BY DEF AuditFields
<1>5. {r \in {Ref("entreprise_id", "entreprises"), Ref("owner_id", "users")} : r[1]
        \notin ({"owner_id"} \cup AuditFields)} = {Ref("entreprise_id", "entreprises")}
  BY RefFields DEF AuditFields
<1>6. {k \in {} : k \cap ({"owner_id"} \cup AuditFields) = {}} = {}
  BY DEF AuditFields
<1>7. QED
  BY <1>1, <1>2, <1>3, <1>4, <1>5, <1>6, WithoutTable

\* The tables that preceded the first revision.
LEMMA OldNames ==
  DOMAIN BaselineTables =
    {"users", "contacts", "sites", "entreprises", "audits", "equipements",
     "equipements_reseau", "equipements_serveur", "equipements_firewall", "frameworks",
     "framework_categories", "controls", "assessment_campaigns", "assessments",
     "control_results", "attachments", "collect_results", "config_analyses",
     "ad_audit_results", "scans_reseau", "scan_hosts", "scan_ports",
     "pingcastle_results", "monkey365_scan_results"}
BY DEF BaselineTables

\* The tables of the models.
LEMMA NewNames ==
  DOMAIN ModelTables =
    {"users", "entreprises", "contacts", "sites", "audits", "equipements",
     "equipements_reseau", "equipements_serveur", "equipements_firewall",
     "vlan_definitions", "network_links", "network_map_layouts", "site_connections",
     "frameworks", "framework_categories", "controls", "assessment_campaigns",
     "assessments", "control_results", "attachments", "findings",
     "finding_status_history", "agents", "agent_tasks", "task_artifacts",
     "collect_pipelines", "collect_results", "config_analyses", "ad_audit_results",
     "oradad_configs", "anssi_checkpoints", "monkey365_scan_results", "tags",
     "tag_associations", "checklist_templates", "checklist_sections", "checklist_items",
     "checklist_instances", "checklist_responses", "audit_reports", "report_sections"}
BY DEF ModelTables

MonkeyRequired == {"entreprise_id", "status", "scan_id", "created_at"}
MonkeyColumns  == {"error_message", "config_snapshot", "output_path", "entreprise_slug",
                   "findings_count", "completed_at", "duration_seconds"}

Monkey(required, nullable) ==
  Table(MonkeyRequired \cup required, MonkeyColumns \cup nullable,
        {Ref("entreprise_id", "entreprises")}, {{"scan_id"}})

\* monkey365_scan_results: one column added, three dropped.
LEMMA MonkeysAre ==
  /\ New("monkey365_scan_results") = Monkey({}, {"auth_method"})
  /\ Old("monkey365_scan_results") =
       Monkey({"force_msal_desktop"}, {"auth_mode", "powershell_config"})
<1> USE DEF MonkeyRequired, MonkeyColumns, Monkey
<1> DEFINE M == Monkey365ScanResult
           c == {"auth_method"}
<1>1. New("monkey365_scan_results") = M
  BY DEF ModelTables, New
<1>2. M = Monkey({}, {"auth_method"})
  BY DEF Monkey365ScanResult
<1>3. Old("monkey365_scan_results")
        = Table(Without(M, c).req \cup {"force_msal_desktop"},
                Without(M, c).opt \cup {"auth_mode", "powershell_config"},
                Without(M, c).refs, Without(M, c).keys)
  BY <1>1 DEF BaselineTables, Old, New
<1>4. {r \in {Ref("entreprise_id", "entreprises")} : r[1] \notin c}
        = {Ref("entreprise_id", "entreprises")}
  BY RefFields
<1>5. {k \in {{"scan_id"}} : k \cap c = {}} = {{"scan_id"}}
  OBVIOUS
<1>6. Without(M, c) = Monkey({}, {})
  BY <1>2, <1>4, <1>5, WithoutTable
<1>7. Old("monkey365_scan_results") = Monkey({"force_msal_desktop"},
        {"auth_mode", "powershell_config"})
  BY <1>3, <1>6 DEF Table
<1>8. QED
  BY <1>1, <1>2, <1>7

AgentColumns ==
  {"cert_fingerprint", "cert_serial", "enrollment_token_hash", "enrollment_token_expires",
   "last_seen", "last_ip", "os_info", "agent_version", "updated_at"}

AgentRequired ==
  {"agent_uuid", "name", "user_id", "enrollment_used", "status", "allowed_tools", "created_at"}

AgentWith(nullable) ==
  Table(AgentRequired, AgentColumns \cup nullable, {Ref("user_id", "users")},
        {{"agent_uuid"}, {"cert_fingerprint"}})

\* agents: two columns were added after its revision.
LEMMA AgentsAre == New("agents") = AgentWith({"revoked_at", "cert_expires_at"})
BY DEF ModelTables, New, Agent, AgentWith, AgentRequired, AgentColumns

PipelineColumns == {"error_message", "started_at", "completed_at"}

Pipeline(nullable, references) ==
  Table(CollectPipeline.req, PipelineColumns \cup nullable,
        {Ref("site_id", "sites"), Ref("created_by", "users")} \cup references, {})

\* collect_pipelines: the task of an agent instead of a scan.
LEMMA PipelinesAre ==
  /\ New("collect_pipelines")
       = Pipeline({"agent_id", "scan_task_uuid"},
                  {Ref("agent_id", "agents"), Ref("scan_task_uuid", "agent_tasks")})
  /\ PipelineWithScan = Pipeline({"scan_id"}, {Ref("scan_id", "scans_reseau")})
<1>1. CollectPipeline
        = Pipeline({"agent_id", "scan_task_uuid"},
                   {Ref("agent_id", "agents"), Ref("scan_task_uuid", "agent_tasks")})
  BY DEF CollectPipeline, Pipeline, PipelineColumns, Table
<1>2. New("collect_pipelines") = CollectPipeline
  BY DEF ModelTables, New
<1>3. CollectPipeline.opt \ {"agent_id", "scan_task_uuid"} = PipelineColumns
  BY <1>1 DEF Pipeline, PipelineColumns, Table
<1>4. {Ref("created_by", "users"), Ref("scan_id", "scans_reseau"), Ref("site_id", "sites")}
        = {Ref("site_id", "sites"), Ref("created_by", "users")}
          \cup {Ref("scan_id", "scans_reseau")}
  OBVIOUS
<1>5. PipelineWithScan = Pipeline({"scan_id"}, {Ref("scan_id", "scans_reseau")})
  BY <1>3, <1>4 DEF PipelineWithScan, Pipeline
<1>6. QED
  BY <1>1, <1>2, <1>5

\* equipements_reseau: the status of the ports was moved away.
LEMMA ReseauxAre ==
  /\ New("equipements_reseau") = Table({}, {}, {Ref("id", "equipements")}, {})
  /\ Old("equipements_reseau") = Table({}, {"ports_status"}, {Ref("id", "equipements")}, {})
BY DEF ModelTables, BaselineTables, New, Old, EquipementReseau

\* scans_reseau, which is dropped in the end.
LEMMA ScansAre ==
  Old("scans_reseau") = Table({}, {}, {Ref("site_id", "sites")}, {})
BY DEF BaselineTables, Old

\* network_links: its unique key was dropped.
LEMMA LinksAre == New("network_links") = NetworkLink /\ NetworkLink.keys = {}
BY DEF ModelTables, New, NetworkLink, Table

-----------------------------------------------------------------------------
\* The stages: the tables after i revisions of those that were there before.

LinksPaired == Table(NetworkLink.req, NetworkLink.opt, NetworkLink.refs, {LinkPair})

AuditWith(required, nullable) ==
  Table(required, nullable, {Ref("entreprise_id", "entreprises"), Ref("owner_id", "users")}, {})

ADAuditWith(required, nullable) ==
  Table({"username"} \cup required, {"dc_list", "domain_admins", "findings"} \cup nullable,
        {Ref("equipement_id", "equipements"), Ref("owner_id", "users")}, {})

ScanWith(required, nullable) ==
  Table(required, nullable, {Ref("site_id", "sites"), Ref("owner_id", "users")}, {})

Monkeys == "monkey365_scan_results"

Version(t, i) ==
  CASE t = "frameworks"        -> IF i < 1 THEN Old(t) ELSE New(t)
    [] t = "network_links"     -> IF i < 3 THEN LinksPaired ELSE New(t)
    [] t \in {"equipements", "equipements_reseau"} -> IF i < 5 THEN Old(t) ELSE New(t)
    [] t = Monkeys             ->
         IF i < 8 THEN Old(t)
         ELSE IF i < 9 THEN Monkey({"force_msal_desktop"},
                                   {"auth_mode", "powershell_config", "archive_path"})
         ELSE IF i < 13 THEN Monkey({}, {}) ELSE New(t)
    [] t = "agents"            ->
         IF i < 14 THEN AgentWith({}) ELSE IF i < 29 THEN AgentWith({"revoked_at"}) ELSE New(t)
    [] t = "attachments"       -> IF i < 11 THEN Old(t) ELSE New(t)
    [] t = "audits"            ->
         IF i < 11 THEN Old(t) ELSE IF i < 21 THEN AuditWith({}, {"owner_id"})
         ELSE IF i < 27 THEN AuditWith({"owner_id"}, {}) ELSE New(t)
    [] t = "scans_reseau"      ->
         IF i < 11 THEN Old(t) ELSE IF i < 23 THEN ScanWith({}, {"owner_id"})
         ELSE ScanWith({"owner_id"}, {})
    [] t = "ad_audit_results"  ->
         IF i < 11 THEN Old(t) ELSE IF i < 23 THEN ADAuditWith({}, {"owner_id"}) ELSE New(t)
    [] t = "entreprises"       -> IF i < 22 THEN Old(t) ELSE New(t)
    [] t = "collect_pipelines" -> IF i < 31 THEN PipelineWithScan ELSE New(t)
    [] t = "collect_results"   -> IF i < 33 THEN Old(t) ELSE New(t)
    [] t = "controls"          -> IF i < 34 THEN Old(t) ELSE New(t)
    [] OTHER -> IF t \in DOMAIN ModelTables THEN New(t) ELSE Old(t)

Names(i) ==
  LET From(k, tables) == IF i < k THEN {} ELSE tables
  IN  (DOMAIN BaselineTables
         \cup From(2, {"network_links", "network_map_layouts", "site_connections"})
         \cup From(6, {"vlan_definitions"})
         \cup From(10, {"agents", "agent_tasks"})
         \cup From(12, {"anssi_checkpoints"})
         \cup From(15, {"oradad_configs"})
         \cup From(18, {"task_artifacts"})
         \cup From(24, {"tags", "tag_associations"})
         \cup From(25, {"checklist_templates", "checklist_sections", "checklist_items",
                        "checklist_instances", "checklist_responses"})
         \cup From(26, {"audit_reports", "report_sections"})
         \cup From(28, {"findings", "finding_status_history"})
         \cup From(30, {"collect_pipelines"}))
      \ (From(17, {"pingcastle_results"})
           \cup From(32, {"scan_ports", "scan_hosts", "scans_reseau"}))

\* Without the table of the scans of Monkey365 when its revision was undone,
\* which drops it although it may not have created it.
Stage(i, lost) == [t \in Names(i) \ lost |-> Version(t, i)]

Losses(i) == IF i < 7 THEN {{}, {Monkeys}} ELSE {{}}

\* No revision: the tables as they were found.
LEMMA StageZero == Stage(0, {}) = BaselineTables
<1>1. \A t \in DOMAIN BaselineTables \cap DOMAIN ModelTables :
        t \notin {"frameworks", "equipements", "equipements_reseau", Monkeys, "attachments",
                  "audits", "ad_audit_results", "entreprises", "collect_results", "controls"}
          => Old(t) = New(t)
  BY OldNames, NewNames DEF BaselineTables, ModelTables, Old, New, Monkeys
<1>2. Names(0) = DOMAIN BaselineTables
  BY DEF Names
<1>3. \A t \in DOMAIN BaselineTables : Version(t, 0) = BaselineTables[t]
  BY <1>1, OldNames DEF Version, Old, Monkeys
<1>4. BaselineTables = [t \in DOMAIN BaselineTables |-> BaselineTables[t]]
  BY DEF BaselineTables
<1>5. QED
  BY <1>2, <1>3, <1>4 DEF Stage

\* Every revision: the tables of the models.
LEMMA StageLast == Stage(34, {}) = ModelTables
<1>1. Names(34) = DOMAIN ModelTables
  BY OldNames, NewNames DEF Names
<1>2. \A t \in DOMAIN ModelTables : Version(t, 34) = ModelTables[t]
  BY NewNames DEF Version, New, Monkeys
<1>3. ModelTables = [t \in DOMAIN ModelTables |-> ModelTables[t]]
  BY DEF ModelTables
<1>4. QED
  BY <1>1, <1>2, <1>3 DEF Stage

-----------------------------------------------------------------------------
\* A revision from one stage to the next: its operations, one by one.

IsFun(g) == g = [u \in DOMAIN g |-> g[u]]

\* A stage is known by the names of its tables and by each of them.
LEMMA StageIs ==
  ASSUME NEW i, NEW lost, NEW tables, IsFun(tables),
         DOMAIN tables = Names(i) \ lost, \A u \in DOMAIN tables : tables[u] = Version(u, i)
  PROVE  tables = Stage(i, lost)
BY DEF Stage, IsFun

\* The second of two values put at one place is there.
LEMMA PutTwice ==
  ASSUME NEW g, NEW t, NEW v, NEW w
  PROVE  Put(Put(g, t, v), t, w) = Put(g, t, w) /\ t \in DOMAIN Put(g, t, v) /\ Put(g, t, v)[t] = v
BY DEF Put

\* ALTER TABLE, followed on the fields of the table: a nullable column,
LEMMA Adding ==
  ASSUME NEW d, NEW g, NEW t, NEW c, NEW e, NEW a, NEW b, NEW r, NEW k,
         d.tables = Put(g, t, Table(a, b, r, k)), Goes(d, AddColumn(t, c), e)
  PROVE  e.tables = Put(g, t, Table(a, b \cup {c}, r, k))
<1> DEFINE o == AddColumn(t, c)
<1>1. o.op = "add" /\ o.t = t /\ Altered(Table(a, b, r, k), o) = Table(a, b \cup {c}, r, k)
  BY DEF AddColumn, Altered, Table
<1>2. Goes(d, o, e)
  OBVIOUS
<1> HIDE DEF o
<1>3. t \in DOMAIN d.tables /\ d.tables[t] = Table(a, b, r, k)
  BY PutTwice
<1>4. e.tables = Put(d.tables, o.t, Altered(d.tables[o.t], o))
  BY <1>1, <1>2, <1>3, Altering
<1>5. \A v : Put(d.tables, t, v) = Put(g, t, v)
  BY PutTwice
<1>6. QED
  BY <1>1, <1>3, <1>4, <1>5

\* a column dropped with its constraints,
LEMMA Removing ==
  ASSUME NEW d, NEW g, NEW t, NEW c, NEW e, NEW a, NEW b, NEW r, NEW k,
         d.tables = Put(g, t, Table(a, b, r, k)), Goes(d, DropColumn(t, c), e)
  PROVE  /\ e.tables = Put(g, t, Table(a \ {c}, b \ {c}, {x \in r : x[1] \notin {c}},
                                              {x \in k : x \cap {c} = {}}))

<1> DEFINE o == DropColumn(t, c)
<1>1. o.op = "drop column" /\ o.t = t /\ o.c = c
  BY DEF DropColumn
<1> HIDE DEF o
<1>0. t \in DOMAIN d.tables /\ d.tables[t] = Table(a, b, r, k)
  BY PutTwice
<1>2. Altered(Table(a, b, r, k), o) = Without(Table(a, b, r, k), {c})
  BY <1>1 DEF Altered
<1>3. Goes(d, o, e)
  BY DEF o
<1>4. e.tables = Put(d.tables, o.t, Altered(d.tables[o.t], o))
  BY <1>0, <1>1, <1>3, Altering
<1>5. Without(Table(a, b, r, k), {c})
        = Table(a \ {c}, b \ {c}, {x \in r : x[1] \notin {c}}, {x \in k : x \cap {c} = {}})
  BY WithoutTable
<1>6. \A v : Put(d.tables, t, v) = Put(g, t, v)
  BY PutTwice
<1>7. QED
  BY <1>0, <1>1, <1>2, <1>4, <1>5, <1>6

\* a column made NOT NULL,
LEMMA Requiring ==
  ASSUME NEW d, NEW g, NEW t, NEW c, NEW e, NEW a, NEW b, NEW r, NEW k,
         d.tables = Put(g, t, Table(a, b, r, k)), Goes(d, NotNull(t, c), e)
  PROVE  e.tables = Put(g, t, Table(a \cup {c}, b \ {c}, r, k))
<1> DEFINE o == NotNull(t, c)
<1>1. o.op = "not null" /\ o.t = t /\ Altered(Table(a, b, r, k), o)
        = Table(a \cup {c}, b \ {c}, r, k)
  BY DEF NotNull, Altered, Table
<1>2. Goes(d, o, e)
  OBVIOUS
<1> HIDE DEF o
<1>3. t \in DOMAIN d.tables /\ d.tables[t] = Table(a, b, r, k)
  BY PutTwice
<1>4. e.tables = Put(d.tables, o.t, Altered(d.tables[o.t], o))
  BY <1>1, <1>2, <1>3, Altering
<1>5. \A v : Put(d.tables, t, v) = Put(g, t, v)
  BY PutTwice
<1>6. QED
  BY <1>1, <1>3, <1>4, <1>5

\* a column made nullable,
LEMMA Relaxing ==
  ASSUME NEW d, NEW g, NEW t, NEW c, NEW e, NEW a, NEW b, NEW r, NEW k,
         d.tables = Put(g, t, Table(a, b, r, k)), Goes(d, Nullable(t, c), e)
  PROVE  e.tables = Put(g, t, Table(a \ {c}, b \cup {c}, r, k))
<1> DEFINE o == Nullable(t, c)
<1>1. o.op = "nullable" /\ o.t = t /\ Altered(Table(a, b, r, k), o)
        = Table(a \ {c}, b \cup {c}, r, k)
  BY DEF Nullable, Altered, Table
<1>2. Goes(d, o, e)
  OBVIOUS
<1> HIDE DEF o
<1>3. t \in DOMAIN d.tables /\ d.tables[t] = Table(a, b, r, k)
  BY PutTwice
<1>4. e.tables = Put(d.tables, o.t, Altered(d.tables[o.t], o))
  BY <1>1, <1>2, <1>3, Altering
<1>5. \A v : Put(d.tables, t, v) = Put(g, t, v)
  BY PutTwice
<1>6. QED
  BY <1>1, <1>3, <1>4, <1>5

\* a foreign key added,
LEMMA Referring ==
  ASSUME NEW d, NEW g, NEW t, NEW c, NEW n, NEW e, NEW a, NEW b, NEW r, NEW k,
         d.tables = Put(g, t, Table(a, b, r, k)), Goes(d, AddRef(t, c, n), e)
  PROVE  e.tables = Put(g, t, Table(a, b, r \cup {c}, k))
<1> DEFINE o == AddRef(t, c, n)
<1>1. o.op = "add ref" /\ o.t = t /\ Altered(Table(a, b, r, k), o) = Table(a, b, r \cup {c}, k)
  BY DEF AddRef, Altered, Table
<1>2. Goes(d, o, e)
  OBVIOUS
<1> HIDE DEF o
<1>3. t \in DOMAIN d.tables /\ d.tables[t] = Table(a, b, r, k)
  BY PutTwice
<1>4. e.tables = Put(d.tables, o.t, Altered(d.tables[o.t], o))
  BY <1>1, <1>2, <1>3, Altering
<1>5. \A v : Put(d.tables, t, v) = Put(g, t, v)
  BY PutTwice
<1>6. QED
  BY <1>1, <1>3, <1>4, <1>5

\* a foreign key dropped,
LEMMA Unreferring ==
  ASSUME NEW d, NEW g, NEW t, NEW c, NEW n, NEW e, NEW a, NEW b, NEW r, NEW k,
         d.tables = Put(g, t, Table(a, b, r, k)), Goes(d, DropRef(t, c, n), e)
  PROVE  e.tables = Put(g, t, Table(a, b, r \ {c}, k))
<1> DEFINE o == DropRef(t, c, n)
<1>1. o.op = "drop ref" /\ o.t = t /\ Altered(Table(a, b, r, k), o) = Table(a, b, r \ {c}, k)
  BY DEF DropRef, Altered, Table
<1>2. Goes(d, o, e)
  OBVIOUS
<1> HIDE DEF o
<1>3. t \in DOMAIN d.tables /\ d.tables[t] = Table(a, b, r, k)
  BY PutTwice
<1>4. e.tables = Put(d.tables, o.t, Altered(d.tables[o.t], o))
  BY <1>1, <1>2, <1>3, Altering
<1>5. \A v : Put(d.tables, t, v) = Put(g, t, v)
  BY PutTwice
<1>6. QED
  BY <1>1, <1>3, <1>4, <1>5

\* a unique key added,
LEMMA Keying ==
  ASSUME NEW d, NEW g, NEW t, NEW c, NEW n, NEW e, NEW a, NEW b, NEW r, NEW k,
         d.tables = Put(g, t, Table(a, b, r, k)), Goes(d, AddKey(t, c, n), e)
  PROVE  e.tables = Put(g, t, Table(a, b, r, k \cup {c}))
<1> DEFINE o == AddKey(t, c, n)
<1>1. o.op = "add key" /\ o.t = t /\ Altered(Table(a, b, r, k), o) = Table(a, b, r, k \cup {c})
  BY DEF AddKey, Altered, Table
<1>2. Goes(d, o, e)
  OBVIOUS
<1> HIDE DEF o
<1>3. t \in DOMAIN d.tables /\ d.tables[t] = Table(a, b, r, k)
  BY PutTwice
<1>4. e.tables = Put(d.tables, o.t, Altered(d.tables[o.t], o))
  BY <1>1, <1>2, <1>3, Altering
<1>5. \A v : Put(d.tables, t, v) = Put(g, t, v)
  BY PutTwice
<1>6. QED
  BY <1>1, <1>3, <1>4, <1>5

\* a unique key dropped,
LEMMA Unkeying ==
  ASSUME NEW d, NEW g, NEW t, NEW c, NEW n, NEW e, NEW a, NEW b, NEW r, NEW k,
         d.tables = Put(g, t, Table(a, b, r, k)), Goes(d, DropKey(t, c, n), e)
  PROVE  e.tables = Put(g, t, Table(a, b, r, k \ {c}))
<1> DEFINE o == DropKey(t, c, n)
<1>1. o.op = "drop key" /\ o.t = t /\ Altered(Table(a, b, r, k), o) = Table(a, b, r, k \ {c})
  BY DEF DropKey, Altered, Table
<1>2. Goes(d, o, e)
  OBVIOUS
<1> HIDE DEF o
<1>3. t \in DOMAIN d.tables /\ d.tables[t] = Table(a, b, r, k)
  BY PutTwice
<1>4. e.tables = Put(d.tables, o.t, Altered(d.tables[o.t], o))
  BY <1>1, <1>2, <1>3, Altering
<1>5. \A v : Put(d.tables, t, v) = Put(g, t, v)
  BY PutTwice
<1>6. QED
  BY <1>1, <1>3, <1>4, <1>5

\* a column made text: nothing that the tables tell.
LEMMA Texting ==
  ASSUME NEW d, NEW t, NEW c, NEW e,
         IsFun(d.tables), Goes(d, ToText(t, c), e)
  PROVE  e.tables = d.tables
<1> DEFINE x == ToText(t, c)
<1>1. x.op = "to text" /\ x.t = t /\ x.c = c /\ Altered(d.tables[t], x) = d.tables[t]
  BY DEF ToText, Altered
<1>0. t \in DOMAIN d.tables
  BY DEF Goes, Possible, HasColumn, HasTable, ToText
<1>2. Put(d.tables, t, d.tables[t]) = d.tables
  BY <1>0 DEF Put, IsFun
<1>3. Goes(d, x, e)
  OBVIOUS
<1> HIDE DEF x
<1>4. e.tables = Put(d.tables, x.t, Altered(d.tables[x.t], x))
  BY <1>0, <1>1, <1>3, Altering
<1>5. QED
  BY <1>1, <1>2, <1>4

\* What a revision does to rows leaves the tables.
LEMMA FillingIn ==
  ASSUME NEW d, NEW t, NEW c, NEW e,
         Goes(d, Backfill(t, c), e) \/ Goes(d, DeleteOwnerless(t), e) \/ Goes(d, Rows(t), e)
  PROVE  e.tables = d.tables
BY Filling DEF Backfill, DeleteOwnerless, Rows

\* A value put where it was changes nothing.
LEMMA PutSelf ==
  ASSUME NEW g, IsFun(g), NEW t \in DOMAIN g
  PROVE  g = Put(g, t, g[t])
BY DEF Put, IsFun

-----------------------------------------------------------------------------
\* What every command keeps.

\* An operation that is not about a type
Harmless(o) == o.op \notin {"create type", "drop type"}

\* leaves the types as they are,
LEMMA KeepsTypes ==
  ASSUME NEW d, NEW o, NEW e, Goes(d, o, e), Harmless(o)
  PROVE  e.types = d.types
BY EffectKeeps DEF Goes, Harmless

\* and so does every sequence of them.
LEMMA PerformTypes ==
  ASSUME NEW d, IsDb(d), NEW ops, Len(ops) \in Nat, Perform(d, ops).ok,
         \A i \in 1 .. Len(ops) : Harmless(ops[i])
  PROVE  Perform(d, ops).types = d.types
<1> DEFINE n == Len(ops)
<1>1. PICK f : /\ f[0] = d /\ f[n] = Perform(d, ops)
               /\ \A i \in 1 .. n : Goes(f[i - 1], ops[i], f[i])
  BY PerformRun
<1> DEFINE good == {i \in 0 .. n : f[i].types = d.types}
<1>2. 0 \in good
  BY <1>1
<1>3. ASSUME NEW i \in 1 .. n, i - 1 \in good
      PROVE  i \in good
  <2>1. Goes(f[i - 1], ops[i], f[i])
    BY <1>1
  <2>2. f[i - 1].types = d.types
    BY <1>3
  <2>3. Harmless(ops[i])
    OBVIOUS
  <2>4. f[i].types = f[i - 1].types
    BY <2>1, <2>3, KeepsTypes
  <2>5. QED
    BY <2>2, <2>4
<1> HIDE DEF good, n
<1>4. \A i \in 0 .. n : i \in good
  BY <1>2, <1>3, IntervalInduction DEF n
<1>5. n \in good
  <2>1. n \in 0 .. n
    BY DEF n
  <2>2. QED
    BY <1>4, <2>1
<1>6. QED
  BY <1>1, <1>5 DEF good

\* Rows stay in tables that exist, and the users what they are.
LEMMA EffectSane ==
  ASSUME NEW d, IsDb(d), Sane(d), NEW o
  PROVE  IsDb(Effect(d, o)) /\ Sane(Effect(d, o)) /\ Effect(d, o).users = d.users
BY EffectKeeps

\* So it is after a sequence of operations that went through.
LEMMA PerformKeeps ==
  ASSUME NEW d, IsDb(d), Sane(d), NEW ops, Len(ops) \in Nat, Perform(d, ops).ok
  PROVE  /\ IsDb(Perform(d, ops)) /\ Sane(Perform(d, ops))
         /\ Perform(d, ops).users = d.users
<1> DEFINE n == Len(ops)
<1>1. PICK f : /\ f[0] = d /\ f[n] = Perform(d, ops)
               /\ \A i \in 1 .. n : Goes(f[i - 1], ops[i], f[i])
  BY PerformRun
<1> DEFINE good == {i \in 0 .. n : IsDb(f[i]) /\ Sane(f[i]) /\ f[i].users = d.users}
<1>2. 0 \in good
  BY <1>1
<1>3. ASSUME NEW i \in 1 .. n, i - 1 \in good
      PROVE  i \in good
  <2>1. Goes(f[i - 1], ops[i], f[i])
    BY <1>1
  <2>2. IsDb(f[i - 1]) /\ Sane(f[i - 1]) /\ f[i - 1].users = d.users
    BY <1>3
  <2>3. IsDb(f[i]) /\ Sane(f[i]) /\ f[i].users = d.users
    <3>1. IsDb(f[i - 1]) /\ f[i] = Effect(f[i - 1], ops[i])
      BY <2>1 DEF Goes
    <3>2. QED
      BY <2>2, <3>1, EffectSane
  <2>4. QED
    BY <2>3
<1> HIDE DEF good, n
<1>4. \A i \in 0 .. n : i \in good
  BY <1>2, <1>3, IntervalInduction DEF n
<1>5. n \in good
  BY <1>4 DEF n
<1>6. QED
  BY <1>1, <1>5 DEF good

\* From i revisions to j one table is created or altered, or dropped.
Sets(i, j, t) ==
  Names(j) = Names(i) \cup {t} /\ \A u \in Names(i) \ {t} : Version(u, j) = Version(u, i)

Drops(i, j, t) ==
  Names(j) = Names(i) \ {t} /\ \A u \in Names(j) : Version(u, j) = Version(u, i)

\* What sets a table going up drops it, or sets it, going down.
LEMMA SetsDrops ==
  ASSUME NEW i, NEW j, NEW t, Sets(i, j, t)
  PROVE  /\ t \notin Names(i) => Drops(j, i, t)
         /\ t \in Names(i) => Sets(j, i, t)
BY DEF Sets, Drops

\* The next stage, when one table is set,
LEMMA StagePut ==
  ASSUME NEW i, NEW j, NEW lost, NEW t, t \notin lost, Sets(i, j, t)
  PROVE  Put(Stage(i, lost), t, Version(t, j)) = Stage(j, lost)
BY DEF Stage, Put, Sets

\* when one is dropped,
LEMMA StageCut ==
  ASSUME NEW i, NEW j, NEW lost, NEW t, Drops(i, j, t)
  PROVE  Cut(Stage(i, lost), t) = Stage(j, lost)
BY DEF Stage, Cut, Drops

\* Several were.
PutAll(tables, ts, i, j, lost) ==
  /\ ts \cap lost = {}
  /\ IsFun(tables) /\ DOMAIN tables = (Names(i) \ lost) \cup ts
  /\ Names(j) = Names(i) \cup ts
  /\ \A u \in ts : tables[u] = Version(u, j)
  /\ \A u \in (Names(i) \ lost) \ ts :
       tables[u] = Version(u, i) /\ Version(u, j) = Version(u, i)

\* when several are set,
LEMMA StagePuts ==
  ASSUME NEW i, NEW j, NEW lost, NEW ts, NEW tables, PutAll(tables, ts, i, j, lost)
  PROVE  tables = Stage(j, lost)
BY DEF Stage, IsFun, PutAll

CutAll(tables, ts, i, j, lost) ==
  /\ IsFun(tables) /\ DOMAIN tables = (Names(i) \ lost) \ ts
  /\ Names(j) = Names(i) \ ts
  /\ \A u \in DOMAIN tables : tables[u] = Version(u, i) /\ Version(u, j) = Version(u, i)

\* when several are dropped.
LEMMA StageCuts ==
  ASSUME NEW i, NEW j, NEW lost, NEW ts, NEW tables, CutAll(tables, ts, i, j, lost)
  PROVE  tables = Stage(j, lost)
BY DEF Stage, IsFun, CutAll

\* A revision of one operation,
LEMMA OneOperation ==
  ASSUME NEW d, IsDb(d), NEW o, Perform(d, <<o>>).ok
  PROVE  Goes(d, o, Perform(d, <<o>>))
<1> DEFINE ops == <<o>>
<1>1. Len(ops) = 1 /\ ops[1] = o
  OBVIOUS
<1> HIDE DEF ops
<1>2. PICK f : f[0] = d /\ f[1] = Perform(d, ops) /\ Goes(f[1 - 1], o, f[1])
  <2>1. PICK f : /\ f[0] = d /\ f[Len(ops)] = Perform(d, ops)
                 /\ \A i \in 1 .. Len(ops) : Goes(f[i - 1], ops[i], f[i])
    BY <1>1, PerformRun DEF ops
  <2>2. QED
    BY <1>1, <2>1
<1>3. QED
  BY <1>2 DEF ops

\* and of none.
LEMMA NoOperation ==
  ASSUME NEW d
  PROVE  Perform(d, <<>>) = d
<1> DEFINE ops == <<>>
<1>1. Len(ops) = 0
  OBVIOUS
<1> HIDE DEF ops
<1>2. Perform(d, ops) = d
  BY <1>1, PerformSteps
<1>3. QED
  BY <1>2 DEF ops

\* The operations of a revision that went through.
UpRun(i, d, ops, f) ==
  /\ f[0] = d /\ f[Len(ops)] = UpOne(i, d)
  /\ \A k \in 1 .. Len(ops) : Goes(f[k - 1], ops[k], f[k])

\* The databases between the operations of an upgrade,
LEMMA UpRuns ==
  ASSUME NEW i, NEW d, IsDb(d), UpOne(i, d).ok, NEW ops, Revision(i, d).up = ops, Len(ops) \in Nat
  PROVE  \E f : UpRun(i, d, ops, f)
BY PerformRun DEF UpOne, UpRun

DownRun(i, d, ops, f) ==
  /\ f[0] = d /\ f[Len(ops)] = DownOne(i, d)
  /\ \A k \in 1 .. Len(ops) : Goes(f[k - 1], ops[k], f[k])

\* and of a downgrade.
LEMMA DownRuns ==
  ASSUME NEW i, NEW d, IsDb(d), DownOne(i, d).ok, NEW ops, Revision(i, d).down = ops,
         Len(ops) \in Nat
  PROVE  \E f : DownRun(i, d, ops, f)
BY PerformRun DEF DownOne, DownRun

\* An upgrade without an operation about a type keeps the types,
LEMMA UpTypes ==
  ASSUME NEW i, NEW d, IsDb(d), UpOne(i, d).ok, NEW ops, Revision(i, d).up = ops, Len(ops) \in Nat,
         \A k \in 1 .. Len(ops) : Harmless(ops[k])
  PROVE  UpOne(i, d).types = d.types
BY PerformTypes DEF UpOne

\* and so does a downgrade.
LEMMA DownTypes ==
  ASSUME NEW i, NEW d, IsDb(d), DownOne(i, d).ok, NEW ops, Revision(i, d).down = ops,
         Len(ops) \in Nat, \A k \in 1 .. Len(ops) : Harmless(ops[k])
  PROVE  DownOne(i, d).types = d.types
BY PerformTypes DEF DownOne

\* The operations that are not about a type.
LEMMA HarmlessOps ==
  ASSUME NEW n, NEW t, NEW v, NEW c
  PROVE  /\ Harmless(Create(t, v)) /\ Harmless(Drop(t)) /\ Harmless(AddColumn(t, c))
         /\ Harmless(DropColumn(t, c)) /\ Harmless(AddRef(t, c, n))
         /\ Harmless(DropRef(t, c, n)) /\ Harmless(AddKey(t, c, n))
         /\ Harmless(DropKey(t, c, n)) /\ Harmless(NotNull(t, c)) /\ Harmless(Nullable(t, c))
         /\ Harmless(ToText(t, c)) /\ Harmless(Backfill(t, c)) /\ Harmless(DeleteOwnerless(t))
         /\ Harmless(Rows(t))
<1>1. ASSUME NEW o, o.op \notin {"create type", "drop type"}
      PROVE  Harmless(o)
  BY <1>1 DEF Harmless
<1>2. Harmless(Create(t, v))
  <2>1. Create(t, v).op \notin {"create type", "drop type"}
    BY DEF Create
  <2>2. QED
    BY <1>1, <2>1
<1>3. Harmless(Drop(t))
  <2>1. Drop(t).op \notin {"create type", "drop type"}
    BY DEF Drop
  <2>2. QED
    BY <1>1, <2>1
<1>4. Harmless(AddColumn(t, c))
  <2>1. AddColumn(t, c).op \notin {"create type", "drop type"}
    BY DEF AddColumn
  <2>2. QED
    BY <1>1, <2>1
<1>5. Harmless(DropColumn(t, c))
  <2>1. DropColumn(t, c).op \notin {"create type", "drop type"}
    BY DEF DropColumn
  <2>2. QED
    BY <1>1, <2>1
<1>6. Harmless(AddRef(t, c, n))
  <2>1. AddRef(t, c, n).op \notin {"create type", "drop type"}
    BY DEF AddRef
  <2>2. QED
    BY <1>1, <2>1
<1>7. Harmless(DropRef(t, c, n))
  <2>1. DropRef(t, c, n).op \notin {"create type", "drop type"}
    BY DEF DropRef
  <2>2. QED
    BY <1>1, <2>1
<1>8. Harmless(AddKey(t, c, n))
  <2>1. AddKey(t, c, n).op \notin {"create type", "drop type"}
    BY DEF AddKey
  <2>2. QED
    BY <1>1, <2>1
<1>9. Harmless(DropKey(t, c, n))
  <2>1. DropKey(t, c, n).op \notin {"create type", "drop type"}
    BY DEF DropKey
  <2>2. QED
    BY <1>1, <2>1
<1>10. Harmless(NotNull(t, c))
  <2>1. NotNull(t, c).op \notin {"create type", "drop type"}
    BY DEF NotNull
  <2>2. QED
    BY <1>1, <2>1
<1>11. Harmless(Nullable(t, c))
  <2>1. Nullable(t, c).op \notin {"create type", "drop type"}
    BY DEF Nullable
  <2>2. QED
    BY <1>1, <2>1
<1>12. Harmless(ToText(t, c))
  <2>1. ToText(t, c).op \notin {"create type", "drop type"}
    BY DEF ToText
  <2>2. QED
    BY <1>1, <2>1
<1>13. Harmless(Backfill(t, c))
  <2>1. Backfill(t, c).op \notin {"create type", "drop type"}
    BY DEF Backfill
  <2>2. QED
    BY <1>1, <2>1
<1>14. Harmless(DeleteOwnerless(t))
  <2>1. DeleteOwnerless(t).op \notin {"create type", "drop type"}
    BY DEF DeleteOwnerless
  <2>2. QED
    BY <1>1, <2>1
<1>15. Harmless(Rows(t))
  <2>1. Rows(t).op \notin {"create type", "drop type"}
    BY DEF Rows
  <2>2. QED
    BY <1>1, <2>1
<1>16. QED
  BY <1>2, <1>3, <1>4, <1>5, <1>6, <1>7, <1>8, <1>9, <1>10,
     <1>11, <1>12, <1>13, <1>14, <1>15

\* A revision that creates one table, or adds one column.
LEMMA CreatesUp ==
  ASSUME NEW i, NEW j, NEW lost, NEW d, IsDb(d), d.tables = Stage(j, lost), UpOne(i, d).ok,
         NEW t, NEW v, Revision(i, d) = Creates(t, v),
         Sets(j, i, t), t \notin lost, Version(t, i) = v
  PROVE  UpOne(i, d).tables = Stage(i, lost) /\ UpOne(i, d).types = d.types
<1>1. Revision(i, d).up = <<Create(t, v)>>
  BY DEF Creates
<1>2. Goes(d, Create(t, v), UpOne(i, d))
  BY <1>1, OneOperation DEF UpOne
<1>3. UpOne(i, d).tables = Stage(i, lost)
  BY <1>2, Creating, StagePut
<1>4. QED
  BY <1>2, <1>3, KeepsTypes, HarmlessOps

\* Undone, such a revision gives the tables back;
LEMMA CreatesDown ==
  ASSUME NEW i, NEW j, NEW lost, NEW d, IsDb(d), d.tables = Stage(i, lost), DownOne(i, d).ok,
         NEW t, NEW v, Revision(i, d) = Creates(t, v), Sets(j, i, t), t \notin Names(j)
  PROVE  DownOne(i, d).tables = Stage(j, lost) /\ DownOne(i, d).types = d.types
<1>1. Revision(i, d).down = <<Drop(t)>>
  BY DEF Creates
<1>2. Goes(d, Drop(t), DownOne(i, d))
  BY <1>1, OneOperation DEF DownOne
<1>3. DownOne(i, d).tables = Stage(j, lost)
  BY <1>2, Dropping, SetsDrops, StageCut
<1>4. QED
  BY <1>2, <1>3, KeepsTypes, HarmlessOps

\* a column is added to one table,
LEMMA AddsUp ==
  ASSUME NEW i, NEW j, NEW d, IsDb(d), d.tables = Stage(j, {}), UpOne(i, d).ok,
         NEW t, NEW c, Revision(i, d) = Adds(t, c), Sets(j, i, t), t \in Names(j),
         NEW a, NEW b, NEW r, NEW k,
         Version(t, j) = Table(a, b, r, k), Version(t, i) = Table(a, b \cup {c}, r, k)
  PROVE  UpOne(i, d).tables = Stage(i, {}) /\ UpOne(i, d).types = d.types
<1>1. Revision(i, d).up = <<AddColumn(t, c)>>
  BY DEF Adds
<1>2. Goes(d, AddColumn(t, c), UpOne(i, d))
  BY <1>1, OneOperation DEF UpOne
<1>3. /\ IsFun(Stage(j, {})) /\ t \in DOMAIN Stage(j, {})
      /\ Stage(j, {})[t] = Table(a, b, r, k)
  BY DEF Stage, IsFun
<1>4. d.tables = Put(Stage(j, {}), t, Table(a, b, r, k))
  BY <1>3, PutSelf
<1>5. UpOne(i, d).tables = Put(Stage(j, {}), t, Version(t, i))
  BY <1>2, <1>4, Adding
<1>6. UpOne(i, d).tables = Stage(i, {})
  BY <1>5, StagePut
<1>7. QED
  BY <1>2, <1>6, KeepsTypes, HarmlessOps

\* and dropped again.
LEMMA AddsDown ==
  ASSUME NEW i, NEW j, NEW d, IsDb(d), d.tables = Stage(i, {}), DownOne(i, d).ok,
         NEW t, NEW c, Revision(i, d) = Adds(t, c), Sets(j, i, t), t \in Names(j),
         NEW a, NEW b, NEW r, NEW k,
         Version(t, j) = Table(a, b, r, k), Version(t, i) = Table(a, b \cup {c}, r, k),
         c \notin a \cup b, \A x \in r : x[1] # c, \A x \in k : c \notin x
  PROVE  DownOne(i, d).tables = Stage(j, {}) /\ DownOne(i, d).types = d.types
<1>1. Revision(i, d).down = <<DropColumn(t, c)>>
  BY DEF Adds
<1>2. Goes(d, DropColumn(t, c), DownOne(i, d))
  BY <1>1, OneOperation DEF DownOne
<1>3. Sets(i, j, t)
  BY SetsDrops
<1>4. /\ IsFun(Stage(i, {})) /\ t \in DOMAIN Stage(i, {})
      /\ Stage(i, {})[t] = Table(a, b \cup {c}, r, k)
  BY DEF Stage, IsFun, Sets
<1>5. d.tables = Put(Stage(i, {}), t, Table(a, b \cup {c}, r, k))
  BY <1>4, PutSelf
<1>6. DownOne(i, d).tables
        = Put(Stage(i, {}), t, Table(a \ {c}, (b \cup {c}) \ {c}, {x \in r : x[1] \notin {c}},
                                     {x \in k : x \cap {c} = {}}))
  BY <1>2, <1>5, Removing
<1>7. /\ a \ {c} = a /\ (b \cup {c}) \ {c} = b
      /\ {x \in r : x[1] \notin {c}} = r /\ {x \in k : x \cap {c} = {}} = k
  OBVIOUS
<1>8. DownOne(i, d).tables = Put(Stage(i, {}), t, Version(t, j))
  BY <1>6, <1>7
<1>9. DownOne(i, d).tables = Stage(j, {})
  BY <1>3, <1>8, StagePut
<1>10. QED
  BY <1>2, <1>9, KeepsTypes, HarmlessOps

FileUuid == {"file_uuid"}

\* frameworks, by the number of revisions applied.
LEMMA VersionsOfFrameworks ==
  /\ \A i \in 0 .. 0 :
       Version("frameworks", i) = Table({}, {}, {Ref("parent_version_id", "frameworks")},
         {{"ref_id", "version"}})
  /\ \A i \in 1 .. 34 :
       Version("frameworks", i) = Table({}, {"source", "author"},
         {Ref("parent_version_id", "frameworks")},
               {{"ref_id", "version"}})
BY FrameworksAre DEF Version, Monkeys

\* network_links, by the number of revisions applied.
LEMMA VersionsOfNetworkLinks ==
  /\ \A i \in 0 .. 2 :
       Version("network_links", i) = Table(NetworkLink.req, NetworkLink.opt, NetworkLink.refs,
         {LinkPair})
  /\ \A i \in 3 .. 34 :
       Version("network_links", i) = Table(NetworkLink.req, NetworkLink.opt, NetworkLink.refs, {})
BY LinksAre DEF Version, Monkeys, LinksPaired, NetworkLink, Table

\* equipements, by the number of revisions applied.
LEMMA VersionsOfEquipements ==
  /\ \A i \in 0 .. 4 :
       Version("equipements", i) = Table({}, {}, {Ref("site_id", "sites")},
         {{"site_id", "ip_address"}})
  /\ \A i \in 5 .. 34 :
       Version("equipements", i) = Table({}, {"ports_status"}, {Ref("site_id", "sites")},
         {{"site_id", "ip_address"}})
BY EquipementsAre DEF Version, Monkeys

\* equipements_reseau, by the number of revisions applied.
LEMMA VersionsOfEquipementsReseau ==
  /\ \A i \in 0 .. 4 :
       Version("equipements_reseau", i) = Table({}, {"ports_status"},
         {Ref("id", "equipements")}, {})
  /\ \A i \in 5 .. 34 :
       Version("equipements_reseau", i) = Table({}, {}, {Ref("id", "equipements")}, {})
BY ReseauxAre DEF Version, Monkeys

\* monkey365_scan_results, by the number of revisions applied.
LEMMA VersionsOfMonkey365ScanResults ==
  /\ \A i \in 0 .. 7 :
       Version("monkey365_scan_results", i) = Table(MonkeyRequired \cup {"force_msal_desktop"},
         MonkeyColumns \cup {"auth_mode",
               "powershell_config"}, {Ref("entreprise_id", "entreprises")}, {{"scan_id"}})
  /\ \A i \in 8 .. 8 :
       Version("monkey365_scan_results", i) = Table(MonkeyRequired \cup {"force_msal_desktop"},
         MonkeyColumns \cup {"auth_mode",
               "powershell_config", "archive_path"}, {Ref("entreprise_id", "entreprises")},
               {{"scan_id"}})
  /\ \A i \in 9 .. 12 :
       Version("monkey365_scan_results", i) = Table(MonkeyRequired, MonkeyColumns,
         {Ref("entreprise_id", "entreprises")}, {{"scan_id"}})
  /\ \A i \in 13 .. 34 :
       Version("monkey365_scan_results", i) = Table(MonkeyRequired, MonkeyColumns
         \cup {"auth_method"}, {Ref("entreprise_id",
               "entreprises")}, {{"scan_id"}})
BY MonkeysAre DEF Version, Monkeys, Monkey

\* agents, by the number of revisions applied.
LEMMA VersionsOfAgents ==
  /\ \A i \in 0 .. 13 :
       Version("agents", i) = Table(AgentRequired, AgentColumns, {Ref("user_id", "users")},
         {{"agent_uuid"},
               {"cert_fingerprint"}})
  /\ \A i \in 14 .. 28 :
       Version("agents", i) = Table(AgentRequired, AgentColumns \cup {"revoked_at"},
         {Ref("user_id", "users")},
               {{"agent_uuid"}, {"cert_fingerprint"}})
  /\ \A i \in 29 .. 34 :
       Version("agents", i) = Table(AgentRequired, AgentColumns
         \cup {"revoked_at", "cert_expires_at"},
               {Ref("user_id", "users")}, {{"agent_uuid"}, {"cert_fingerprint"}})
BY AgentsAre DEF Version, Monkeys, AgentWith

\* attachments, by the number of revisions applied.
LEMMA VersionsOfAttachments ==
  /\ \A i \in 0 .. 10 :
       Version("attachments", i) = Table({}, {},
         {Cascades("control_result_id", "control_results")}, {})
  /\ \A i \in 11 .. 34 :
       Version("attachments", i) = Table({}, {"file_uuid", "encrypted_dek", "dek_nonce",
         "kek_version"},
               {Cascades("control_result_id", "control_results")}, {FileUuid})
BY AttachmentsAre DEF Version, Monkeys, FileUuid

\* audits, by the number of revisions applied.
LEMMA VersionsOfAudits ==
  /\ \A i \in 0 .. 10 :
       Version("audits", i) = Table({}, {}, {Ref("entreprise_id", "entreprises")}, {})
  /\ \A i \in 11 .. 20 :
       Version("audits", i) = Table({}, {"owner_id"},
         {Ref("entreprise_id", "entreprises"), Ref("owner_id", "users")}, {})
  /\ \A i \in 21 .. 26 :
       Version("audits", i) = Table({"owner_id"}, {},
         {Ref("entreprise_id", "entreprises"), Ref("owner_id", "users")}, {})
  /\ \A i \in 27 .. 34 :
       Version("audits", i) = Table({"owner_id"}, AuditFields, {Ref("entreprise_id", "entreprises"),
               Ref("owner_id", "users")}, {})
BY AuditsAre DEF Version, Monkeys, AuditWith

\* scans_reseau, by the number of revisions applied.
LEMMA VersionsOfScansReseau ==
  /\ \A i \in 0 .. 10 :
       Version("scans_reseau", i) = Table({}, {}, {Ref("site_id", "sites")}, {})
  /\ \A i \in 11 .. 22 :
       Version("scans_reseau", i) = Table({}, {"owner_id"},
         {Ref("site_id", "sites"), Ref("owner_id", "users")}, {})
  /\ \A i \in 23 .. 34 :
       Version("scans_reseau", i) = Table({"owner_id"}, {},
         {Ref("site_id", "sites"), Ref("owner_id", "users")}, {})
BY ScansAre DEF Version, Monkeys, ScanWith

\* ad_audit_results, by the number of revisions applied.
LEMMA VersionsOfAdAuditResults ==
  /\ \A i \in 0 .. 10 :
       Version("ad_audit_results", i) = Table({"username"},
         {"dc_list", "domain_admins", "findings"}, {Ref("equipement_id",
               "equipements")}, {})
  /\ \A i \in 11 .. 22 :
       Version("ad_audit_results", i) = Table({"username"},
         {"dc_list", "domain_admins", "findings", "owner_id"},
               {Ref("equipement_id", "equipements"), Ref("owner_id", "users")}, {})
  /\ \A i \in 23 .. 34 :
       Version("ad_audit_results", i) = Table({"username", "owner_id"},
         {"dc_list", "domain_admins", "findings"},
               {Ref("equipement_id", "equipements"), Ref("owner_id", "users")}, {})
BY ADAuditsAre DEF Version, Monkeys, ADAuditWith

\* entreprises, by the number of revisions applied.
LEMMA VersionsOfEntreprises ==
  /\ \A i \in 0 .. 21 :
       Version("entreprises", i) = Table({}, {}, {}, {{"nom"}, {"siret"}})
  /\ \A i \in 22 .. 34 :
       Version("entreprises", i) = Table({"owner_id"}, {}, {Ref("owner_id", "users")},
         {{"nom"}, {"siret"}})
BY EntreprisesAre DEF Version, Monkeys

\* collect_pipelines, by the number of revisions applied.
LEMMA VersionsOfCollectPipelines ==
  /\ \A i \in 0 .. 30 :
       Version("collect_pipelines", i) = Table(CollectPipeline.req, PipelineColumns
         \cup {"scan_id"}, {Ref("site_id",
               "sites"), Ref("created_by", "users"), Ref("scan_id", "scans_reseau")}, {})
  /\ \A i \in 31 .. 34 :
       Version("collect_pipelines", i) = Table(CollectPipeline.req, PipelineColumns
         \cup {"agent_id", "scan_task_uuid"},
               {Ref("site_id", "sites"), Ref("created_by", "users"), Ref("agent_id", "agents"),
               Ref("scan_task_uuid", "agent_tasks")}, {})
BY PipelinesAre DEF Version, Monkeys, Pipeline

\* collect_results, by the number of revisions applied.
LEMMA VersionsOfCollectResults ==
  /\ \A i \in 0 .. 32 :
       Version("collect_results", i) = Table({"username"}, {},
         {Ref("equipement_id", "equipements")}, {})
  /\ \A i \in 33 .. 34 :
       Version("collect_results", i) = Table({"username"}, {"agent_task_id"},
         {Ref("equipement_id", "equipements"),
               SetsNull("agent_task_id", "agent_tasks")}, {})
BY CollectsAre DEF Version, Monkeys

\* controls, by the number of revisions applied.
LEMMA VersionsOfControls ==
  /\ \A i \in 0 .. 33 :
       Version("controls", i) = Table({}, {}, {Ref("category_id", "framework_categories")}, {})
  /\ \A i \in 34 .. 34 :
       Version("controls", i) = Table({}, {"effort_days"},
         {Ref("category_id", "framework_categories")}, {})
BY ControlsAre DEF Version, Monkeys

\* Revision 001: from stage 0 to 1.
LEMMA Up1 ==
  ASSUME NEW d, IsDb(d), NEW lost, lost \in Losses(0), d.tables = Stage(0, lost),
         UpOne(1, d).ok
  PROVE  /\ UpOne(1, d).tables = Stage(1, lost)
         /\ UpOne(1, d).types = d.types
<1> DEFINE S == Stage(0, lost)
           ops == <<AddColumn("frameworks", "source"),
                    AddColumn("frameworks", "author")>>
<1>1. HasTable(d, "frameworks") /\ Columns(d.tables["frameworks"]) = {}
  BY VersionsOfFrameworks, OldNames DEF HasTable, Stage, Names, Losses, Monkeys, Columns, Table
<1>2. ~HasColumn(d, "frameworks", "source") /\ ~HasColumn(d, "frameworks", "author")
  BY <1>1 DEF HasColumn
<1>3. Revision(1, d).up = ops /\ Len(ops) = 2
  BY <1>1, <1>2 DEF Revision, AddSourceAuthor, Unless
<1>4. \A k \in 1 .. Len(ops) : Harmless(ops[k])
  BY HarmlessOps
<1> HIDE DEF ops
<1>5. PICK f : UpRun(1, d, ops, f)
  BY <1>3, UpRuns
<1>6. /\ f[0] = d /\ f[2] = UpOne(1, d)
      /\ \A k \in 1 .. 2 : Goes(f[k - 1], ops[k], f[k])
  BY <1>3, <1>5 DEF UpRun
<1>7. /\ Goes(f[0], AddColumn("frameworks", "source"), f[1])
      /\ Goes(f[1], AddColumn("frameworks", "author"), f[2])
  BY <1>6 DEF ops
<1>8. UpOne(1, d).types = d.types
  BY <1>3, <1>4, UpTypes
<1>9. /\ Version("frameworks", 0) = Table({}, {}, {Ref("parent_version_id", "frameworks")},
           {{"ref_id", "version"}})
      /\ Version("frameworks", 1) = Table({}, {"source", "author"},
           {Ref("parent_version_id", "frameworks")},
                     {{"ref_id", "version"}})
  BY VersionsOfFrameworks
<1>10. /\ {"frameworks"} \subseteq DOMAIN S /\ IsFun(S)
       /\ S["frameworks"] = Version("frameworks", 0)
  BY OldNames DEF IsFun, Stage, Names, Losses, Monkeys
<1> HIDE DEF S
<1>11. f[0].tables = S
  BY <1>6 DEF S
<1>12. f[0].tables = Put(S, "frameworks", Table({}, {}, {Ref("parent_version_id", "frameworks")},
                     {{"ref_id", "version"}}))
  BY <1>11, <1>9, <1>10, PutSelf
<1>13. f[1].tables = Put(S, "frameworks", Table({}, {"source"}, {Ref("parent_version_id",
                     "frameworks")}, {{"ref_id", "version"}}))
  BY <1>12, <1>7, Adding
<1>14. f[2].tables = Put(S, "frameworks", Table({}, {"source", "author"}, {Ref("parent_version_id",
                     "frameworks")}, {{"ref_id", "version"}}))
  BY <1>13, <1>7, Adding
<1>15. Sets(0, 1, "frameworks") /\ "frameworks" \notin lost
  BY OldNames DEF Sets, Names, Version, Monkeys, Losses
<1>16. QED
  BY <1>14, <1>6, <1>8, <1>9, <1>15, StagePut DEF S

\* Revision 002: from stage 1 to 2.
LEMMA Up2 ==
  ASSUME NEW d, IsDb(d), NEW lost, lost \in Losses(1), d.tables = Stage(1, lost),
         UpOne(2, d).ok
  PROVE  /\ UpOne(2, d).tables = Stage(2, lost)
         /\ UpOne(2, d).types = d.types
<1> DEFINE S == Stage(1, lost)
           ops == <<Create("network_links", NetworkLink),
                    AddKey("network_links", LinkPair, "uq_network_link_pair"),
                    Create("network_map_layouts", NetworkMapLayout),
                    Create("site_connections", SiteConnection)>>
<1>1. /\ ~HasTable(d, "network_links") /\ ~HasTable(d, "network_map_layouts")
      /\ ~HasTable(d, "site_connections")
  BY OldNames DEF HasTable, Stage, Names
<1>2. Revision(2, d).up = ops /\ Len(ops) = 4
  BY <1>1 DEF Revision, AddNetworkMapTables, Unless
<1>3. \A k \in 1 .. Len(ops) : Harmless(ops[k])
  BY HarmlessOps
<1> HIDE DEF ops
<1>4. PICK f : UpRun(2, d, ops, f)
  BY <1>2, UpRuns
<1>5. /\ f[0] = d /\ f[4] = UpOne(2, d)
      /\ \A k \in 1 .. 4 : Goes(f[k - 1], ops[k], f[k])
  BY <1>2, <1>4 DEF UpRun
<1>6. /\ Goes(f[0], Create("network_links", NetworkLink), f[1])
      /\ Goes(f[1], AddKey("network_links", LinkPair, "uq_network_link_pair"), f[2])
      /\ Goes(f[2], Create("network_map_layouts", NetworkMapLayout), f[3])
      /\ Goes(f[3], Create("site_connections", SiteConnection), f[4])
  BY <1>5 DEF ops
<1>7. UpOne(2, d).types = d.types
  BY <1>2, <1>3, UpTypes
<1> HIDE DEF S
<1>8. f[0].tables = S
  BY <1>5 DEF S
<1>9. f[1].tables = Put(S, "network_links", NetworkLink)
  BY <1>8, <1>6, Creating
<1>10. f[1].tables = Put(S, "network_links", Table(NetworkLink.req, NetworkLink.opt,
         NetworkLink.refs, {}))
  BY <1>9, LinksAre DEF NetworkLink, Table
<1>11. f[2].tables = Put(S, "network_links", Table(NetworkLink.req, NetworkLink.opt,
                     NetworkLink.refs, {LinkPair}))
  BY <1>10, <1>6, Keying
<1> DEFINE G1 == Put(S, "network_links", Table(NetworkLink.req, NetworkLink.opt,
                     NetworkLink.refs, {LinkPair}))
<1>12. /\ IsFun(G1) /\ DOMAIN G1 = (DOMAIN S) \cup {"network_links"}
       /\ G1["network_links"] = Table(NetworkLink.req, NetworkLink.opt, NetworkLink.refs,
            {LinkPair})
       /\ \A u \in (DOMAIN S) \ {"network_links"} : G1[u] = S[u]
  BY DEF Put, IsFun
<1>13. f[2].tables = G1
  BY <1>11
<1> HIDE DEF G1
<1>14. f[3].tables = Put(G1, "network_map_layouts", NetworkMapLayout)
  BY <1>13, <1>6, Creating
<1> DEFINE G2 == Put(G1, "network_map_layouts", NetworkMapLayout)
<1>15. /\ IsFun(G2) /\ DOMAIN G2 = (DOMAIN G1) \cup {"network_map_layouts"}
       /\ G2["network_map_layouts"] = NetworkMapLayout
       /\ \A u \in (DOMAIN G1) \ {"network_map_layouts"} : G2[u] = G1[u]
  BY DEF Put, IsFun
<1>16. f[3].tables = G2
  BY <1>14
<1> HIDE DEF G2
<1>17. f[4].tables = Put(G2, "site_connections", SiteConnection)
  BY <1>16, <1>6, Creating
<1> DEFINE G3 == Put(G2, "site_connections", SiteConnection)
<1>18. /\ IsFun(G3) /\ DOMAIN G3 = (DOMAIN G2) \cup {"site_connections"}
       /\ G3["site_connections"] = SiteConnection
       /\ \A u \in (DOMAIN G2) \ {"site_connections"} : G3[u] = G2[u]
  BY DEF Put, IsFun
<1>19. f[4].tables = G3
  BY <1>17
<1> HIDE DEF G3
<1>20. /\ Version("network_links", 2) = Table(NetworkLink.req, NetworkLink.opt,
            NetworkLink.refs, {LinkPair})
       /\ Version("network_map_layouts", 2) = NetworkMapLayout
       /\ Version("site_connections", 2) = SiteConnection
  BY NewNames, VersionsOfNetworkLinks DEF Version, New, ModelTables, Monkeys
<1> DEFINE ts == {"network_links", "network_map_layouts", "site_connections"}
<1>21. /\ IsFun(G3) /\ DOMAIN G3 = (DOMAIN S) \cup ts
       /\ \A u \in ts : G3[u] = Version(u, 2)
       /\ \A u \in (DOMAIN S) \ ts : G3[u] = S[u]
  BY <1>12, <1>15, <1>18, <1>20
<1>22. Names(2) = Names(1) \cup ts /\ ts \cap lost = {}
  BY OldNames DEF Names, Losses, Monkeys
<1>23. \A u \in Names(1) \ ts : Version(u, 2) = Version(u, 1)
  BY DEF Version, Monkeys
<1> HIDE DEF ts
<1>24. DOMAIN S = Names(1) \ lost /\ \A u \in DOMAIN S : S[u] = Version(u, 1)
  BY DEF S, Stage
<1>25. \A u \in (Names(1) \ lost) \ ts :
         G3[u] = Version(u, 1) /\ Version(u, 2) = Version(u, 1)
  BY <1>23, <1>21, <1>24
<1>26. DOMAIN G3 = (Names(1) \ lost) \cup ts
  BY <1>21, <1>24
<1>27. PutAll(G3, ts, 1, 2, lost)
  BY <1>22, <1>21, <1>25, <1>26 DEF PutAll
<1>28. G3 = Stage(2, lost)
  BY <1>27, StagePuts
<1>29. QED
  BY <1>19, <1>5, <1>7, <1>28

\* Revision 003: from stage 2 to 3.
LEMMA Up3 ==
  ASSUME NEW d, IsDb(d), NEW lost, lost \in Losses(2), d.tables = Stage(2, lost),
         UpOne(3, d).ok
  PROVE  /\ UpOne(3, d).tables = Stage(3, lost)
         /\ UpOne(3, d).types = d.types
<1> DEFINE S == Stage(2, lost)
           ops == <<DropKey("network_links", LinkPair, "uq_network_link_pair")>>
<1>1. Revision(3, d).up = ops /\ Len(ops) = 1
  BY DEF Revision, DropNetworkLinkUnique
<1>2. \A k \in 1 .. Len(ops) : Harmless(ops[k])
  BY HarmlessOps
<1> HIDE DEF ops
<1>3. PICK f : UpRun(3, d, ops, f)
  BY <1>1, UpRuns
<1>4. /\ f[0] = d /\ f[1] = UpOne(3, d)
      /\ \A k \in 1 .. 1 : Goes(f[k - 1], ops[k], f[k])
  BY <1>1, <1>3 DEF UpRun
<1>5. /\ Goes(f[0], DropKey("network_links", LinkPair, "uq_network_link_pair"), f[1])
  BY <1>4 DEF ops
<1>6. UpOne(3, d).types = d.types
  BY <1>1, <1>2, UpTypes
<1>7. /\ Version("network_links", 2) = Table(NetworkLink.req, NetworkLink.opt, NetworkLink.refs,
           {LinkPair})
      /\ Version("network_links", 3) = Table(NetworkLink.req, NetworkLink.opt, NetworkLink.refs, {})
  BY VersionsOfNetworkLinks
<1>8. /\ {"network_links"} \subseteq DOMAIN S /\ IsFun(S)
      /\ S["network_links"] = Version("network_links", 2)
  BY OldNames DEF IsFun, Stage, Names, Losses, Monkeys
<1> HIDE DEF S
<1>9. f[0].tables = S
  BY <1>4 DEF S
<1>10. f[0].tables = Put(S, "network_links", Table(NetworkLink.req, NetworkLink.opt,
                     NetworkLink.refs, {LinkPair}))
  BY <1>9, <1>7, <1>8, PutSelf
<1>11. f[1].tables = Put(S, "network_links", Table(NetworkLink.req, NetworkLink.opt,
         NetworkLink.refs, {}))
  BY <1>10, <1>5, Unkeying
<1>12. Sets(2, 3, "network_links") /\ "network_links" \notin lost
  BY OldNames DEF Sets, Names, Version, Monkeys, Losses
<1>13. QED
  BY <1>11, <1>4, <1>6, <1>7, <1>12, StagePut DEF S

\* Revision 004: from stage 3 to 4.
LEMMA Up4 ==
  ASSUME NEW d, IsDb(d), NEW lost, lost \in Losses(3), d.tables = Stage(3, lost),
         UpOne(4, d).ok
  PROVE  /\ UpOne(4, d).tables = Stage(4, lost)
         /\ UpOne(4, d).types = d.types
<1> DEFINE S == Stage(3, lost)
           ops == <<Rows("equipements"),
                    Rows("equipements_reseau")>>
<1>1. Revision(4, d).up = ops /\ Len(ops) = 2
  BY DEF Revision, MigrateSwitchRouterAp
<1>2. \A k \in 1 .. Len(ops) : Harmless(ops[k])
  BY HarmlessOps
<1> HIDE DEF ops
<1>3. PICK f : UpRun(4, d, ops, f)
  BY <1>1, UpRuns
<1>4. /\ f[0] = d /\ f[2] = UpOne(4, d)
      /\ \A k \in 1 .. 2 : Goes(f[k - 1], ops[k], f[k])
  BY <1>1, <1>3 DEF UpRun
<1>5. /\ Goes(f[0], Rows("equipements"), f[1])
      /\ Goes(f[1], Rows("equipements_reseau"), f[2])
  BY <1>4 DEF ops
<1>6. UpOne(4, d).types = d.types
  BY <1>1, <1>2, UpTypes
<1> HIDE DEF S
<1>7. f[0].tables = S
  BY <1>4 DEF S
<1>8. f[1].tables = S
  BY <1>7, <1>5, FillingIn
<1>9. f[2].tables = S
  BY <1>8, <1>5, FillingIn
<1>10. Names(4) = Names(3)
  BY DEF Names
<1>11. \A u : Version(u, 4) = Version(u, 3)
  BY DEF Version, Monkeys
<1>12. S = Stage(4, lost)
  BY <1>10, <1>11 DEF S, Stage
<1>13. QED
  BY <1>9, <1>4, <1>6, <1>12

\* Revision 005: from stage 4 to 5.
LEMMA Up5 ==
  ASSUME NEW d, IsDb(d), NEW lost, lost \in Losses(4), d.tables = Stage(4, lost),
         UpOne(5, d).ok
  PROVE  /\ UpOne(5, d).tables = Stage(5, lost)
         /\ UpOne(5, d).types = d.types
<1> DEFINE S == Stage(4, lost)
           ops == <<AddColumn("equipements", "ports_status"),
                    DropColumn("equipements_reseau", "ports_status")>>
<1>1. Revision(5, d).up = ops /\ Len(ops) = 2
  BY DEF Revision, MovePortsStatus
<1>2. \A k \in 1 .. Len(ops) : Harmless(ops[k])
  BY HarmlessOps
<1> HIDE DEF ops
<1>3. PICK f : UpRun(5, d, ops, f)
  BY <1>1, UpRuns
<1>4. /\ f[0] = d /\ f[2] = UpOne(5, d)
      /\ \A k \in 1 .. 2 : Goes(f[k - 1], ops[k], f[k])
  BY <1>1, <1>3 DEF UpRun
<1>5. /\ Goes(f[0], AddColumn("equipements", "ports_status"), f[1])
      /\ Goes(f[1], DropColumn("equipements_reseau", "ports_status"), f[2])
  BY <1>4 DEF ops
<1>6. UpOne(5, d).types = d.types
  BY <1>1, <1>2, UpTypes
<1>7. /\ Version("equipements", 4) = Table({}, {}, {Ref("site_id", "sites")},
           {{"site_id", "ip_address"}})
      /\ Version("equipements", 5) = Table({}, {"ports_status"}, {Ref("site_id", "sites")},
           {{"site_id", "ip_address"}})
      /\ Version("equipements_reseau", 4) = Table({}, {"ports_status"},
           {Ref("id", "equipements")}, {})
      /\ Version("equipements_reseau", 5) = Table({}, {}, {Ref("id", "equipements")}, {})
  BY VersionsOfEquipements, VersionsOfEquipementsReseau
<1>8. /\ {"equipements", "equipements_reseau"} \subseteq DOMAIN S /\ IsFun(S)
      /\ S["equipements"] = Version("equipements", 4)
      /\ S["equipements_reseau"] = Version("equipements_reseau", 4)
  BY OldNames DEF IsFun, Stage, Names, Losses, Monkeys
<1> HIDE DEF S
<1>9. f[0].tables = S
  BY <1>4 DEF S
<1>10. f[0].tables = Put(S, "equipements", Table({}, {}, {Ref("site_id", "sites")}, {{"site_id",
                     "ip_address"}}))
  BY <1>9, <1>7, <1>8, PutSelf
<1>11. f[1].tables = Put(S, "equipements", Table({}, {"ports_status"}, {Ref("site_id", "sites")},
                     {{"site_id", "ip_address"}}))
  BY <1>10, <1>5, Adding
<1> DEFINE G1 == Put(S, "equipements", Table({}, {"ports_status"}, {Ref("site_id", "sites")},
                     {{"site_id", "ip_address"}}))
<1>12. /\ IsFun(G1) /\ DOMAIN G1 = (DOMAIN S) \cup {"equipements"}
       /\ G1["equipements"] = Table({}, {"ports_status"}, {Ref("site_id", "sites")},
            {{"site_id", "ip_address"}})
       /\ \A u \in (DOMAIN S) \ {"equipements"} : G1[u] = S[u]
  BY DEF Put, IsFun
<1>13. f[1].tables = G1
  BY <1>11
<1> HIDE DEF G1
<1>14. f[1].tables = Put(G1, "equipements_reseau", Table({}, {"ports_status"}, {Ref("id",
                     "equipements")}, {}))
  BY <1>13, <1>7, <1>8, <1>12, PutSelf
<1>15. f[2].tables = Put(G1, "equipements_reseau", Table({}, {}, {Ref("id", "equipements")}, {}))
  BY <1>14, <1>5, Removing, RefFields
<1> DEFINE G2 == Put(G1, "equipements_reseau", Table({}, {}, {Ref("id", "equipements")}, {}))
<1>16. /\ IsFun(G2) /\ DOMAIN G2 = (DOMAIN G1) \cup {"equipements_reseau"}
       /\ G2["equipements_reseau"] = Table({}, {}, {Ref("id", "equipements")}, {})
       /\ \A u \in (DOMAIN G1) \ {"equipements_reseau"} : G2[u] = G1[u]
  BY DEF Put, IsFun
<1>17. f[2].tables = G2
  BY <1>15
<1> HIDE DEF G2
<1> DEFINE ts == {"equipements", "equipements_reseau"}
<1>18. /\ IsFun(G2) /\ DOMAIN G2 = (DOMAIN S) \cup ts
       /\ \A u \in ts : G2[u] = Version(u, 5)
       /\ \A u \in (DOMAIN S) \ ts : G2[u] = S[u]
  BY <1>12, <1>16, <1>7
<1>19. Names(5) = Names(4) \cup ts /\ ts \cap lost = {}
  BY OldNames DEF Names, Losses, Monkeys
<1>20. \A u \in Names(4) \ ts : Version(u, 5) = Version(u, 4)
  BY DEF Version, Monkeys
<1> HIDE DEF ts
<1>21. DOMAIN S = Names(4) \ lost /\ \A u \in DOMAIN S : S[u] = Version(u, 4)
  BY DEF S, Stage
<1>22. \A u \in (Names(4) \ lost) \ ts :
         G2[u] = Version(u, 4) /\ Version(u, 5) = Version(u, 4)
  BY <1>20, <1>18, <1>21
<1>23. DOMAIN G2 = (Names(4) \ lost) \cup ts
  BY <1>18, <1>21
<1>24. PutAll(G2, ts, 4, 5, lost)
  BY <1>19, <1>18, <1>22, <1>23 DEF PutAll
<1>25. G2 = Stage(5, lost)
  BY <1>24, StagePuts
<1>26. QED
  BY <1>17, <1>4, <1>6, <1>25

\* Revision 006: from stage 5 to 6.
LEMMA Up6 ==
  ASSUME NEW d, IsDb(d), NEW lost \in Losses(5), d.tables = Stage(5, lost), UpOne(6, d).ok
  PROVE  UpOne(6, d).tables = Stage(6, lost) /\ UpOne(6, d).types = d.types
<1>1. Revision(6, d) = Creates("vlan_definitions", VlanDefinition)
  BY DEF Revision, AddVlanDefinitions
<1>2. Sets(5, 6, "vlan_definitions") /\ "vlan_definitions" \notin Names(5)
  BY OldNames DEF Sets, Names, Version, Monkeys
<1>3. Version("vlan_definitions", 6) = VlanDefinition /\ "vlan_definitions" \notin lost
  BY OldNames, NewNames DEF Version, New, ModelTables, Monkeys, Losses
<1>4. QED
  BY <1>1, <1>2, <1>3, CreatesUp

\* Revision 006 undone: back to stage 5.
LEMMA Down6 ==
  ASSUME NEW d, IsDb(d), NEW lost \in Losses(5), d.tables = Stage(6, lost), DownOne(6, d).ok
  PROVE  DownOne(6, d).tables = Stage(5, lost) /\ DownOne(6, d).types = d.types
<1>1. Revision(6, d) = Creates("vlan_definitions", VlanDefinition)
  BY DEF Revision, AddVlanDefinitions
<1>2. Sets(5, 6, "vlan_definitions") /\ "vlan_definitions" \notin Names(5)
  BY OldNames DEF Sets, Names, Version, Monkeys
<1>3. QED
  BY <1>1, <1>2, CreatesDown

\* Revision 008: from stage 7 to 8.
LEMMA Up8 ==
  ASSUME NEW d, IsDb(d), d.tables = Stage(7, {}),
         UpOne(8, d).ok
  PROVE  /\ UpOne(8, d).tables = Stage(8, {})
         /\ UpOne(8, d).types = d.types
<1> DEFINE S == Stage(7, {})
           ops == <<AddColumn("monkey365_scan_results", "archive_path")>>
<1>1. HasTable(d, "monkey365_scan_results") /\ Columns(d.tables["monkey365_scan_results"])
        = (MonkeyRequired \cup {"force_msal_desktop"})
          \cup (MonkeyColumns \cup {"auth_mode", "powershell_config"})
  BY VersionsOfMonkey365ScanResults, OldNames DEF HasTable, Stage, Names, Columns, Table
<1>2. ~HasColumn(d, "monkey365_scan_results", "archive_path")
  BY <1>1 DEF HasColumn, MonkeyRequired, MonkeyColumns
<1>3. Revision(8, d).up = ops /\ Len(ops) = 1
  BY <1>1, <1>2 DEF Revision, AddMonkey365ArchivePath, Unless
<1>4. \A k \in 1 .. Len(ops) : Harmless(ops[k])
  BY HarmlessOps
<1> HIDE DEF ops
<1>5. PICK f : UpRun(8, d, ops, f)
  BY <1>3, UpRuns
<1>6. /\ f[0] = d /\ f[1] = UpOne(8, d)
      /\ \A k \in 1 .. 1 : Goes(f[k - 1], ops[k], f[k])
  BY <1>3, <1>5 DEF UpRun
<1>7. /\ Goes(f[0], AddColumn("monkey365_scan_results", "archive_path"), f[1])
  BY <1>6 DEF ops
<1>8. UpOne(8, d).types = d.types
  BY <1>3, <1>4, UpTypes
<1>9. /\ Version("monkey365_scan_results", 7) = Table(MonkeyRequired \cup {"force_msal_desktop"},
                     MonkeyColumns \cup {"auth_mode", "powershell_config"}, {Ref("entreprise_id",
                     "entreprises")}, {{"scan_id"}})
      /\ Version("monkey365_scan_results", 8) = Table(MonkeyRequired \cup {"force_msal_desktop"},
                     MonkeyColumns \cup {"auth_mode", "powershell_config", "archive_path"},
                     {Ref("entreprise_id", "entreprises")}, {{"scan_id"}})
  BY VersionsOfMonkey365ScanResults
<1>10. /\ {"monkey365_scan_results"} \subseteq DOMAIN S /\ IsFun(S)
       /\ S["monkey365_scan_results"] = Version("monkey365_scan_results", 7)
  BY OldNames DEF IsFun, Stage, Names
<1> HIDE DEF S
<1>11. f[0].tables = S
  BY <1>6 DEF S
<1>12. f[0].tables = Put(S, "monkey365_scan_results",
                     Table(MonkeyRequired \cup {"force_msal_desktop"},
                     MonkeyColumns \cup {"auth_mode", "powershell_config"}, {Ref("entreprise_id",
                     "entreprises")}, {{"scan_id"}}))
  BY <1>11, <1>9, <1>10, PutSelf
<1>13. f[1].tables = Put(S, "monkey365_scan_results",
                     Table(MonkeyRequired \cup {"force_msal_desktop"},
                     MonkeyColumns \cup {"auth_mode", "powershell_config", "archive_path"},
                     {Ref("entreprise_id", "entreprises")}, {{"scan_id"}}))
  BY <1>12, <1>7, Adding
<1>14. Sets(7, 8, "monkey365_scan_results")
  BY OldNames DEF Sets, Names, Version, Monkeys
<1>15. QED
  BY <1>13, <1>6, <1>8, <1>9, <1>14, StagePut DEF S

\* Revision 5f73dd19afec: from stage 8 to 9.
LEMMA Up9 ==
  ASSUME NEW d, IsDb(d), d.tables = Stage(8, {}),
         UpOne(9, d).ok
  PROVE  /\ UpOne(9, d).tables = Stage(9, {})
         /\ UpOne(9, d).types = d.types
<1> DEFINE S == Stage(8, {})
           ops == <<DropColumn("monkey365_scan_results", "auth_mode"),
                    DropColumn("monkey365_scan_results", "archive_path"),
                    DropColumn("monkey365_scan_results", "force_msal_desktop"),
                    DropColumn("monkey365_scan_results", "powershell_config")>>
<1>1. Revision(9, d).up = ops /\ Len(ops) = 4
  BY DEF Revision, RemoveArchivePath
<1>2. \A k \in 1 .. Len(ops) : Harmless(ops[k])
  BY HarmlessOps
<1> HIDE DEF ops
<1>3. PICK f : UpRun(9, d, ops, f)
  BY <1>1, UpRuns
<1>4. /\ f[0] = d /\ f[4] = UpOne(9, d)
      /\ \A k \in 1 .. 4 : Goes(f[k - 1], ops[k], f[k])
  BY <1>1, <1>3 DEF UpRun
<1>5. /\ Goes(f[0], DropColumn("monkey365_scan_results", "auth_mode"), f[1])
      /\ Goes(f[1], DropColumn("monkey365_scan_results", "archive_path"), f[2])
      /\ Goes(f[2], DropColumn("monkey365_scan_results", "force_msal_desktop"), f[3])
      /\ Goes(f[3], DropColumn("monkey365_scan_results", "powershell_config"), f[4])
  BY <1>4 DEF ops
<1>6. UpOne(9, d).types = d.types
  BY <1>1, <1>2, UpTypes
<1>7. /\ Version("monkey365_scan_results", 8) = Table(MonkeyRequired \cup {"force_msal_desktop"},
                     MonkeyColumns \cup {"auth_mode", "powershell_config", "archive_path"},
                     {Ref("entreprise_id", "entreprises")}, {{"scan_id"}})
      /\ Version("monkey365_scan_results", 9) = Table(MonkeyRequired, MonkeyColumns,
           {Ref("entreprise_id", "entreprises")},
                     {{"scan_id"}})
  BY VersionsOfMonkey365ScanResults
<1>8. /\ {"monkey365_scan_results"} \subseteq DOMAIN S /\ IsFun(S)
      /\ S["monkey365_scan_results"] = Version("monkey365_scan_results", 8)
  BY OldNames DEF IsFun, Stage, Names
<1> HIDE DEF S
<1>9. f[0].tables = S
  BY <1>4 DEF S
<1>10. f[0].tables = Put(S, "monkey365_scan_results",
                     Table(MonkeyRequired \cup {"force_msal_desktop"},
                     MonkeyColumns \cup {"auth_mode", "powershell_config", "archive_path"},
                     {Ref("entreprise_id", "entreprises")}, {{"scan_id"}}))
  BY <1>9, <1>7, <1>8, PutSelf
<1>11. f[1].tables = Put(S, "monkey365_scan_results",
                     Table(MonkeyRequired \cup {"force_msal_desktop"},
                     MonkeyColumns \cup {"powershell_config", "archive_path"},
                     {Ref("entreprise_id", "entreprises")}, {{"scan_id"}}))
  BY <1>10, <1>5, Removing, RefFields DEF MonkeyRequired, MonkeyColumns
<1>12. f[2].tables = Put(S, "monkey365_scan_results",
                     Table(MonkeyRequired \cup {"force_msal_desktop"},
                     MonkeyColumns \cup {"powershell_config"}, {Ref("entreprise_id",
                     "entreprises")}, {{"scan_id"}}))
  BY <1>11, <1>5, Removing, RefFields DEF MonkeyRequired, MonkeyColumns
<1>13. f[3].tables = Put(S, "monkey365_scan_results", Table(MonkeyRequired,
                     MonkeyColumns \cup {"powershell_config"}, {Ref("entreprise_id",
                     "entreprises")}, {{"scan_id"}}))
  BY <1>12, <1>5, Removing, RefFields DEF MonkeyRequired, MonkeyColumns
<1>14. f[4].tables = Put(S, "monkey365_scan_results", Table(MonkeyRequired, MonkeyColumns,
                     {Ref("entreprise_id", "entreprises")}, {{"scan_id"}}))
  BY <1>13, <1>5, Removing, RefFields DEF MonkeyRequired, MonkeyColumns
<1>15. Sets(8, 9, "monkey365_scan_results")
  BY OldNames DEF Sets, Names, Version, Monkeys
<1>16. QED
  BY <1>14, <1>4, <1>6, <1>7, <1>15, StagePut DEF S

\* Revision 6e27188411e6: from stage 9 to 10.
LEMMA Up10 ==
  ASSUME NEW d, IsDb(d), d.tables = Stage(9, {}),
         UpOne(10, d).ok
  PROVE  /\ UpOne(10, d).tables = Stage(10, {})
         /\ UpOne(10, d).types = d.types
<1> DEFINE S == Stage(9, {})
           ops == <<Create("agents", AgentWith({})),
                    Create("agent_tasks", AgentTask)>>
<1>1. /\ AgentRequired = {"agent_uuid", "name", "user_id", "enrollment_used", "status",
                        "allowed_tools", "created_at"}
      /\ AgentColumns \cup {} = {"cert_fingerprint", "cert_serial", "enrollment_token_hash",
                              "enrollment_token_expires", "last_seen", "last_ip", "os_info",
                              "agent_version", "updated_at"}
  BY DEF AgentRequired, AgentColumns
<1>2. CreateAgents.up = <<Create("agents", AgentWith({})), Create("agent_tasks", AgentTask)>>
  BY <1>1 DEF CreateAgents, AgentWith, AgentTask
<1>3. Revision(10, d).up = ops /\ Len(ops) = 2
  BY <1>1, <1>2 DEF Revision
<1>4. \A k \in 1 .. Len(ops) : Harmless(ops[k])
  BY HarmlessOps
<1> HIDE DEF ops
<1>5. PICK f : UpRun(10, d, ops, f)
  BY <1>3, UpRuns
<1>6. /\ f[0] = d /\ f[2] = UpOne(10, d)
      /\ \A k \in 1 .. 2 : Goes(f[k - 1], ops[k], f[k])
  BY <1>3, <1>5 DEF UpRun
<1>7. /\ Goes(f[0], Create("agents", AgentWith({})), f[1])
      /\ Goes(f[1], Create("agent_tasks", AgentTask), f[2])
  BY <1>6 DEF ops
<1>8. UpOne(10, d).types = d.types
  BY <1>3, <1>4, UpTypes
<1> HIDE DEF S
<1>9. f[0].tables = S
  BY <1>6 DEF S
<1>10. f[1].tables = Put(S, "agents", AgentWith({}))
  BY <1>9, <1>7, Creating
<1> DEFINE G1 == Put(S, "agents", AgentWith({}))
<1>11. /\ IsFun(G1) /\ DOMAIN G1 = (DOMAIN S) \cup {"agents"}
       /\ G1["agents"] = AgentWith({})
       /\ \A u \in (DOMAIN S) \ {"agents"} : G1[u] = S[u]
  BY DEF Put, IsFun
<1>12. f[1].tables = G1
  BY <1>10
<1> HIDE DEF G1
<1>13. f[2].tables = Put(G1, "agent_tasks", AgentTask)
  BY <1>12, <1>7, Creating
<1> DEFINE G2 == Put(G1, "agent_tasks", AgentTask)
<1>14. /\ IsFun(G2) /\ DOMAIN G2 = (DOMAIN G1) \cup {"agent_tasks"}
       /\ G2["agent_tasks"] = AgentTask
       /\ \A u \in (DOMAIN G1) \ {"agent_tasks"} : G2[u] = G1[u]
  BY DEF Put, IsFun
<1>15. f[2].tables = G2
  BY <1>13
<1> HIDE DEF G2
<1>16. /\ Version("agents", 10) = AgentWith({})
       /\ Version("agent_tasks", 10) = AgentTask
  BY NewNames DEF Version, New, ModelTables, Monkeys
<1> DEFINE ts == {"agents", "agent_tasks"}
<1>17. /\ IsFun(G2) /\ DOMAIN G2 = (DOMAIN S) \cup ts
       /\ \A u \in ts : G2[u] = Version(u, 10)
       /\ \A u \in (DOMAIN S) \ ts : G2[u] = S[u]
  BY <1>11, <1>14, <1>16
<1>18. Names(10) = Names(9) \cup ts /\ ts \cap {} = {}
  BY OldNames DEF Names
<1>19. \A u \in Names(9) \ ts : Version(u, 10) = Version(u, 9)
  BY DEF Version, Monkeys
<1> HIDE DEF ts
<1>20. DOMAIN S = Names(9) \ {} /\ \A u \in DOMAIN S : S[u] = Version(u, 9)
  BY DEF S, Stage
<1>21. \A u \in (Names(9) \ {}) \ ts :
         G2[u] = Version(u, 9) /\ Version(u, 10) = Version(u, 9)
  BY <1>19, <1>17, <1>20
<1>22. DOMAIN G2 = (Names(9) \ {}) \cup ts
  BY <1>17, <1>20
<1>23. PutAll(G2, ts, 9, 10, {})
  BY <1>18, <1>17, <1>21, <1>22 DEF PutAll
<1>24. G2 = Stage(10, {})
  BY <1>23, StagePuts
<1>25. QED
  BY <1>15, <1>6, <1>8, <1>24

\* Revision 553fec46eb0a: from stage 10 to 11.
LEMMA Up11 ==
  ASSUME NEW d, IsDb(d), d.tables = Stage(10, {}),
         UpOne(11, d).ok
  PROVE  /\ UpOne(11, d).tables = Stage(11, {})
         /\ UpOne(11, d).types = d.types
<1> DEFINE S == Stage(10, {})
           ops == <<AddColumn("audits", "owner_id"),
                    AddRef("audits", Ref("owner_id", "users"), "fk_audits_owner_id"),
                    AddColumn("attachments", "file_uuid"),
                    AddKey("attachments", FileUuid, "uq_attachments_file_uuid"),
                    AddColumn("attachments", "encrypted_dek"),
                    AddColumn("attachments", "dek_nonce"),
                    AddColumn("attachments", "kek_version"),
                    AddColumn("scans_reseau", "owner_id"),
                    AddRef("scans_reseau", Ref("owner_id", "users"), "fk_scans_reseau_owner_id"),
                    AddColumn("ad_audit_results", "owner_id"),
                    AddRef("ad_audit_results", Ref("owner_id", "users"),
                      "fk_ad_audit_results_owner_id"),
                    ToText("ad_audit_results", "username"),
                    ToText("ad_audit_results", "findings")>>
<1>1. Revision(11, d).up = ops /\ Len(ops) = 13
  BY DEF Revision, AddOwnerIdAndEncryption, Owned, FileUuid
<1>2. /\ Harmless(AddColumn("audits", "owner_id"))
      /\ Harmless(AddRef("audits", Ref("owner_id", "users"), "fk_audits_owner_id"))
      /\ Harmless(AddColumn("attachments", "file_uuid"))
      /\ Harmless(AddKey("attachments", FileUuid, "uq_attachments_file_uuid"))
      /\ Harmless(AddColumn("attachments", "encrypted_dek"))
      /\ Harmless(AddColumn("attachments", "dek_nonce"))
      /\ Harmless(AddColumn("attachments", "kek_version"))
      /\ Harmless(AddColumn("scans_reseau", "owner_id"))
      /\ Harmless(AddRef("scans_reseau", Ref("owner_id", "users"), "fk_scans_reseau_owner_id"))
      /\ Harmless(AddColumn("ad_audit_results", "owner_id"))
      /\ Harmless(AddRef("ad_audit_results", Ref("owner_id", "users"),
           "fk_ad_audit_results_owner_id"))
      /\ Harmless(ToText("ad_audit_results", "username"))
      /\ Harmless(ToText("ad_audit_results", "findings"))
  BY HarmlessOps
<1>3. \A k \in 1 .. Len(ops) : Harmless(ops[k])
  BY <1>1, <1>2
<1> HIDE DEF ops
<1>4. PICK f : UpRun(11, d, ops, f)
  BY <1>1, UpRuns
<1>5. /\ f[0] = d /\ f[13] = UpOne(11, d)
      /\ \A k \in 1 .. 13 : Goes(f[k - 1], ops[k], f[k])
  BY <1>1, <1>4 DEF UpRun
<1>6. /\ Goes(f[0], AddColumn("audits", "owner_id"), f[1])
      /\ Goes(f[1], AddRef("audits", Ref("owner_id", "users"), "fk_audits_owner_id"), f[2])
      /\ Goes(f[2], AddColumn("attachments", "file_uuid"), f[3])
      /\ Goes(f[3], AddKey("attachments", FileUuid, "uq_attachments_file_uuid"), f[4])
      /\ Goes(f[4], AddColumn("attachments", "encrypted_dek"), f[5])
      /\ Goes(f[5], AddColumn("attachments", "dek_nonce"), f[6])
      /\ Goes(f[6], AddColumn("attachments", "kek_version"), f[7])
      /\ Goes(f[7], AddColumn("scans_reseau", "owner_id"), f[8])
      /\ Goes(f[8], AddRef("scans_reseau", Ref("owner_id", "users"),
           "fk_scans_reseau_owner_id"), f[9])
      /\ Goes(f[9], AddColumn("ad_audit_results", "owner_id"), f[10])
      /\ Goes(f[10], AddRef("ad_audit_results", Ref("owner_id", "users"),
           "fk_ad_audit_results_owner_id"), f[11])
      /\ Goes(f[11], ToText("ad_audit_results", "username"), f[12])
      /\ Goes(f[12], ToText("ad_audit_results", "findings"), f[13])
  BY <1>5 DEF ops
<1>7. UpOne(11, d).types = d.types
  BY <1>1, <1>3, UpTypes
<1>8. /\ Version("audits", 10) = Table({}, {}, {Ref("entreprise_id", "entreprises")}, {})
      /\ Version("audits", 11) = Table({}, {"owner_id"},
           {Ref("entreprise_id", "entreprises"), Ref("owner_id",
                     "users")}, {})
      /\ Version("attachments", 10) = Table({}, {},
           {Cascades("control_result_id", "control_results")}, {})
      /\ Version("attachments", 11) = Table({},
           {"file_uuid", "encrypted_dek", "dek_nonce", "kek_version"},
                     {Cascades("control_result_id", "control_results")}, {FileUuid})
      /\ Version("scans_reseau", 10) = Table({}, {}, {Ref("site_id", "sites")}, {})
      /\ Version("scans_reseau", 11) = Table({}, {"owner_id"},
           {Ref("site_id", "sites"), Ref("owner_id", "users")}, {})
      /\ Version("ad_audit_results", 10) = Table({"username"},
           {"dc_list", "domain_admins", "findings"},
                     {Ref("equipement_id", "equipements")}, {})
      /\ Version("ad_audit_results", 11) = Table({"username"},
           {"dc_list", "domain_admins", "findings", "owner_id"},
                     {Ref("equipement_id", "equipements"), Ref("owner_id", "users")}, {})
  BY VersionsOfAudits, VersionsOfAttachments, VersionsOfScansReseau, VersionsOfAdAuditResults
<1>9. /\ {"audits", "attachments", "scans_reseau", "ad_audit_results"} \subseteq DOMAIN S
           /\ IsFun(S)
      /\ S["audits"] = Version("audits", 10)
      /\ S["attachments"] = Version("attachments", 10)
      /\ S["scans_reseau"] = Version("scans_reseau", 10)
      /\ S["ad_audit_results"] = Version("ad_audit_results", 10)
  BY OldNames DEF IsFun, Stage, Names
<1> HIDE DEF S
<1>10. f[0].tables = S
  BY <1>5 DEF S
<1>11. f[0].tables = Put(S, "audits", Table({}, {}, {Ref("entreprise_id", "entreprises")}, {}))
  BY <1>10, <1>8, <1>9, PutSelf
<1>12. f[1].tables = Put(S, "audits", Table({}, {"owner_id"},
         {Ref("entreprise_id", "entreprises")}, {}))
  BY <1>11, <1>6, Adding
<1>13. f[2].tables = Put(S, "audits", Table({}, {"owner_id"}, {Ref("entreprise_id", "entreprises"),
                     Ref("owner_id", "users")}, {}))
  BY <1>12, <1>6, Referring
<1> DEFINE G1 == Put(S, "audits", Table({}, {"owner_id"}, {Ref("entreprise_id", "entreprises"),
                     Ref("owner_id", "users")}, {}))
<1>14. /\ IsFun(G1) /\ DOMAIN G1 = (DOMAIN S) \cup {"audits"}
       /\ G1["audits"] = Table({}, {"owner_id"},
            {Ref("entreprise_id", "entreprises"), Ref("owner_id",
                     "users")}, {})
       /\ \A u \in (DOMAIN S) \ {"audits"} : G1[u] = S[u]
  BY DEF Put, IsFun
<1>15. f[2].tables = G1
  BY <1>13
<1> HIDE DEF G1
<1>16. f[2].tables = Put(G1, "attachments", Table({}, {}, {Cascades("control_result_id",
                     "control_results")}, {}))
  BY <1>15, <1>8, <1>9, <1>14, PutSelf
<1>17. f[3].tables = Put(G1, "attachments", Table({}, {"file_uuid"}, {Cascades("control_result_id",
                     "control_results")}, {}))
  BY <1>16, <1>6, Adding
<1>18. f[4].tables = Put(G1, "attachments", Table({}, {"file_uuid"}, {Cascades("control_result_id",
                     "control_results")}, {FileUuid}))
  BY <1>17, <1>6, Keying
<1>19. f[5].tables = Put(G1, "attachments", Table({}, {"file_uuid", "encrypted_dek"},
                     {Cascades("control_result_id", "control_results")}, {FileUuid}))
  BY <1>18, <1>6, Adding
<1>20. f[6].tables = Put(G1, "attachments", Table({}, {"file_uuid", "encrypted_dek", "dek_nonce"},
                     {Cascades("control_result_id", "control_results")}, {FileUuid}))
  BY <1>19, <1>6, Adding
<1>21. f[7].tables = Put(G1, "attachments", Table({}, {"file_uuid", "encrypted_dek", "dek_nonce",
                     "kek_version"}, {Cascades("control_result_id", "control_results")},
                     {FileUuid}))
  BY <1>20, <1>6, Adding
<1> DEFINE G2 == Put(G1, "attachments", Table({}, {"file_uuid", "encrypted_dek", "dek_nonce",
                     "kek_version"}, {Cascades("control_result_id", "control_results")},
                     {FileUuid}))
<1>22. /\ IsFun(G2) /\ DOMAIN G2 = (DOMAIN G1) \cup {"attachments"}
       /\ G2["attachments"] = Table({}, {"file_uuid", "encrypted_dek", "dek_nonce", "kek_version"},
                     {Cascades("control_result_id", "control_results")}, {FileUuid})
       /\ \A u \in (DOMAIN G1) \ {"attachments"} : G2[u] = G1[u]
  BY DEF Put, IsFun
<1>23. f[7].tables = G2
  BY <1>21
<1> HIDE DEF G2
<1>24. f[7].tables = Put(G2, "scans_reseau", Table({}, {}, {Ref("site_id", "sites")}, {}))
  BY <1>23, <1>8, <1>9, <1>14, <1>22, PutSelf
<1>25. f[8].tables = Put(G2, "scans_reseau", Table({}, {"owner_id"}, {Ref("site_id", "sites")}, {}))
  BY <1>24, <1>6, Adding
<1>26. f[9].tables = Put(G2, "scans_reseau", Table({}, {"owner_id"}, {Ref("site_id", "sites"),
                     Ref("owner_id", "users")}, {}))
  BY <1>25, <1>6, Referring
<1> DEFINE G3 == Put(G2, "scans_reseau", Table({}, {"owner_id"}, {Ref("site_id", "sites"),
                     Ref("owner_id", "users")}, {}))
<1>27. /\ IsFun(G3) /\ DOMAIN G3 = (DOMAIN G2) \cup {"scans_reseau"}
       /\ G3["scans_reseau"] = Table({}, {"owner_id"},
            {Ref("site_id", "sites"), Ref("owner_id", "users")}, {})
       /\ \A u \in (DOMAIN G2) \ {"scans_reseau"} : G3[u] = G2[u]
  BY DEF Put, IsFun
<1>28. f[9].tables = G3
  BY <1>26
<1> HIDE DEF G3
<1>29. f[9].tables = Put(G3, "ad_audit_results", Table({"username"}, {"dc_list", "domain_admins",
                     "findings"}, {Ref("equipement_id", "equipements")}, {}))
  BY <1>28, <1>8, <1>9, <1>14, <1>22, <1>27, PutSelf
<1>30. f[10].tables = Put(G3, "ad_audit_results", Table({"username"}, {"dc_list", "domain_admins",
                     "findings", "owner_id"}, {Ref("equipement_id", "equipements")}, {}))
  BY <1>29, <1>6, Adding
<1>31. f[11].tables = Put(G3, "ad_audit_results", Table({"username"}, {"dc_list", "domain_admins",
                     "findings", "owner_id"}, {Ref("equipement_id", "equipements"), Ref("owner_id",
                     "users")}, {}))
  BY <1>30, <1>6, Referring
<1> DEFINE G4 == Put(G3, "ad_audit_results", Table({"username"}, {"dc_list", "domain_admins",
                     "findings", "owner_id"}, {Ref("equipement_id", "equipements"), Ref("owner_id",
                     "users")}, {}))
<1>32. /\ IsFun(G4) /\ DOMAIN G4 = (DOMAIN G3) \cup {"ad_audit_results"}
       /\ G4["ad_audit_results"] = Table({"username"},
            {"dc_list", "domain_admins", "findings", "owner_id"},
                     {Ref("equipement_id", "equipements"), Ref("owner_id", "users")}, {})
       /\ \A u \in (DOMAIN G3) \ {"ad_audit_results"} : G4[u] = G3[u]
  BY DEF Put, IsFun
<1>33. f[11].tables = G4
  BY <1>31
<1> HIDE DEF G4
<1>34. f[12].tables = G4
  BY <1>33, <1>32, <1>6, Texting
<1>35. f[13].tables = G4
  BY <1>34, <1>32, <1>6, Texting
<1> DEFINE ts == {"audits", "attachments", "scans_reseau", "ad_audit_results"}
<1>36. /\ IsFun(G4) /\ DOMAIN G4 = (DOMAIN S) \cup ts
       /\ \A u \in ts : G4[u] = Version(u, 11)
       /\ \A u \in (DOMAIN S) \ ts : G4[u] = S[u]
  BY <1>14, <1>22, <1>27, <1>32, <1>8
<1>37. Names(11) = Names(10) \cup ts /\ ts \cap {} = {}
  BY OldNames DEF Names
<1>38. \A u \in Names(10) \ ts : Version(u, 11) = Version(u, 10)
  BY DEF Version, Monkeys
<1> HIDE DEF ts
<1>39. DOMAIN S = Names(10) \ {} /\ \A u \in DOMAIN S : S[u] = Version(u, 10)
  BY DEF S, Stage
<1>40. \A u \in (Names(10) \ {}) \ ts :
         G4[u] = Version(u, 10) /\ Version(u, 11) = Version(u, 10)
  BY <1>38, <1>36, <1>39
<1>41. DOMAIN G4 = (Names(10) \ {}) \cup ts
  BY <1>36, <1>39
<1>42. PutAll(G4, ts, 10, 11, {})
  BY <1>37, <1>36, <1>40, <1>41 DEF PutAll
<1>43. G4 = Stage(11, {})
  BY <1>42, StagePuts
<1>44. QED
  BY <1>35, <1>5, <1>7, <1>43

\* Revision 15396d7282e7: from stage 11 to 12.
LEMMA Up12 ==
  ASSUME NEW d, IsDb(d), d.tables = Stage(11, {}), UpOne(12, d).ok
  PROVE  UpOne(12, d).tables = Stage(12, {}) /\ UpOne(12, d).types = d.types
<1>1. Revision(12, d) = Creates("anssi_checkpoints", AnssiCheckpoint)
  BY DEF Revision, AddAnssiCheckpoints
<1>2. Sets(11, 12, "anssi_checkpoints") /\ "anssi_checkpoints" \notin Names(11)
  BY OldNames DEF Sets, Names, Version, Monkeys
<1>3. Version("anssi_checkpoints", 12) = AnssiCheckpoint
  BY OldNames, NewNames DEF Version, New, ModelTables, Monkeys
<1>4. QED
  BY <1>1, <1>2, <1>3, CreatesUp

\* Revision 15396d7282e7 undone: back to stage 11.
LEMMA Down12 ==
  ASSUME NEW d, IsDb(d), d.tables = Stage(12, {}), DownOne(12, d).ok
  PROVE  DownOne(12, d).tables = Stage(11, {}) /\ DownOne(12, d).types = d.types
<1>1. Revision(12, d) = Creates("anssi_checkpoints", AnssiCheckpoint)
  BY DEF Revision, AddAnssiCheckpoints
<1>2. Sets(11, 12, "anssi_checkpoints") /\ "anssi_checkpoints" \notin Names(11)
  BY OldNames DEF Sets, Names, Version, Monkeys
<1>3. Revision(12, d).down = <<Drop("anssi_checkpoints")>>
  BY <1>1 DEF Creates
<1>4. Goes(d, Drop("anssi_checkpoints"), DownOne(12, d))
  BY <1>3, OneOperation DEF DownOne
<1>5. DownOne(12, d).tables = Stage(11, {})
  BY <1>2, <1>4, Dropping, SetsDrops, StageCut
<1>6. QED
  BY <1>4, <1>5, KeepsTypes, HarmlessOps

\* Revision 545ae2396390: from stage 12 to 13.
LEMMA Up13 ==
  ASSUME NEW d, IsDb(d), d.tables = Stage(12, {}), UpOne(13, d).ok
  PROVE  UpOne(13, d).tables = Stage(13, {}) /\ UpOne(13, d).types = d.types
<1>1. Revision(13, d) = Adds("monkey365_scan_results", "auth_method")
  BY DEF Revision, AddAuthMethod
<1>2. Sets(12, 13, "monkey365_scan_results") /\ "monkey365_scan_results" \in Names(12)
  BY OldNames DEF Sets, Names, Version, Monkeys
<1>3. /\ Version("monkey365_scan_results", 12)
           = Table(MonkeyRequired, MonkeyColumns, {Ref("entreprise_id", "entreprises")},
                     {{"scan_id"}})
      /\ Version("monkey365_scan_results", 13)
           = Table(MonkeyRequired, MonkeyColumns \cup {"auth_method"},
                     {Ref("entreprise_id", "entreprises")}, {{"scan_id"}})
  BY VersionsOfMonkey365ScanResults
<1> DEFINE a == MonkeyRequired
           b == MonkeyColumns
           r == {Ref("entreprise_id", "entreprises")}
           k == {{"scan_id"}}
<1>4. Version("monkey365_scan_results", 13) = Table(a, b \cup {"auth_method"}, r, k)
  BY <1>3
<1> HIDE DEF a, b, r, k
<1>5. QED
  BY <1>1, <1>2, <1>3, <1>4, AddsUp DEF a, b, r, k

\* Revision 545ae2396390 undone: back to stage 12.
LEMMA Down13 ==
  ASSUME NEW d, IsDb(d), d.tables = Stage(13, {}), DownOne(13, d).ok
  PROVE  DownOne(13, d).tables = Stage(12, {}) /\ DownOne(13, d).types = d.types
<1>1. Revision(13, d) = Adds("monkey365_scan_results", "auth_method")
  BY DEF Revision, AddAuthMethod
<1>2. Sets(12, 13, "monkey365_scan_results") /\ "monkey365_scan_results" \in Names(12)
  BY OldNames DEF Sets, Names, Version, Monkeys
<1>3. /\ Version("monkey365_scan_results", 12)
           = Table(MonkeyRequired, MonkeyColumns, {Ref("entreprise_id", "entreprises")},
                     {{"scan_id"}})
      /\ Version("monkey365_scan_results", 13)
           = Table(MonkeyRequired, MonkeyColumns \cup {"auth_method"},
                     {Ref("entreprise_id", "entreprises")}, {{"scan_id"}})
  BY VersionsOfMonkey365ScanResults
<1> DEFINE a == MonkeyRequired
           b == MonkeyColumns
           r == {Ref("entreprise_id", "entreprises")}
           k == {{"scan_id"}}
<1>4. Version("monkey365_scan_results", 13) = Table(a, b \cup {"auth_method"}, r, k)
  BY <1>3
<1>5. /\ "auth_method" \notin a \cup b /\ \A x \in r : x[1] # "auth_method"
      /\ \A x \in k : "auth_method" \notin x
  BY RefFields DEF MonkeyRequired, MonkeyColumns
<1> HIDE DEF a, b, r, k
<1>6. QED
  BY <1>1, <1>2, <1>3, <1>4, <1>5, AddsDown DEF a, b, r, k

\* Revision 4d902ea37878: from stage 13 to 14.
LEMMA Up14 ==
  ASSUME NEW d, IsDb(d), d.tables = Stage(13, {}), UpOne(14, d).ok
  PROVE  UpOne(14, d).tables = Stage(14, {}) /\ UpOne(14, d).types = d.types
<1>1. Revision(14, d) = Adds("agents", "revoked_at")
  BY DEF Revision, AddRevokedAt
<1>2. Sets(13, 14, "agents") /\ "agents" \in Names(13)
  BY OldNames DEF Sets, Names, Version, Monkeys
<1>3. /\ Version("agents", 13) = Table(AgentRequired, AgentColumns, {Ref("user_id", "users")},
           {{"agent_uuid"},
                     {"cert_fingerprint"}})
      /\ Version("agents", 14) = Table(AgentRequired, AgentColumns \cup {"revoked_at"},
           {Ref("user_id",
                     "users")}, {{"agent_uuid"}, {"cert_fingerprint"}})
  BY VersionsOfAgents
<1> DEFINE a == AgentRequired
           b == AgentColumns
           r == {Ref("user_id", "users")}
           k == {{"agent_uuid"}, {"cert_fingerprint"}}
<1>4. Version("agents", 14) = Table(a, b \cup {"revoked_at"}, r, k)
  BY <1>3
<1> HIDE DEF a, b, r, k
<1>5. QED
  BY <1>1, <1>2, <1>3, <1>4, AddsUp DEF a, b, r, k

\* Revision 4d902ea37878 undone: back to stage 13.
LEMMA Down14 ==
  ASSUME NEW d, IsDb(d), d.tables = Stage(14, {}), DownOne(14, d).ok
  PROVE  DownOne(14, d).tables = Stage(13, {}) /\ DownOne(14, d).types = d.types
<1>1. Revision(14, d) = Adds("agents", "revoked_at")
  BY DEF Revision, AddRevokedAt
<1>2. Sets(13, 14, "agents") /\ "agents" \in Names(13)
  BY OldNames DEF Sets, Names, Version, Monkeys
<1>3. /\ Version("agents", 13) = Table(AgentRequired, AgentColumns, {Ref("user_id", "users")},
           {{"agent_uuid"},
                     {"cert_fingerprint"}})
      /\ Version("agents", 14) = Table(AgentRequired, AgentColumns \cup {"revoked_at"},
           {Ref("user_id",
                     "users")}, {{"agent_uuid"}, {"cert_fingerprint"}})
  BY VersionsOfAgents
<1> DEFINE a == AgentRequired
           b == AgentColumns
           r == {Ref("user_id", "users")}
           k == {{"agent_uuid"}, {"cert_fingerprint"}}
<1>4. Version("agents", 14) = Table(a, b \cup {"revoked_at"}, r, k)
  BY <1>3
<1>5. /\ "revoked_at" \notin a \cup b /\ \A x \in r : x[1] # "revoked_at"
      /\ \A x \in k : "revoked_at" \notin x
  BY RefFields DEF AgentRequired, AgentColumns
<1> HIDE DEF a, b, r, k
<1>6. QED
  BY <1>1, <1>2, <1>3, <1>4, <1>5, AddsDown DEF a, b, r, k

\* Revision 03119a21496b: from stage 14 to 15.
LEMMA Up15 ==
  ASSUME NEW d, IsDb(d), d.tables = Stage(14, {}), UpOne(15, d).ok
  PROVE  UpOne(15, d).tables = Stage(15, {}) /\ UpOne(15, d).types = d.types
<1>1. Revision(15, d) = Creates("oradad_configs", OradadConfig)
  BY DEF Revision, AddOradadConfigs
<1>2. Sets(14, 15, "oradad_configs") /\ "oradad_configs" \notin Names(14)
  BY OldNames DEF Sets, Names, Version, Monkeys
<1>3. Version("oradad_configs", 15) = OradadConfig
  BY OldNames, NewNames DEF Version, New, ModelTables, Monkeys
<1>4. QED
  BY <1>1, <1>2, <1>3, CreatesUp

\* Revision 03119a21496b undone: back to stage 14.
LEMMA Down15 ==
  ASSUME NEW d, IsDb(d), d.tables = Stage(15, {}), DownOne(15, d).ok
  PROVE  DownOne(15, d).tables = Stage(14, {}) /\ DownOne(15, d).types = d.types
<1>1. Revision(15, d) = Creates("oradad_configs", OradadConfig)
  BY DEF Revision, AddOradadConfigs
<1>2. Sets(14, 15, "oradad_configs") /\ "oradad_configs" \notin Names(14)
  BY OldNames DEF Sets, Names, Version, Monkeys
<1>3. QED
  BY <1>1, <1>2, CreatesDown

\* Revision a7f3b2c41d58: from stage 15 to 16.
LEMMA Up16 ==
  ASSUME NEW d, IsDb(d), d.tables = Stage(15, {}),
         UpOne(16, d).ok
  PROVE  /\ UpOne(16, d).tables = Stage(16, {})
         /\ UpOne(16, d).types = d.types
<1> DEFINE S == Stage(15, {})
           ops == <<ToText("oradad_configs", "explicit_domains")>>
<1>1. Revision(16, d).up = ops /\ Len(ops) = 1
  BY DEF Revision, EncryptOradadDomains
<1>2. \A k \in 1 .. Len(ops) : Harmless(ops[k])
  BY HarmlessOps
<1> HIDE DEF ops
<1>3. PICK f : UpRun(16, d, ops, f)
  BY <1>1, UpRuns
<1>4. /\ f[0] = d /\ f[1] = UpOne(16, d)
      /\ \A k \in 1 .. 1 : Goes(f[k - 1], ops[k], f[k])
  BY <1>1, <1>3 DEF UpRun
<1>5. /\ Goes(f[0], ToText("oradad_configs", "explicit_domains"), f[1])
  BY <1>4 DEF ops
<1>6. UpOne(16, d).types = d.types
  BY <1>1, <1>2, UpTypes
<1> HIDE DEF S
<1>7. f[0].tables = S
  BY <1>4 DEF S
<1>8. IsFun(S)
  BY DEF S, Stage, IsFun
<1>9. f[1].tables = S
  BY <1>7, <1>8, <1>5, Texting
<1>10. Names(16) = Names(15)
  BY DEF Names
<1>11. \A u : Version(u, 16) = Version(u, 15)
  BY DEF Version, Monkeys
<1>12. S = Stage(16, {})
  BY <1>10, <1>11 DEF S, Stage
<1>13. QED
  BY <1>9, <1>4, <1>6, <1>12

\* Revision b8e4c3d91f02: from stage 16 to 17.
LEMMA Up17 ==
  ASSUME NEW d, IsDb(d), d.tables = Stage(16, {}),
         UpOne(17, d).ok
  PROVE  /\ UpOne(17, d).tables = Stage(17, {})
         /\ UpOne(17, d).types = d.types
<1> DEFINE S == Stage(16, {})
           ops == <<Drop("pingcastle_results")>>
<1>1. Revision(17, d).up = ops /\ Len(ops) = 1
  BY DEF Revision, DropPingcastleResults
<1>2. \A k \in 1 .. Len(ops) : Harmless(ops[k])
  BY HarmlessOps
<1> HIDE DEF ops
<1>3. PICK f : UpRun(17, d, ops, f)
  BY <1>1, UpRuns
<1>4. /\ f[0] = d /\ f[1] = UpOne(17, d)
      /\ \A k \in 1 .. 1 : Goes(f[k - 1], ops[k], f[k])
  BY <1>1, <1>3 DEF UpRun
<1>5. /\ Goes(f[0], Drop("pingcastle_results"), f[1])
  BY <1>4 DEF ops
<1>6. UpOne(17, d).types = d.types
  BY <1>1, <1>2, UpTypes
<1> HIDE DEF S
<1>7. f[0].tables = S
  BY <1>4 DEF S
<1>8. f[1].tables = Cut(S, "pingcastle_results")
  BY <1>7, <1>5, Dropping
<1>9. Drops(16, 17, "pingcastle_results")
  BY OldNames DEF Drops, Names, Version, Monkeys
<1>10. QED
  BY <1>8, <1>4, <1>6, <1>9, StageCut DEF S

\* Revision a941e35e1a43: from stage 17 to 18.
LEMMA Up18 ==
  ASSUME NEW d, IsDb(d), d.tables = Stage(17, {}), UpOne(18, d).ok
  PROVE  UpOne(18, d).tables = Stage(18, {}) /\ UpOne(18, d).types = d.types
<1>1. Revision(18, d) = Creates("task_artifacts", TaskArtifact)
  BY DEF Revision, AddTaskArtifacts
<1>2. Sets(17, 18, "task_artifacts") /\ "task_artifacts" \notin Names(17)
  BY OldNames DEF Sets, Names, Version, Monkeys
<1>3. Version("task_artifacts", 18) = TaskArtifact
  BY OldNames, NewNames DEF Version, New, ModelTables, Monkeys
<1>4. QED
  BY <1>1, <1>2, <1>3, CreatesUp

\* Revision a941e35e1a43 undone: back to stage 17.
LEMMA Down18 ==
  ASSUME NEW d, IsDb(d), d.tables = Stage(18, {}), DownOne(18, d).ok
  PROVE  DownOne(18, d).tables = Stage(17, {}) /\ DownOne(18, d).types = d.types
<1>1. Revision(18, d) = Creates("task_artifacts", TaskArtifact)
  BY DEF Revision, AddTaskArtifacts
<1>2. Sets(17, 18, "task_artifacts") /\ "task_artifacts" \notin Names(17)
  BY OldNames DEF Sets, Names, Version, Monkeys
<1>3. QED
  BY <1>1, <1>2, CreatesDown

\* Revision c3f7a1b92d04: from stage 18 to 19.
LEMMA Up19 ==
  ASSUME NEW d, IsDb(d), d.tables = Stage(18, {}),
         UpOne(19, d).ok
  PROVE  /\ UpOne(19, d).tables = Stage(19, {})
         /\ UpOne(19, d).types = d.types
<1> DEFINE S == Stage(18, {})
           ops == <<ToText("agent_tasks", "parameters"),
                    ToText("ad_audit_results", "dc_list"),
                    ToText("ad_audit_results", "domain_admins"),
                    ToText("collect_results", "username")>>
<1>1. Revision(19, d).up = ops /\ Len(ops) = 4
  BY DEF Revision, EncryptSensitiveJson
<1>2. \A k \in 1 .. Len(ops) : Harmless(ops[k])
  BY HarmlessOps
<1> HIDE DEF ops
<1>3. PICK f : UpRun(19, d, ops, f)
  BY <1>1, UpRuns
<1>4. /\ f[0] = d /\ f[4] = UpOne(19, d)
      /\ \A k \in 1 .. 4 : Goes(f[k - 1], ops[k], f[k])
  BY <1>1, <1>3 DEF UpRun
<1>5. /\ Goes(f[0], ToText("agent_tasks", "parameters"), f[1])
      /\ Goes(f[1], ToText("ad_audit_results", "dc_list"), f[2])
      /\ Goes(f[2], ToText("ad_audit_results", "domain_admins"), f[3])
      /\ Goes(f[3], ToText("collect_results", "username"), f[4])
  BY <1>4 DEF ops
<1>6. UpOne(19, d).types = d.types
  BY <1>1, <1>2, UpTypes
<1> HIDE DEF S
<1>7. f[0].tables = S
  BY <1>4 DEF S
<1>8. IsFun(S)
  BY DEF S, Stage, IsFun
<1>9. f[1].tables = S
  BY <1>7, <1>8, <1>5, Texting
<1>10. f[2].tables = S
  BY <1>9, <1>8, <1>5, Texting
<1>11. f[3].tables = S
  BY <1>10, <1>8, <1>5, Texting
<1>12. f[4].tables = S
  BY <1>11, <1>8, <1>5, Texting
<1>13. Names(19) = Names(18)
  BY DEF Names
<1>14. \A u : Version(u, 19) = Version(u, 18)
  BY DEF Version, Monkeys
<1>15. S = Stage(19, {})
  BY <1>13, <1>14 DEF S, Stage
<1>16. QED
  BY <1>12, <1>4, <1>6, <1>15

\* Revision backfill_owner_id: from stage 20 to 21.
LEMMA Up21 ==
  ASSUME NEW d, IsDb(d), d.tables = Stage(20, {}),
         UpOne(21, d).ok
  PROVE  /\ UpOne(21, d).tables = Stage(21, {})
         /\ UpOne(21, d).types = d.types
<1> DEFINE S == Stage(20, {})
           ops == <<Backfill("audits", {"admin"}),
                    NotNull("audits", "owner_id"),
                    Backfill("scans_reseau", {"admin"}),
                    Backfill("ad_audit_results", {"admin"})>>
<1>1. Revision(21, d).up = ops /\ Len(ops) = 4
  BY DEF Revision, BackfillOwnerId
<1>2. \A k \in 1 .. Len(ops) : Harmless(ops[k])
  BY HarmlessOps
<1> HIDE DEF ops
<1>3. PICK f : UpRun(21, d, ops, f)
  BY <1>1, UpRuns
<1>4. /\ f[0] = d /\ f[4] = UpOne(21, d)
      /\ \A k \in 1 .. 4 : Goes(f[k - 1], ops[k], f[k])
  BY <1>1, <1>3 DEF UpRun
<1>5. /\ Goes(f[0], Backfill("audits", {"admin"}), f[1])
      /\ Goes(f[1], NotNull("audits", "owner_id"), f[2])
      /\ Goes(f[2], Backfill("scans_reseau", {"admin"}), f[3])
      /\ Goes(f[3], Backfill("ad_audit_results", {"admin"}), f[4])
  BY <1>4 DEF ops
<1>6. UpOne(21, d).types = d.types
  BY <1>1, <1>2, UpTypes
<1>7. /\ Version("audits", 20) = Table({}, {"owner_id"},
           {Ref("entreprise_id", "entreprises"), Ref("owner_id",
                     "users")}, {})
      /\ Version("audits", 21) = Table({"owner_id"}, {},
           {Ref("entreprise_id", "entreprises"), Ref("owner_id",
                     "users")}, {})
  BY VersionsOfAudits
<1>8. /\ {"audits"} \subseteq DOMAIN S /\ IsFun(S)
      /\ S["audits"] = Version("audits", 20)
  BY OldNames DEF IsFun, Stage, Names
<1> HIDE DEF S
<1>9. f[0].tables = S
  BY <1>4 DEF S
<1>10. f[1].tables = S
  BY <1>9, <1>5, FillingIn
<1>11. f[1].tables = Put(S, "audits", Table({}, {"owner_id"}, {Ref("entreprise_id", "entreprises"),
                     Ref("owner_id", "users")}, {}))
  BY <1>10, <1>7, <1>8, PutSelf
<1>12. f[2].tables = Put(S, "audits", Table({"owner_id"}, {}, {Ref("entreprise_id", "entreprises"),
                     Ref("owner_id", "users")}, {}))
  BY <1>11, <1>5, Requiring
<1>13. f[3].tables = Put(S, "audits", Table({"owner_id"}, {}, {Ref("entreprise_id", "entreprises"),
                     Ref("owner_id", "users")}, {}))
  BY <1>12, <1>5, FillingIn
<1>14. f[4].tables = Put(S, "audits", Table({"owner_id"}, {}, {Ref("entreprise_id", "entreprises"),
                     Ref("owner_id", "users")}, {}))
  BY <1>13, <1>5, FillingIn
<1>15. Sets(20, 21, "audits")
  BY OldNames DEF Sets, Names, Version, Monkeys
<1>16. QED
  BY <1>14, <1>4, <1>6, <1>7, <1>15, StagePut DEF S

\* Revision add_entreprise_owner_id: from stage 21 to 22.
LEMMA Up22 ==
  ASSUME NEW d, IsDb(d), d.tables = Stage(21, {}),
         UpOne(22, d).ok
  PROVE  /\ UpOne(22, d).tables = Stage(22, {})
         /\ UpOne(22, d).types = d.types
<1> DEFINE S == Stage(21, {})
           ops == <<AddColumn("entreprises", "owner_id"),
                    Backfill("entreprises", {"auditor", "admin"}),
                    NotNull("entreprises", "owner_id"),
                    AddRef("entreprises", Ref("owner_id", "users"), "fk_entreprises_owner_id")>>
<1>1. Revision(22, d).up = ops /\ Len(ops) = 4
  BY DEF Revision, AddEntrepriseOwnerId
<1>2. \A k \in 1 .. Len(ops) : Harmless(ops[k])
  BY HarmlessOps
<1> HIDE DEF ops
<1>3. PICK f : UpRun(22, d, ops, f)
  BY <1>1, UpRuns
<1>4. /\ f[0] = d /\ f[4] = UpOne(22, d)
      /\ \A k \in 1 .. 4 : Goes(f[k - 1], ops[k], f[k])
  BY <1>1, <1>3 DEF UpRun
<1>5. /\ Goes(f[0], AddColumn("entreprises", "owner_id"), f[1])
      /\ Goes(f[1], Backfill("entreprises", {"auditor", "admin"}), f[2])
      /\ Goes(f[2], NotNull("entreprises", "owner_id"), f[3])
      /\ Goes(f[3], AddRef("entreprises", Ref("owner_id", "users"), "fk_entreprises_owner_id"),
           f[4])
  BY <1>4 DEF ops
<1>6. UpOne(22, d).types = d.types
  BY <1>1, <1>2, UpTypes
<1>7. /\ Version("entreprises", 21) = Table({}, {}, {}, {{"nom"}, {"siret"}})
      /\ Version("entreprises", 22) = Table({"owner_id"}, {}, {Ref("owner_id", "users")},
           {{"nom"}, {"siret"}})
  BY VersionsOfEntreprises
<1>8. /\ {"entreprises"} \subseteq DOMAIN S /\ IsFun(S)
      /\ S["entreprises"] = Version("entreprises", 21)
  BY OldNames DEF IsFun, Stage, Names
<1> HIDE DEF S
<1>9. f[0].tables = S
  BY <1>4 DEF S
<1>10. f[0].tables = Put(S, "entreprises", Table({}, {}, {}, {{"nom"}, {"siret"}}))
  BY <1>9, <1>7, <1>8, PutSelf
<1>11. f[1].tables = Put(S, "entreprises", Table({}, {"owner_id"}, {}, {{"nom"}, {"siret"}}))
  BY <1>10, <1>5, Adding
<1>12. f[2].tables = Put(S, "entreprises", Table({}, {"owner_id"}, {}, {{"nom"}, {"siret"}}))
  BY <1>11, <1>5, FillingIn
<1>13. f[3].tables = Put(S, "entreprises", Table({"owner_id"}, {}, {}, {{"nom"}, {"siret"}}))
  BY <1>12, <1>5, Requiring
<1>14. f[4].tables = Put(S, "entreprises", Table({"owner_id"}, {}, {Ref("owner_id", "users")},
                     {{"nom"}, {"siret"}}))
  BY <1>13, <1>5, Referring
<1>15. Sets(21, 22, "entreprises")
  BY OldNames DEF Sets, Names, Version, Monkeys
<1>16. QED
  BY <1>14, <1>4, <1>6, <1>7, <1>15, StagePut DEF S

\* Revision scan_ad_owner_not_null: from stage 22 to 23.
LEMMA Up23 ==
  ASSUME NEW d, IsDb(d), d.tables = Stage(22, {}),
         UpOne(23, d).ok
  PROVE  /\ UpOne(23, d).tables = Stage(23, {})
         /\ UpOne(23, d).types = d.types
<1> DEFINE S == Stage(22, {})
           ops == <<Backfill("scans_reseau", {"admin"}),
                    Backfill("ad_audit_results", {"admin"}),
                    DeleteOwnerless("scans_reseau"),
                    DeleteOwnerless("ad_audit_results"),
                    NotNull("scans_reseau", "owner_id"),
                    NotNull("ad_audit_results", "owner_id")>>
<1>1. Revision(23, d).up = ops /\ Len(ops) = 6
  BY DEF Revision, ScanAdOwnerNotNull
<1>2. /\ Harmless(Backfill("scans_reseau", {"admin"}))
      /\ Harmless(Backfill("ad_audit_results", {"admin"}))
      /\ Harmless(DeleteOwnerless("scans_reseau"))
      /\ Harmless(DeleteOwnerless("ad_audit_results"))
      /\ Harmless(NotNull("scans_reseau", "owner_id"))
      /\ Harmless(NotNull("ad_audit_results", "owner_id"))
  BY HarmlessOps
<1>3. \A k \in 1 .. Len(ops) : Harmless(ops[k])
  BY <1>1, <1>2
<1> HIDE DEF ops
<1>4. PICK f : UpRun(23, d, ops, f)
  BY <1>1, UpRuns
<1>5. /\ f[0] = d /\ f[6] = UpOne(23, d)
      /\ \A k \in 1 .. 6 : Goes(f[k - 1], ops[k], f[k])
  BY <1>1, <1>4 DEF UpRun
<1>6. /\ Goes(f[0], Backfill("scans_reseau", {"admin"}), f[1])
      /\ Goes(f[1], Backfill("ad_audit_results", {"admin"}), f[2])
      /\ Goes(f[2], DeleteOwnerless("scans_reseau"), f[3])
      /\ Goes(f[3], DeleteOwnerless("ad_audit_results"), f[4])
      /\ Goes(f[4], NotNull("scans_reseau", "owner_id"), f[5])
      /\ Goes(f[5], NotNull("ad_audit_results", "owner_id"), f[6])
  BY <1>5 DEF ops
<1>7. UpOne(23, d).types = d.types
  BY <1>1, <1>3, UpTypes
<1>8. /\ Version("scans_reseau", 22) = Table({}, {"owner_id"},
           {Ref("site_id", "sites"), Ref("owner_id", "users")}, {})
      /\ Version("scans_reseau", 23) = Table({"owner_id"}, {},
           {Ref("site_id", "sites"), Ref("owner_id", "users")}, {})
      /\ Version("ad_audit_results", 22) = Table({"username"},
           {"dc_list", "domain_admins", "findings", "owner_id"},
                     {Ref("equipement_id", "equipements"), Ref("owner_id", "users")}, {})
      /\ Version("ad_audit_results", 23) = Table({"username", "owner_id"},
           {"dc_list", "domain_admins", "findings"},
                     {Ref("equipement_id", "equipements"), Ref("owner_id", "users")}, {})
  BY VersionsOfScansReseau, VersionsOfAdAuditResults
<1>9. /\ {"scans_reseau", "ad_audit_results"} \subseteq DOMAIN S /\ IsFun(S)
      /\ S["scans_reseau"] = Version("scans_reseau", 22)
      /\ S["ad_audit_results"] = Version("ad_audit_results", 22)
  BY OldNames DEF IsFun, Stage, Names
<1> HIDE DEF S
<1>10. f[0].tables = S
  BY <1>5 DEF S
<1>11. f[1].tables = S
  BY <1>10, <1>6, FillingIn
<1>12. f[2].tables = S
  BY <1>11, <1>6, FillingIn
<1>13. f[3].tables = S
  BY <1>12, <1>6, FillingIn
<1>14. f[4].tables = S
  BY <1>13, <1>6, FillingIn
<1>15. f[4].tables = Put(S, "scans_reseau", Table({}, {"owner_id"}, {Ref("site_id", "sites"),
                     Ref("owner_id", "users")}, {}))
  BY <1>14, <1>8, <1>9, PutSelf
<1>16. f[5].tables = Put(S, "scans_reseau", Table({"owner_id"}, {}, {Ref("site_id", "sites"),
                     Ref("owner_id", "users")}, {}))
  BY <1>15, <1>6, Requiring
<1> DEFINE G1 == Put(S, "scans_reseau", Table({"owner_id"}, {}, {Ref("site_id", "sites"),
                     Ref("owner_id", "users")}, {}))
<1>17. /\ IsFun(G1) /\ DOMAIN G1 = (DOMAIN S) \cup {"scans_reseau"}
       /\ G1["scans_reseau"] = Table({"owner_id"}, {},
            {Ref("site_id", "sites"), Ref("owner_id", "users")}, {})
       /\ \A u \in (DOMAIN S) \ {"scans_reseau"} : G1[u] = S[u]
  BY DEF Put, IsFun
<1>18. f[5].tables = G1
  BY <1>16
<1> HIDE DEF G1
<1>19. f[5].tables = Put(G1, "ad_audit_results", Table({"username"}, {"dc_list", "domain_admins",
                     "findings", "owner_id"}, {Ref("equipement_id", "equipements"), Ref("owner_id",
                     "users")}, {}))
  BY <1>18, <1>8, <1>9, <1>17, PutSelf
<1>20. f[6].tables = Put(G1, "ad_audit_results", Table({"username", "owner_id"}, {"dc_list",
                     "domain_admins", "findings"}, {Ref("equipement_id", "equipements"),
                     Ref("owner_id", "users")}, {}))
  BY <1>19, <1>6, Requiring
<1> DEFINE G2 == Put(G1, "ad_audit_results", Table({"username", "owner_id"}, {"dc_list",
                     "domain_admins", "findings"}, {Ref("equipement_id", "equipements"),
                     Ref("owner_id", "users")}, {}))
<1>21. /\ IsFun(G2) /\ DOMAIN G2 = (DOMAIN G1) \cup {"ad_audit_results"}
       /\ G2["ad_audit_results"] = Table({"username", "owner_id"},
            {"dc_list", "domain_admins", "findings"},
                     {Ref("equipement_id", "equipements"), Ref("owner_id", "users")}, {})
       /\ \A u \in (DOMAIN G1) \ {"ad_audit_results"} : G2[u] = G1[u]
  BY DEF Put, IsFun
<1>22. f[6].tables = G2
  BY <1>20
<1> HIDE DEF G2
<1> DEFINE ts == {"scans_reseau", "ad_audit_results"}
<1>23. /\ IsFun(G2) /\ DOMAIN G2 = (DOMAIN S) \cup ts
       /\ \A u \in ts : G2[u] = Version(u, 23)
       /\ \A u \in (DOMAIN S) \ ts : G2[u] = S[u]
  BY <1>17, <1>21, <1>8
<1>24. Names(23) = Names(22) \cup ts /\ ts \cap {} = {}
  BY OldNames DEF Names
<1>25. \A u \in Names(22) \ ts : Version(u, 23) = Version(u, 22)
  BY DEF Version, Monkeys
<1> HIDE DEF ts
<1>26. DOMAIN S = Names(22) \ {} /\ \A u \in DOMAIN S : S[u] = Version(u, 22)
  BY DEF S, Stage
<1>27. \A u \in (Names(22) \ {}) \ ts :
         G2[u] = Version(u, 22) /\ Version(u, 23) = Version(u, 22)
  BY <1>25, <1>23, <1>26
<1>28. DOMAIN G2 = (Names(22) \ {}) \cup ts
  BY <1>23, <1>26
<1>29. PutAll(G2, ts, 22, 23, {})
  BY <1>24, <1>23, <1>27, <1>28 DEF PutAll
<1>30. G2 = Stage(23, {})
  BY <1>29, StagePuts
<1>31. QED
  BY <1>22, <1>5, <1>7, <1>30

\* Revision 41f4dca76503: from stage 23 to 24.
LEMMA Up24 ==
  ASSUME NEW d, IsDb(d), d.tables = Stage(23, {}),
         UpOne(24, d).ok
  PROVE  /\ UpOne(24, d).tables = Stage(24, {})
         /\ UpOne(24, d).types = d.types
<1> DEFINE S == Stage(23, {})
           ops == <<Create("tags", Tag),
                    Create("tag_associations", TagAssociation)>>
<1>1. Revision(24, d).up = ops /\ Len(ops) = 2
  BY DEF Revision, CreateTagTables
<1>2. \A k \in 1 .. Len(ops) : Harmless(ops[k])
  BY HarmlessOps
<1> HIDE DEF ops
<1>3. PICK f : UpRun(24, d, ops, f)
  BY <1>1, UpRuns
<1>4. /\ f[0] = d /\ f[2] = UpOne(24, d)
      /\ \A k \in 1 .. 2 : Goes(f[k - 1], ops[k], f[k])
  BY <1>1, <1>3 DEF UpRun
<1>5. /\ Goes(f[0], Create("tags", Tag), f[1])
      /\ Goes(f[1], Create("tag_associations", TagAssociation), f[2])
  BY <1>4 DEF ops
<1>6. UpOne(24, d).types = d.types
  BY <1>1, <1>2, UpTypes
<1> HIDE DEF S
<1>7. f[0].tables = S
  BY <1>4 DEF S
<1>8. f[1].tables = Put(S, "tags", Tag)
  BY <1>7, <1>5, Creating
<1> DEFINE G1 == Put(S, "tags", Tag)
<1>9. /\ IsFun(G1) /\ DOMAIN G1 = (DOMAIN S) \cup {"tags"}
      /\ G1["tags"] = Tag
      /\ \A u \in (DOMAIN S) \ {"tags"} : G1[u] = S[u]
  BY DEF Put, IsFun
<1>10. f[1].tables = G1
  BY <1>8
<1> HIDE DEF G1
<1>11. f[2].tables = Put(G1, "tag_associations", TagAssociation)
  BY <1>10, <1>5, Creating
<1> DEFINE G2 == Put(G1, "tag_associations", TagAssociation)
<1>12. /\ IsFun(G2) /\ DOMAIN G2 = (DOMAIN G1) \cup {"tag_associations"}
       /\ G2["tag_associations"] = TagAssociation
       /\ \A u \in (DOMAIN G1) \ {"tag_associations"} : G2[u] = G1[u]
  BY DEF Put, IsFun
<1>13. f[2].tables = G2
  BY <1>11
<1> HIDE DEF G2
<1>14. /\ Version("tags", 24) = Tag
       /\ Version("tag_associations", 24) = TagAssociation
  BY NewNames DEF Version, New, ModelTables, Monkeys
<1> DEFINE ts == {"tags", "tag_associations"}
<1>15. /\ IsFun(G2) /\ DOMAIN G2 = (DOMAIN S) \cup ts
       /\ \A u \in ts : G2[u] = Version(u, 24)
       /\ \A u \in (DOMAIN S) \ ts : G2[u] = S[u]
  BY <1>9, <1>12, <1>14
<1>16. Names(24) = Names(23) \cup ts /\ ts \cap {} = {}
  BY OldNames DEF Names
<1>17. \A u \in Names(23) \ ts : Version(u, 24) = Version(u, 23)
  BY DEF Version, Monkeys
<1> HIDE DEF ts
<1>18. DOMAIN S = Names(23) \ {} /\ \A u \in DOMAIN S : S[u] = Version(u, 23)
  BY DEF S, Stage
<1>19. \A u \in (Names(23) \ {}) \ ts :
         G2[u] = Version(u, 23) /\ Version(u, 24) = Version(u, 23)
  BY <1>17, <1>15, <1>18
<1>20. DOMAIN G2 = (Names(23) \ {}) \cup ts
  BY <1>15, <1>18
<1>21. PutAll(G2, ts, 23, 24, {})
  BY <1>16, <1>15, <1>19, <1>20 DEF PutAll
<1>22. G2 = Stage(24, {})
  BY <1>21, StagePuts
<1>23. QED
  BY <1>13, <1>4, <1>6, <1>22

\* Revision 43d973779ca0: from stage 24 to 25.
LEMMA Up25 ==
  ASSUME NEW d, IsDb(d), d.tables = Stage(24, {}),
         UpOne(25, d).ok
  PROVE  /\ UpOne(25, d).tables = Stage(25, {})
         /\ UpOne(25, d).types = d.types
<1> DEFINE S == Stage(24, {})
           ops == <<Create("checklist_templates", ChecklistTemplate),
                    Create("checklist_sections", ChecklistSection),
                    Create("checklist_items", ChecklistItem),
                    Create("checklist_instances", ChecklistInstance),
                    Create("checklist_responses", ChecklistResponse)>>
<1>1. Revision(25, d).up = ops /\ Len(ops) = 5
  BY DEF Revision, CreateChecklistTables
<1>2. \A k \in 1 .. Len(ops) : Harmless(ops[k])
  BY HarmlessOps
<1> HIDE DEF ops
<1>3. PICK f : UpRun(25, d, ops, f)
  BY <1>1, UpRuns
<1>4. /\ f[0] = d /\ f[5] = UpOne(25, d)
      /\ \A k \in 1 .. 5 : Goes(f[k - 1], ops[k], f[k])
  BY <1>1, <1>3 DEF UpRun
<1>5. /\ Goes(f[0], Create("checklist_templates", ChecklistTemplate), f[1])
      /\ Goes(f[1], Create("checklist_sections", ChecklistSection), f[2])
      /\ Goes(f[2], Create("checklist_items", ChecklistItem), f[3])
      /\ Goes(f[3], Create("checklist_instances", ChecklistInstance), f[4])
      /\ Goes(f[4], Create("checklist_responses", ChecklistResponse), f[5])
  BY <1>4 DEF ops
<1>6. UpOne(25, d).types = d.types
  BY <1>1, <1>2, UpTypes
<1> HIDE DEF S
<1>7. f[0].tables = S
  BY <1>4 DEF S
<1>8. f[1].tables = Put(S, "checklist_templates", ChecklistTemplate)
  BY <1>7, <1>5, Creating
<1> DEFINE G1 == Put(S, "checklist_templates", ChecklistTemplate)
<1>9. /\ IsFun(G1) /\ DOMAIN G1 = (DOMAIN S) \cup {"checklist_templates"}
      /\ G1["checklist_templates"] = ChecklistTemplate
      /\ \A u \in (DOMAIN S) \ {"checklist_templates"} : G1[u] = S[u]
  BY DEF Put, IsFun
<1>10. f[1].tables = G1
  BY <1>8
<1> HIDE DEF G1
<1>11. f[2].tables = Put(G1, "checklist_sections", ChecklistSection)
  BY <1>10, <1>5, Creating
<1> DEFINE G2 == Put(G1, "checklist_sections", ChecklistSection)
<1>12. /\ IsFun(G2) /\ DOMAIN G2 = (DOMAIN G1) \cup {"checklist_sections"}
       /\ G2["checklist_sections"] = ChecklistSection
       /\ \A u \in (DOMAIN G1) \ {"checklist_sections"} : G2[u] = G1[u]
  BY DEF Put, IsFun
<1>13. f[2].tables = G2
  BY <1>11
<1> HIDE DEF G2
<1>14. f[3].tables = Put(G2, "checklist_items", ChecklistItem)
  BY <1>13, <1>5, Creating
<1> DEFINE G3 == Put(G2, "checklist_items", ChecklistItem)
<1>15. /\ IsFun(G3) /\ DOMAIN G3 = (DOMAIN G2) \cup {"checklist_items"}
       /\ G3["checklist_items"] = ChecklistItem
       /\ \A u \in (DOMAIN G2) \ {"checklist_items"} : G3[u] = G2[u]
  BY DEF Put, IsFun
<1>16. f[3].tables = G3
  BY <1>14
<1> HIDE DEF G3
<1>17. f[4].tables = Put(G3, "checklist_instances", ChecklistInstance)
  BY <1>16, <1>5, Creating
<1> DEFINE G4 == Put(G3, "checklist_instances", ChecklistInstance)
<1>18. /\ IsFun(G4) /\ DOMAIN G4 = (DOMAIN G3) \cup {"checklist_instances"}
       /\ G4["checklist_instances"] = ChecklistInstance
       /\ \A u \in (DOMAIN G3) \ {"checklist_instances"} : G4[u] = G3[u]
  BY DEF Put, IsFun
<1>19. f[4].tables = G4
  BY <1>17
<1> HIDE DEF G4
<1>20. f[5].tables = Put(G4, "checklist_responses", ChecklistResponse)
  BY <1>19, <1>5, Creating
<1> DEFINE G5 == Put(G4, "checklist_responses", ChecklistResponse)
<1>21. /\ IsFun(G5) /\ DOMAIN G5 = (DOMAIN G4) \cup {"checklist_responses"}
       /\ G5["checklist_responses"] = ChecklistResponse
       /\ \A u \in (DOMAIN G4) \ {"checklist_responses"} : G5[u] = G4[u]
  BY DEF Put, IsFun
<1>22. f[5].tables = G5
  BY <1>20
<1> HIDE DEF G5
<1>23. /\ Version("checklist_templates", 25) = ChecklistTemplate
       /\ Version("checklist_sections", 25) = ChecklistSection
       /\ Version("checklist_items", 25) = ChecklistItem
       /\ Version("checklist_instances", 25) = ChecklistInstance
       /\ Version("checklist_responses", 25) = ChecklistResponse
  BY NewNames DEF Version, New, ModelTables, Monkeys
<1> DEFINE ts == {"checklist_templates", "checklist_sections", "checklist_items",
      "checklist_instances", "checklist_responses"}
<1>24. /\ IsFun(G5) /\ DOMAIN G5 = (DOMAIN S) \cup ts
       /\ \A u \in ts : G5[u] = Version(u, 25)
       /\ \A u \in (DOMAIN S) \ ts : G5[u] = S[u]
  BY <1>9, <1>12, <1>15, <1>18, <1>21, <1>23
<1>25. Names(25) = Names(24) \cup ts /\ ts \cap {} = {}
  BY OldNames DEF Names
<1>26. \A u \in Names(24) \ ts : Version(u, 25) = Version(u, 24)
  BY DEF Version, Monkeys
<1> HIDE DEF ts
<1>27. DOMAIN S = Names(24) \ {} /\ \A u \in DOMAIN S : S[u] = Version(u, 24)
  BY DEF S, Stage
<1>28. \A u \in (Names(24) \ {}) \ ts :
         G5[u] = Version(u, 24) /\ Version(u, 25) = Version(u, 24)
  BY <1>26, <1>24, <1>27
<1>29. DOMAIN G5 = (Names(24) \ {}) \cup ts
  BY <1>24, <1>27
<1>30. PutAll(G5, ts, 24, 25, {})
  BY <1>25, <1>24, <1>28, <1>29 DEF PutAll
<1>31. G5 = Stage(25, {})
  BY <1>30, StagePuts
<1>32. QED
  BY <1>22, <1>4, <1>6, <1>31

\* Revision a11a330219bb: from stage 25 to 26.
LEMMA Up26 ==
  ASSUME NEW d, IsDb(d), d.tables = Stage(25, {}),
         UpOne(26, d).ok
  PROVE  /\ UpOne(26, d).tables = Stage(26, {})
         /\ UpOne(26, d).types = d.types
<1> DEFINE S == Stage(25, {})
           ops == <<Create("audit_reports", AuditReport),
                    Create("report_sections", ReportSection)>>
<1>1. Revision(26, d).up = ops /\ Len(ops) = 2
  BY DEF Revision, CreateReportTables
<1>2. \A k \in 1 .. Len(ops) : Harmless(ops[k])
  BY HarmlessOps
<1> HIDE DEF ops
<1>3. PICK f : UpRun(26, d, ops, f)
  BY <1>1, UpRuns
<1>4. /\ f[0] = d /\ f[2] = UpOne(26, d)
      /\ \A k \in 1 .. 2 : Goes(f[k - 1], ops[k], f[k])
  BY <1>1, <1>3 DEF UpRun
<1>5. /\ Goes(f[0], Create("audit_reports", AuditReport), f[1])
      /\ Goes(f[1], Create("report_sections", ReportSection), f[2])
  BY <1>4 DEF ops
<1>6. UpOne(26, d).types = d.types
  BY <1>1, <1>2, UpTypes
<1> HIDE DEF S
<1>7. f[0].tables = S
  BY <1>4 DEF S
<1>8. f[1].tables = Put(S, "audit_reports", AuditReport)
  BY <1>7, <1>5, Creating
<1> DEFINE G1 == Put(S, "audit_reports", AuditReport)
<1>9. /\ IsFun(G1) /\ DOMAIN G1 = (DOMAIN S) \cup {"audit_reports"}
      /\ G1["audit_reports"] = AuditReport
      /\ \A u \in (DOMAIN S) \ {"audit_reports"} : G1[u] = S[u]
  BY DEF Put, IsFun
<1>10. f[1].tables = G1
  BY <1>8
<1> HIDE DEF G1
<1>11. f[2].tables = Put(G1, "report_sections", ReportSection)
  BY <1>10, <1>5, Creating
<1> DEFINE G2 == Put(G1, "report_sections", ReportSection)
<1>12. /\ IsFun(G2) /\ DOMAIN G2 = (DOMAIN G1) \cup {"report_sections"}
       /\ G2["report_sections"] = ReportSection
       /\ \A u \in (DOMAIN G1) \ {"report_sections"} : G2[u] = G1[u]
  BY DEF Put, IsFun
<1>13. f[2].tables = G2
  BY <1>11
<1> HIDE DEF G2
<1>14. /\ Version("audit_reports", 26) = AuditReport
       /\ Version("report_sections", 26) = ReportSection
  BY NewNames DEF Version, New, ModelTables, Monkeys
<1> DEFINE ts == {"audit_reports", "report_sections"}
<1>15. /\ IsFun(G2) /\ DOMAIN G2 = (DOMAIN S) \cup ts
       /\ \A u \in ts : G2[u] = Version(u, 26)
       /\ \A u \in (DOMAIN S) \ ts : G2[u] = S[u]
  BY <1>9, <1>12, <1>14
<1>16. Names(26) = Names(25) \cup ts /\ ts \cap {} = {}
  BY OldNames DEF Names
<1>17. \A u \in Names(25) \ ts : Version(u, 26) = Version(u, 25)
  BY DEF Version, Monkeys
<1> HIDE DEF ts
<1>18. DOMAIN S = Names(25) \ {} /\ \A u \in DOMAIN S : S[u] = Version(u, 25)
  BY DEF S, Stage
<1>19. \A u \in (Names(25) \ {}) \ ts :
         G2[u] = Version(u, 25) /\ Version(u, 26) = Version(u, 25)
  BY <1>17, <1>15, <1>18
<1>20. DOMAIN G2 = (Names(25) \ {}) \cup ts
  BY <1>15, <1>18
<1>21. PutAll(G2, ts, 25, 26, {})
  BY <1>16, <1>15, <1>19, <1>20 DEF PutAll
<1>22. G2 = Stage(26, {})
  BY <1>21, StagePuts
<1>23. QED
  BY <1>13, <1>4, <1>6, <1>22

\* Revision 3a7f2c8d1e90: from stage 27 to 28.
LEMMA Up28 ==
  ASSUME NEW d, IsDb(d), d.tables = Stage(27, {}),
         UpOne(28, d).ok
  PROVE  /\ UpOne(28, d).tables = Stage(28, {})
         /\ "findingstatus" \notin DOMAIN d.types
         /\ \E ls : UpOne(28, d).types = Put(d.types, "findingstatus", ls)
<1> DEFINE S == Stage(27, {})
           ops == <<CreateType("findingstatus",
             {"open", "assigned", "in_progress", "remediated", "verified", "closed"}),
                    Create("findings", Finding),
                    Create("finding_status_history", FindingStatusHistory)>>
<1>1. Revision(28, d).up = ops /\ Len(ops) = 3
  BY DEF Revision, AddFindingTables
<1>2. /\ Harmless(Create("findings", Finding))
      /\ Harmless(Create("finding_status_history", FindingStatusHistory))
  BY HarmlessOps
<1> HIDE DEF ops
<1>3. PICK f : UpRun(28, d, ops, f)
  BY <1>1, UpRuns
<1>4. /\ f[0] = d /\ f[3] = UpOne(28, d)
      /\ \A k \in 1 .. 3 : Goes(f[k - 1], ops[k], f[k])
  BY <1>1, <1>3 DEF UpRun
<1>5. /\ Goes(f[0], CreateType("findingstatus",
           {"open", "assigned", "in_progress", "remediated", "verified", "closed"}), f[1])
      /\ Goes(f[1], Create("findings", Finding), f[2])
      /\ Goes(f[2], Create("finding_status_history", FindingStatusHistory), f[3])
  BY <1>4 DEF ops
<1>6. /\ "findingstatus" \notin DOMAIN d.types
      /\ \E ls : UpOne(28, d).types = Put(d.types, "findingstatus", ls)
  <2>1. f[2].types = f[1].types /\ f[3].types = f[2].types
    BY <1>2, <1>5, KeepsTypes
  <2>2. QED
    BY <1>4, <1>5, <2>1, TypeCreated
<1> HIDE DEF S
<1>7. f[0].tables = S
  BY <1>4 DEF S
<1>8. f[1].tables = S
  BY <1>7, <1>5, Typing
<1>9. f[2].tables = Put(S, "findings", Finding)
  BY <1>8, <1>5, Creating
<1> DEFINE G1 == Put(S, "findings", Finding)
<1>10. /\ IsFun(G1) /\ DOMAIN G1 = (DOMAIN S) \cup {"findings"}
       /\ G1["findings"] = Finding
       /\ \A u \in (DOMAIN S) \ {"findings"} : G1[u] = S[u]
  BY DEF Put, IsFun
<1>11. f[2].tables = G1
  BY <1>9
<1> HIDE DEF G1
<1>12. f[3].tables = Put(G1, "finding_status_history", FindingStatusHistory)
  BY <1>11, <1>5, Creating
<1> DEFINE G2 == Put(G1, "finding_status_history", FindingStatusHistory)
<1>13. /\ IsFun(G2) /\ DOMAIN G2 = (DOMAIN G1) \cup {"finding_status_history"}
       /\ G2["finding_status_history"] = FindingStatusHistory
       /\ \A u \in (DOMAIN G1) \ {"finding_status_history"} : G2[u] = G1[u]
  BY DEF Put, IsFun
<1>14. f[3].tables = G2
  BY <1>12
<1> HIDE DEF G2
<1>15. /\ Version("findings", 28) = Finding
       /\ Version("finding_status_history", 28) = FindingStatusHistory
  BY NewNames DEF Version, New, ModelTables, Monkeys
<1> DEFINE ts == {"findings", "finding_status_history"}
<1>16. /\ IsFun(G2) /\ DOMAIN G2 = (DOMAIN S) \cup ts
       /\ \A u \in ts : G2[u] = Version(u, 28)
       /\ \A u \in (DOMAIN S) \ ts : G2[u] = S[u]
  BY <1>10, <1>13, <1>15
<1>17. Names(28) = Names(27) \cup ts /\ ts \cap {} = {}
  BY OldNames DEF Names
<1>18. \A u \in Names(27) \ ts : Version(u, 28) = Version(u, 27)
  BY DEF Version, Monkeys
<1> HIDE DEF ts
<1>19. DOMAIN S = Names(27) \ {} /\ \A u \in DOMAIN S : S[u] = Version(u, 27)
  BY DEF S, Stage
<1>20. \A u \in (Names(27) \ {}) \ ts :
         G2[u] = Version(u, 27) /\ Version(u, 28) = Version(u, 27)
  BY <1>18, <1>16, <1>19
<1>21. DOMAIN G2 = (Names(27) \ {}) \cup ts
  BY <1>16, <1>19
<1>22. PutAll(G2, ts, 27, 28, {})
  BY <1>17, <1>16, <1>20, <1>21 DEF PutAll
<1>23. G2 = Stage(28, {})
  BY <1>22, StagePuts
<1>24. QED
  BY <1>14, <1>4, <1>6, <1>23

\* Revision 0dbf56cd8db3: from stage 28 to 29.
LEMMA Up29 ==
  ASSUME NEW d, IsDb(d), d.tables = Stage(28, {}), UpOne(29, d).ok
  PROVE  UpOne(29, d).tables = Stage(29, {}) /\ UpOne(29, d).types = d.types
<1>1. Revision(29, d) = Adds("agents", "cert_expires_at")
  BY DEF Revision, AddCertExpiresAt
<1>2. Sets(28, 29, "agents") /\ "agents" \in Names(28)
  BY OldNames DEF Sets, Names, Version, Monkeys
<1>3. /\ Version("agents", 28) = Table(AgentRequired, AgentColumns \cup {"revoked_at"},
           {Ref("user_id",
                     "users")}, {{"agent_uuid"}, {"cert_fingerprint"}})
      /\ Version("agents", 29) = Table(AgentRequired, AgentColumns
           \cup {"revoked_at", "cert_expires_at"},
                     {Ref("user_id", "users")}, {{"agent_uuid"}, {"cert_fingerprint"}})
  BY VersionsOfAgents
<1> DEFINE a == AgentRequired
           b == AgentColumns \cup {"revoked_at"}
           r == {Ref("user_id", "users")}
           k == {{"agent_uuid"}, {"cert_fingerprint"}}
<1>4. Version("agents", 29) = Table(a, b \cup {"cert_expires_at"}, r, k)
  BY <1>3
<1> HIDE DEF a, b, r, k
<1>5. QED
  BY <1>1, <1>2, <1>3, <1>4, AddsUp DEF a, b, r, k

\* Revision 0dbf56cd8db3 undone: back to stage 28.
LEMMA Down29 ==
  ASSUME NEW d, IsDb(d), d.tables = Stage(29, {}), DownOne(29, d).ok
  PROVE  DownOne(29, d).tables = Stage(28, {}) /\ DownOne(29, d).types = d.types
<1>1. Revision(29, d) = Adds("agents", "cert_expires_at")
  BY DEF Revision, AddCertExpiresAt
<1>2. Sets(28, 29, "agents") /\ "agents" \in Names(28)
  BY OldNames DEF Sets, Names, Version, Monkeys
<1>3. /\ Version("agents", 28) = Table(AgentRequired, AgentColumns \cup {"revoked_at"},
           {Ref("user_id",
                     "users")}, {{"agent_uuid"}, {"cert_fingerprint"}})
      /\ Version("agents", 29) = Table(AgentRequired, AgentColumns
           \cup {"revoked_at", "cert_expires_at"},
                     {Ref("user_id", "users")}, {{"agent_uuid"}, {"cert_fingerprint"}})
  BY VersionsOfAgents
<1> DEFINE a == AgentRequired
           b == AgentColumns \cup {"revoked_at"}
           r == {Ref("user_id", "users")}
           k == {{"agent_uuid"}, {"cert_fingerprint"}}
<1>4. Version("agents", 29) = Table(a, b \cup {"cert_expires_at"}, r, k)
  BY <1>3
<1>5. /\ "cert_expires_at" \notin a \cup b /\ \A x \in r : x[1] # "cert_expires_at"
      /\ \A x \in k : "cert_expires_at" \notin x
  BY RefFields DEF AgentRequired, AgentColumns
<1> HIDE DEF a, b, r, k
<1>6. QED
  BY <1>1, <1>2, <1>3, <1>4, <1>5, AddsDown DEF a, b, r, k

\* The types of the pipelines, where there were none.
PipelinesTyped(before, after) ==
  /\ "pipelinestatus" \notin DOMAIN before /\ "pipelinestepstatus" \notin DOMAIN before
  /\ after = Put(Put(before, "pipelinestatus", PipelineStatus),
                 "pipelinestepstatus", PipelineStepStatus)

\* Revision 5fe6333fd834: from stage 29 to 30.
LEMMA Up30 ==
  ASSUME NEW d, IsDb(d), d.tables = Stage(29, {}),
         UpOne(30, d).ok
  PROVE  /\ UpOne(30, d).tables = Stage(30, {})
         /\ PipelinesTyped(d.types, UpOne(30, d).types)
<1> DEFINE S == Stage(29, {})
           ops == <<CreateType("pipelinestatus", {"PENDING", "RUNNING", "COMPLETED", "FAILED"}),
                    CreateType("pipelinestepstatus",
                      {"PENDING", "RUNNING", "COMPLETED", "FAILED", "SKIPPED"}),
                    Create("collect_pipelines", PipelineWithScan)>>
<1>1. Revision(30, d).up = ops /\ Len(ops) = 3
  BY DEF Revision, AddCollectPipeline
<1>2. Harmless(Create("collect_pipelines", PipelineWithScan))
  BY HarmlessOps
<1> HIDE DEF ops
<1>3. PICK f : UpRun(30, d, ops, f)
  BY <1>1, UpRuns
<1>4. /\ f[0] = d /\ f[3] = UpOne(30, d)
      /\ \A k \in 1 .. 3 : Goes(f[k - 1], ops[k], f[k])
  BY <1>1, <1>3 DEF UpRun
<1>5. /\ Goes(f[0], CreateType("pipelinestatus", {"PENDING", "RUNNING", "COMPLETED", "FAILED"}),
           f[1])
      /\ Goes(f[1], CreateType("pipelinestepstatus",
           {"PENDING", "RUNNING", "COMPLETED", "FAILED", "SKIPPED"}), f[2])
      /\ Goes(f[2], Create("collect_pipelines", PipelineWithScan), f[3])
  BY <1>4 DEF ops
<1>6. PipelinesTyped(d.types, UpOne(30, d).types)
  <2>1. f[3].types = f[2].types
    BY <1>2, <1>5, KeepsTypes
  <2>2. /\ PipelineStatus = {"PENDING", "RUNNING", "COMPLETED", "FAILED"}
        /\ PipelineStepStatus = {"PENDING", "RUNNING", "COMPLETED", "FAILED", "SKIPPED"}
    BY DEF PipelineStatus, PipelineStepStatus
  <2>3. /\ "pipelinestatus" \notin DOMAIN f[0].types
        /\ f[1].types = Put(f[0].types, "pipelinestatus", PipelineStatus)
        /\ "pipelinestepstatus" \notin DOMAIN f[1].types
        /\ f[2].types = Put(f[1].types, "pipelinestepstatus", PipelineStepStatus)
    BY <1>5, <2>2, TypeCreated
  <2>4. "pipelinestepstatus" \notin DOMAIN f[0].types
    BY <2>3 DEF Put
  <2>5. QED
    BY <1>4, <2>1, <2>3, <2>4 DEF PipelinesTyped
<1> HIDE DEF S
<1>7. f[0].tables = S
  BY <1>4 DEF S
<1>8. f[1].tables = S
  BY <1>7, <1>5, Typing
<1>9. f[2].tables = S
  BY <1>8, <1>5, Typing
<1>10. f[3].tables = Put(S, "collect_pipelines", PipelineWithScan)
  BY <1>9, <1>5, Creating
<1>11. Sets(29, 30, "collect_pipelines")
  BY OldNames DEF Sets, Names, Version, Monkeys
<1>12. Version("collect_pipelines", 30) = PipelineWithScan
  BY NewNames, OldNames DEF Version, New, ModelTables, Monkeys
<1>13. QED
  BY <1>10, <1>4, <1>6, <1>12, <1>11, StagePut DEF S

\* Revision 8cd801626d19: from stage 30 to 31.
LEMMA Up31 ==
  ASSUME NEW d, IsDb(d), d.tables = Stage(30, {}),
         UpOne(31, d).ok
  PROVE  /\ UpOne(31, d).tables = Stage(31, {})
         /\ UpOne(31, d).types = d.types
<1> DEFINE S == Stage(30, {})
           ops == <<DropColumn("collect_pipelines", "scan_id"),
                    AddColumn("collect_pipelines", "agent_id"),
                    AddColumn("collect_pipelines", "scan_task_uuid"),
                    AddRef("collect_pipelines", Ref("agent_id", "agents"),
                      "fk_collect_pipelines_agent_id_agents"),
                    AddRef("collect_pipelines", Ref("scan_task_uuid", "agent_tasks"),
                      "fk_collect_pipelines_scan_task_uuid_agent_tasks")>>
<1>1. Revision(31, d).up = ops /\ Len(ops) = 5
  BY DEF Revision, PipelineUsesAgentNmap
<1>2. \A k \in 1 .. Len(ops) : Harmless(ops[k])
  BY HarmlessOps
<1> HIDE DEF ops
<1>3. PICK f : UpRun(31, d, ops, f)
  BY <1>1, UpRuns
<1>4. /\ f[0] = d /\ f[5] = UpOne(31, d)
      /\ \A k \in 1 .. 5 : Goes(f[k - 1], ops[k], f[k])
  BY <1>1, <1>3 DEF UpRun
<1>5. /\ Goes(f[0], DropColumn("collect_pipelines", "scan_id"), f[1])
      /\ Goes(f[1], AddColumn("collect_pipelines", "agent_id"), f[2])
      /\ Goes(f[2], AddColumn("collect_pipelines", "scan_task_uuid"), f[3])
      /\ Goes(f[3], AddRef("collect_pipelines", Ref("agent_id", "agents"),
           "fk_collect_pipelines_agent_id_agents"), f[4])
      /\ Goes(f[4], AddRef("collect_pipelines", Ref("scan_task_uuid", "agent_tasks"),
           "fk_collect_pipelines_scan_task_uuid_agent_tasks"), f[5])
  BY <1>4 DEF ops
<1>6. UpOne(31, d).types = d.types
  BY <1>1, <1>2, UpTypes
<1>7. /\ Version("collect_pipelines", 30) = Table(CollectPipeline.req, PipelineColumns
           \cup {"scan_id"}, {Ref("site_id",
                     "sites"), Ref("created_by", "users"), Ref("scan_id", "scans_reseau")}, {})
      /\ Version("collect_pipelines", 31) = Table(CollectPipeline.req, PipelineColumns
           \cup {"agent_id",
                     "scan_task_uuid"}, {Ref("site_id", "sites"), Ref("created_by", "users"),
                     Ref("agent_id", "agents"), Ref("scan_task_uuid", "agent_tasks")}, {})
  BY VersionsOfCollectPipelines
<1>8. /\ {"collect_pipelines"} \subseteq DOMAIN S /\ IsFun(S)
      /\ S["collect_pipelines"] = Version("collect_pipelines", 30)
  BY OldNames DEF IsFun, Stage, Names
<1> HIDE DEF S
<1>9. f[0].tables = S
  BY <1>4 DEF S
<1>10. f[0].tables = Put(S, "collect_pipelines", Table(CollectPipeline.req,
                     PipelineColumns \cup {"scan_id"}, {Ref("site_id", "sites"), Ref("created_by",
                     "users"), Ref("scan_id", "scans_reseau")}, {}))
  BY <1>9, <1>7, <1>8, PutSelf
<1>11. f[1].tables = Put(S, "collect_pipelines", Table(CollectPipeline.req, PipelineColumns,
                     {Ref("site_id", "sites"), Ref("created_by", "users")}, {}))
  BY <1>10, <1>5, Removing, RefFields DEF PipelineColumns, CollectPipeline, Table
<1>12. f[2].tables = Put(S, "collect_pipelines", Table(CollectPipeline.req,
                     PipelineColumns \cup {"agent_id"}, {Ref("site_id", "sites"), Ref("created_by",
                     "users")}, {}))
  BY <1>11, <1>5, Adding
<1>13. f[3].tables = Put(S, "collect_pipelines", Table(CollectPipeline.req,
                     PipelineColumns \cup {"agent_id", "scan_task_uuid"}, {Ref("site_id", "sites"),
                     Ref("created_by", "users")}, {}))
  BY <1>12, <1>5, Adding
<1>14. f[4].tables = Put(S, "collect_pipelines", Table(CollectPipeline.req,
                     PipelineColumns \cup {"agent_id", "scan_task_uuid"}, {Ref("site_id", "sites"),
                     Ref("created_by", "users"), Ref("agent_id", "agents")}, {}))
  BY <1>13, <1>5, Referring
<1>15. f[5].tables = Put(S, "collect_pipelines", Table(CollectPipeline.req,
                     PipelineColumns \cup {"agent_id", "scan_task_uuid"}, {Ref("site_id", "sites"),
                     Ref("created_by", "users"), Ref("agent_id", "agents"), Ref("scan_task_uuid",
                     "agent_tasks")}, {}))
  BY <1>14, <1>5, Referring
<1>16. Sets(30, 31, "collect_pipelines")
  BY OldNames DEF Sets, Names, Version, Monkeys
<1>17. QED
  BY <1>15, <1>4, <1>6, <1>7, <1>16, StagePut DEF S

\* Revision drop_scan_tables: from stage 31 to 32.
LEMMA Up32 ==
  ASSUME NEW d, IsDb(d), d.tables = Stage(31, {}),
         UpOne(32, d).ok
  PROVE  /\ UpOne(32, d).tables = Stage(32, {})
         /\ UpOne(32, d).types = d.types
<1> DEFINE S == Stage(31, {})
           ops == <<Drop("scan_ports"),
                    Drop("scan_hosts"),
                    Drop("scans_reseau")>>
<1>1. HasTable(d, "scan_ports") /\ HasTable(d, "scan_hosts") /\ HasTable(d, "scans_reseau")
  BY OldNames DEF HasTable, Stage, Names
<1>2. Revision(32, d).up = ops /\ Len(ops) = 3
  BY <1>1 DEF Revision, DropScanTables, Unless
<1>3. \A k \in 1 .. Len(ops) : Harmless(ops[k])
  BY HarmlessOps
<1> HIDE DEF ops
<1>4. PICK f : UpRun(32, d, ops, f)
  BY <1>2, UpRuns
<1>5. /\ f[0] = d /\ f[3] = UpOne(32, d)
      /\ \A k \in 1 .. 3 : Goes(f[k - 1], ops[k], f[k])
  BY <1>2, <1>4 DEF UpRun
<1>6. /\ Goes(f[0], Drop("scan_ports"), f[1])
      /\ Goes(f[1], Drop("scan_hosts"), f[2])
      /\ Goes(f[2], Drop("scans_reseau"), f[3])
  BY <1>5 DEF ops
<1>7. UpOne(32, d).types = d.types
  BY <1>2, <1>3, UpTypes
<1> HIDE DEF S
<1>8. f[0].tables = S
  BY <1>5 DEF S
<1>9. f[1].tables = Cut(S, "scan_ports")
  BY <1>8, <1>6, Dropping
<1>10. f[2].tables = Cut(Cut(S, "scan_ports"), "scan_hosts")
  BY <1>9, <1>6, Dropping
<1>11. f[3].tables = Cut(Cut(Cut(S, "scan_ports"), "scan_hosts"), "scans_reseau")
  BY <1>10, <1>6, Dropping
<1> DEFINE T == f[3].tables
           ts == {"scan_ports", "scan_hosts", "scans_reseau"}
<1>12. Names(32) = Names(31) \ ts
  BY OldNames DEF Names
<1>13. \A u \in Names(32) : Version(u, 32) = Version(u, 31)
  BY DEF Version, Monkeys
<1>14. /\ IsFun(T) /\ DOMAIN T = (Names(31) \ {}) \ ts
       /\ \A u \in DOMAIN T : T[u] = S[u]
  BY <1>11 DEF Cut, S, Stage, IsFun
<1>15. \A u \in DOMAIN T : T[u] = Version(u, 31) /\ Version(u, 32) = Version(u, 31)
  BY <1>12, <1>13, <1>14 DEF S, Stage
<1> HIDE DEF T, ts
<1>16. CutAll(T, ts, 31, 32, {})
  BY <1>12, <1>14, <1>15 DEF CutAll
<1>17. T = Stage(32, {})
  BY <1>16, StageCuts
<1>18. QED
  BY <1>5, <1>7, <1>17 DEF T

\* Revision 9a4e7cd1a2f3: from stage 32 to 33.
LEMMA Up33 ==
  ASSUME NEW d, IsDb(d), d.tables = Stage(32, {}),
         UpOne(33, d).ok
  PROVE  /\ UpOne(33, d).tables = Stage(33, {})
         /\ UpOne(33, d).types = d.types
<1> DEFINE S == Stage(32, {})
           ops == <<AddColumn("collect_results", "agent_task_id"),
                    AddRef("collect_results", SetsNull("agent_task_id", "agent_tasks"),
                      "fk_collect_results_agent_task_id_agent_tasks")>>
<1>1. Revision(33, d).up = ops /\ Len(ops) = 2
  BY DEF Revision, CollectViaAgent
<1>2. \A k \in 1 .. Len(ops) : Harmless(ops[k])
  BY HarmlessOps
<1> HIDE DEF ops
<1>3. PICK f : UpRun(33, d, ops, f)
  BY <1>1, UpRuns
<1>4. /\ f[0] = d /\ f[2] = UpOne(33, d)
      /\ \A k \in 1 .. 2 : Goes(f[k - 1], ops[k], f[k])
  BY <1>1, <1>3 DEF UpRun
<1>5. /\ Goes(f[0], AddColumn("collect_results", "agent_task_id"), f[1])
      /\ Goes(f[1], AddRef("collect_results", SetsNull("agent_task_id", "agent_tasks"),
           "fk_collect_results_agent_task_id_agent_tasks"), f[2])
  BY <1>4 DEF ops
<1>6. UpOne(33, d).types = d.types
  BY <1>1, <1>2, UpTypes
<1>7. /\ Version("collect_results", 32) = Table({"username"}, {},
           {Ref("equipement_id", "equipements")}, {})
      /\ Version("collect_results", 33) = Table({"username"}, {"agent_task_id"},
           {Ref("equipement_id", "equipements"),
                     SetsNull("agent_task_id", "agent_tasks")}, {})
  BY VersionsOfCollectResults
<1>8. /\ {"collect_results"} \subseteq DOMAIN S /\ IsFun(S)
      /\ S["collect_results"] = Version("collect_results", 32)
  BY OldNames DEF IsFun, Stage, Names
<1> HIDE DEF S
<1>9. f[0].tables = S
  BY <1>4 DEF S
<1>10. f[0].tables = Put(S, "collect_results", Table({"username"}, {}, {Ref("equipement_id",
                     "equipements")}, {}))
  BY <1>9, <1>7, <1>8, PutSelf
<1>11. f[1].tables = Put(S, "collect_results", Table({"username"}, {"agent_task_id"},
                     {Ref("equipement_id", "equipements")}, {}))
  BY <1>10, <1>5, Adding
<1>12. f[2].tables = Put(S, "collect_results", Table({"username"}, {"agent_task_id"},
                     {Ref("equipement_id", "equipements"), SetsNull("agent_task_id",
                     "agent_tasks")}, {}))
  BY <1>11, <1>5, Referring
<1>13. Sets(32, 33, "collect_results")
  BY OldNames DEF Sets, Names, Version, Monkeys
<1>14. QED
  BY <1>12, <1>4, <1>6, <1>7, <1>13, StagePut DEF S

\* Revision e9fac305c5bf: from stage 33 to 34.
LEMMA Up34 ==
  ASSUME NEW d, IsDb(d), d.tables = Stage(33, {}), UpOne(34, d).ok
  PROVE  UpOne(34, d).tables = Stage(34, {}) /\ UpOne(34, d).types = d.types
<1>1. Revision(34, d) = Adds("controls", "effort_days")
  BY DEF Revision, AddControlEffortDays
<1>2. Sets(33, 34, "controls") /\ "controls" \in Names(33)
  BY OldNames DEF Sets, Names, Version, Monkeys
<1>3. /\ Version("controls", 33) = Table({}, {}, {Ref("category_id", "framework_categories")}, {})
      /\ Version("controls", 34) = Table({}, {"effort_days"},
           {Ref("category_id", "framework_categories")}, {})
  BY VersionsOfControls
<1> DEFINE a == {}
           b == {}
           r == {Ref("category_id", "framework_categories")}
           k == {}
<1>4. Version("controls", 34) = Table(a, b \cup {"effort_days"}, r, k)
  BY <1>3
<1> HIDE DEF a, b, r, k
<1>5. QED
  BY <1>1, <1>2, <1>3, <1>4, AddsUp DEF a, b, r, k

\* Revision e9fac305c5bf undone: back to stage 33.
LEMMA Down34 ==
  ASSUME NEW d, IsDb(d), d.tables = Stage(34, {}), DownOne(34, d).ok
  PROVE  DownOne(34, d).tables = Stage(33, {}) /\ DownOne(34, d).types = d.types
<1>1. Revision(34, d) = Adds("controls", "effort_days")
  BY DEF Revision, AddControlEffortDays
<1>2. Sets(33, 34, "controls") /\ "controls" \in Names(33)
  BY OldNames DEF Sets, Names, Version, Monkeys
<1>3. /\ Version("controls", 33) = Table({}, {}, {Ref("category_id", "framework_categories")}, {})
      /\ Version("controls", 34) = Table({}, {"effort_days"},
           {Ref("category_id", "framework_categories")}, {})
  BY VersionsOfControls
<1> DEFINE a == {}
           b == {}
           r == {Ref("category_id", "framework_categories")}
           k == {}
<1>4. Version("controls", 34) = Table(a, b \cup {"effort_days"}, r, k)
  BY <1>3
<1>5. /\ "effort_days" \notin a \cup b /\ \A x \in r : x[1] # "effort_days"
      /\ \A x \in k : "effort_days" \notin x
  BY RefFields
<1> HIDE DEF a, b, r, k
<1>6. QED
  BY <1>1, <1>2, <1>3, <1>4, <1>5, AddsDown DEF a, b, r, k

\* Revision 001 undone: back to stage 0.
LEMMA Down1 ==
  ASSUME NEW d, IsDb(d), NEW lost, lost \in Losses(1), d.tables = Stage(1, lost),
         DownOne(1, d).ok
  PROVE  /\ DownOne(1, d).tables = Stage(0, lost)
         /\ DownOne(1, d).types = d.types
<1> DEFINE S == Stage(1, lost)
           ops == <<DropColumn("frameworks", "author"),
                    DropColumn("frameworks", "source")>>
<1>1. Revision(1, d).down = ops /\ Len(ops) = 2
  BY DEF Revision, AddSourceAuthor
<1>2. \A k \in 1 .. Len(ops) : Harmless(ops[k])
  BY HarmlessOps
<1> HIDE DEF ops
<1>3. PICK f : DownRun(1, d, ops, f)
  BY <1>1, DownRuns
<1>4. /\ f[0] = d /\ f[2] = DownOne(1, d)
      /\ \A k \in 1 .. 2 : Goes(f[k - 1], ops[k], f[k])
  BY <1>1, <1>3 DEF DownRun
<1>5. /\ Goes(f[0], DropColumn("frameworks", "author"), f[1])
      /\ Goes(f[1], DropColumn("frameworks", "source"), f[2])
  BY <1>4 DEF ops
<1>6. DownOne(1, d).types = d.types
  BY <1>1, <1>2, DownTypes
<1>7. /\ Version("frameworks", 1) = Table({}, {"source", "author"},
           {Ref("parent_version_id", "frameworks")},
                     {{"ref_id", "version"}})
      /\ Version("frameworks", 0) = Table({}, {}, {Ref("parent_version_id", "frameworks")},
           {{"ref_id", "version"}})
  BY VersionsOfFrameworks
<1>8. /\ {"frameworks"} \subseteq DOMAIN S /\ IsFun(S)
      /\ S["frameworks"] = Version("frameworks", 1)
  BY OldNames DEF IsFun, Stage, Names, Losses, Monkeys
<1> HIDE DEF S
<1>9. f[0].tables = S
  BY <1>4 DEF S
<1>10. f[0].tables = Put(S, "frameworks", Table({}, {"source", "author"}, {Ref("parent_version_id",
                     "frameworks")}, {{"ref_id", "version"}}))
  BY <1>9, <1>7, <1>8, PutSelf
<1>11. f[1].tables = Put(S, "frameworks", Table({}, {"source"}, {Ref("parent_version_id",
                     "frameworks")}, {{"ref_id", "version"}}))
  BY <1>10, <1>5, Removing, RefFields
<1>12. f[2].tables = Put(S, "frameworks", Table({}, {}, {Ref("parent_version_id", "frameworks")},
                     {{"ref_id", "version"}}))
  BY <1>11, <1>5, Removing, RefFields
<1>13. Sets(1, 0, "frameworks") /\ "frameworks" \notin lost
  BY OldNames DEF Sets, Names, Version, Monkeys, Losses
<1>14. QED
  BY <1>12, <1>4, <1>6, <1>7, <1>13, StagePut DEF S

\* Revision 002 undone: back to stage 1.
LEMMA Down2 ==
  ASSUME NEW d, IsDb(d), NEW lost, lost \in Losses(2), d.tables = Stage(2, lost),
         DownOne(2, d).ok
  PROVE  /\ DownOne(2, d).tables = Stage(1, lost)
         /\ DownOne(2, d).types = d.types
<1> DEFINE S == Stage(2, lost)
           ops == <<Drop("site_connections"),
                    Drop("network_map_layouts"),
                    Drop("network_links")>>
<1>1. /\ HasTable(d, "network_links") /\ HasTable(d, "network_map_layouts")
      /\ HasTable(d, "site_connections")
  BY DEF HasTable, Stage, Names, Losses, Monkeys
<1>2. Revision(2, d).down = ops /\ Len(ops) = 3
  BY <1>1 DEF Revision, AddNetworkMapTables, Unless
<1>3. \A k \in 1 .. Len(ops) : Harmless(ops[k])
  BY HarmlessOps
<1> HIDE DEF ops
<1>4. PICK f : DownRun(2, d, ops, f)
  BY <1>2, DownRuns
<1>5. /\ f[0] = d /\ f[3] = DownOne(2, d)
      /\ \A k \in 1 .. 3 : Goes(f[k - 1], ops[k], f[k])
  BY <1>2, <1>4 DEF DownRun
<1>6. /\ Goes(f[0], Drop("site_connections"), f[1])
      /\ Goes(f[1], Drop("network_map_layouts"), f[2])
      /\ Goes(f[2], Drop("network_links"), f[3])
  BY <1>5 DEF ops
<1>7. DownOne(2, d).types = d.types
  BY <1>2, <1>3, DownTypes
<1> HIDE DEF S
<1>8. f[0].tables = S
  BY <1>5 DEF S
<1>9. f[1].tables = Cut(S, "site_connections")
  BY <1>8, <1>6, Dropping
<1>10. f[2].tables = Cut(Cut(S, "site_connections"), "network_map_layouts")
  BY <1>9, <1>6, Dropping
<1>11. f[3].tables = Cut(Cut(Cut(S, "site_connections"), "network_map_layouts"), "network_links")
  BY <1>10, <1>6, Dropping
<1> DEFINE T == f[3].tables
           ts == {"site_connections", "network_map_layouts", "network_links"}
<1>12. Names(1) = Names(2) \ ts
  BY OldNames DEF Names
<1>13. \A u \in Names(1) : Version(u, 1) = Version(u, 2)
  BY DEF Version, Monkeys
<1>14. /\ IsFun(T) /\ DOMAIN T = (Names(2) \ lost) \ ts
       /\ \A u \in DOMAIN T : T[u] = S[u]
  BY <1>11 DEF Cut, S, Stage, IsFun
<1>15. \A u \in DOMAIN T : T[u] = Version(u, 2) /\ Version(u, 1) = Version(u, 2)
  BY <1>12, <1>13, <1>14 DEF S, Stage
<1> HIDE DEF T, ts
<1>16. CutAll(T, ts, 2, 1, lost)
  BY <1>12, <1>14, <1>15 DEF CutAll
<1>17. T = Stage(1, lost)
  BY <1>16, StageCuts
<1>18. QED
  BY <1>5, <1>7, <1>17 DEF T

\* Revision 003 undone: back to stage 2.
LEMMA Down3 ==
  ASSUME NEW d, IsDb(d), NEW lost, lost \in Losses(3), d.tables = Stage(3, lost),
         DownOne(3, d).ok
  PROVE  /\ DownOne(3, d).tables = Stage(2, lost)
         /\ DownOne(3, d).types = d.types
<1> DEFINE S == Stage(3, lost)
           ops == <<AddKey("network_links", LinkPair, "uq_network_link_pair")>>
<1>1. Revision(3, d).down = ops /\ Len(ops) = 1
  BY DEF Revision, DropNetworkLinkUnique
<1>2. \A k \in 1 .. Len(ops) : Harmless(ops[k])
  BY HarmlessOps
<1> HIDE DEF ops
<1>3. PICK f : DownRun(3, d, ops, f)
  BY <1>1, DownRuns
<1>4. /\ f[0] = d /\ f[1] = DownOne(3, d)
      /\ \A k \in 1 .. 1 : Goes(f[k - 1], ops[k], f[k])
  BY <1>1, <1>3 DEF DownRun
<1>5. /\ Goes(f[0], AddKey("network_links", LinkPair, "uq_network_link_pair"), f[1])
  BY <1>4 DEF ops
<1>6. DownOne(3, d).types = d.types
  BY <1>1, <1>2, DownTypes
<1>7. /\ Version("network_links", 3) = Table(NetworkLink.req, NetworkLink.opt, NetworkLink.refs, {})
      /\ Version("network_links", 2) = Table(NetworkLink.req, NetworkLink.opt, NetworkLink.refs,
           {LinkPair})
  BY VersionsOfNetworkLinks
<1>8. /\ {"network_links"} \subseteq DOMAIN S /\ IsFun(S)
      /\ S["network_links"] = Version("network_links", 3)
  BY OldNames DEF IsFun, Stage, Names, Losses, Monkeys
<1> HIDE DEF S
<1>9. f[0].tables = S
  BY <1>4 DEF S
<1>10. f[0].tables = Put(S, "network_links", Table(NetworkLink.req, NetworkLink.opt,
         NetworkLink.refs, {}))
  BY <1>9, <1>7, <1>8, PutSelf
<1>11. f[1].tables = Put(S, "network_links", Table(NetworkLink.req, NetworkLink.opt,
                     NetworkLink.refs, {LinkPair}))
  BY <1>10, <1>5, Keying
<1>12. Sets(3, 2, "network_links") /\ "network_links" \notin lost
  BY OldNames DEF Sets, Names, Version, Monkeys, Losses
<1>13. QED
  BY <1>11, <1>4, <1>6, <1>7, <1>12, StagePut DEF S

\* Revision 004 undone: back to stage 3.
LEMMA Down4 ==
  ASSUME NEW d, IsDb(d), NEW lost, lost \in Losses(4), d.tables = Stage(4, lost),
         DownOne(4, d).ok
  PROVE  /\ DownOne(4, d).tables = Stage(3, lost)
         /\ DownOne(4, d).types = d.types
<1> DEFINE S == Stage(4, lost)
           ops == <<Rows("equipements"),
                    Rows("equipements_reseau")>>
<1>1. Revision(4, d).down = ops /\ Len(ops) = 2
  BY DEF Revision, MigrateSwitchRouterAp
<1>2. \A k \in 1 .. Len(ops) : Harmless(ops[k])
  BY HarmlessOps
<1> HIDE DEF ops
<1>3. PICK f : DownRun(4, d, ops, f)
  BY <1>1, DownRuns
<1>4. /\ f[0] = d /\ f[2] = DownOne(4, d)
      /\ \A k \in 1 .. 2 : Goes(f[k - 1], ops[k], f[k])
  BY <1>1, <1>3 DEF DownRun
<1>5. /\ Goes(f[0], Rows("equipements"), f[1])
      /\ Goes(f[1], Rows("equipements_reseau"), f[2])
  BY <1>4 DEF ops
<1>6. DownOne(4, d).types = d.types
  BY <1>1, <1>2, DownTypes
<1> HIDE DEF S
<1>7. f[0].tables = S
  BY <1>4 DEF S
<1>8. f[1].tables = S
  BY <1>7, <1>5, FillingIn
<1>9. f[2].tables = S
  BY <1>8, <1>5, FillingIn
<1>10. Names(3) = Names(4)
  BY DEF Names
<1>11. \A u : Version(u, 3) = Version(u, 4)
  BY DEF Version, Monkeys
<1>12. S = Stage(3, lost)
  BY <1>10, <1>11 DEF S, Stage
<1>13. QED
  BY <1>9, <1>4, <1>6, <1>12

\* Revision 005 undone: back to stage 4.
LEMMA Down5 ==
  ASSUME NEW d, IsDb(d), NEW lost, lost \in Losses(5), d.tables = Stage(5, lost),
         DownOne(5, d).ok
  PROVE  /\ DownOne(5, d).tables = Stage(4, lost)
         /\ DownOne(5, d).types = d.types
<1> DEFINE S == Stage(5, lost)
           ops == <<AddColumn("equipements_reseau", "ports_status"),
                    DropColumn("equipements", "ports_status")>>
<1>1. Revision(5, d).down = ops /\ Len(ops) = 2
  BY DEF Revision, MovePortsStatus
<1>2. \A k \in 1 .. Len(ops) : Harmless(ops[k])
  BY HarmlessOps
<1> HIDE DEF ops
<1>3. PICK f : DownRun(5, d, ops, f)
  BY <1>1, DownRuns
<1>4. /\ f[0] = d /\ f[2] = DownOne(5, d)
      /\ \A k \in 1 .. 2 : Goes(f[k - 1], ops[k], f[k])
  BY <1>1, <1>3 DEF DownRun
<1>5. /\ Goes(f[0], AddColumn("equipements_reseau", "ports_status"), f[1])
      /\ Goes(f[1], DropColumn("equipements", "ports_status"), f[2])
  BY <1>4 DEF ops
<1>6. DownOne(5, d).types = d.types
  BY <1>1, <1>2, DownTypes
<1>7. /\ Version("equipements_reseau", 5) = Table({}, {}, {Ref("id", "equipements")}, {})
      /\ Version("equipements_reseau", 4) = Table({}, {"ports_status"},
           {Ref("id", "equipements")}, {})
      /\ Version("equipements", 5) = Table({}, {"ports_status"}, {Ref("site_id", "sites")},
           {{"site_id", "ip_address"}})
      /\ Version("equipements", 4) = Table({}, {}, {Ref("site_id", "sites")},
           {{"site_id", "ip_address"}})
  BY VersionsOfEquipementsReseau, VersionsOfEquipements
<1>8. /\ {"equipements_reseau", "equipements"} \subseteq DOMAIN S /\ IsFun(S)
      /\ S["equipements_reseau"] = Version("equipements_reseau", 5)
      /\ S["equipements"] = Version("equipements", 5)
  BY OldNames DEF IsFun, Stage, Names, Losses, Monkeys
<1> HIDE DEF S
<1>9. f[0].tables = S
  BY <1>4 DEF S
<1>10. f[0].tables = Put(S, "equipements_reseau", Table({}, {}, {Ref("id", "equipements")}, {}))
  BY <1>9, <1>7, <1>8, PutSelf
<1>11. f[1].tables = Put(S, "equipements_reseau", Table({}, {"ports_status"}, {Ref("id",
                     "equipements")}, {}))
  BY <1>10, <1>5, Adding
<1> DEFINE G1 == Put(S, "equipements_reseau", Table({}, {"ports_status"}, {Ref("id",
                     "equipements")}, {}))
<1>12. /\ IsFun(G1) /\ DOMAIN G1 = (DOMAIN S) \cup {"equipements_reseau"}
       /\ G1["equipements_reseau"] = Table({}, {"ports_status"}, {Ref("id", "equipements")}, {})
       /\ \A u \in (DOMAIN S) \ {"equipements_reseau"} : G1[u] = S[u]
  BY DEF Put, IsFun
<1>13. f[1].tables = G1
  BY <1>11
<1> HIDE DEF G1
<1>14. f[1].tables = Put(G1, "equipements", Table({}, {"ports_status"}, {Ref("site_id", "sites")},
                     {{"site_id", "ip_address"}}))
  BY <1>13, <1>7, <1>8, <1>12, PutSelf
<1>15. f[2].tables = Put(G1, "equipements", Table({}, {}, {Ref("site_id", "sites")}, {{"site_id",
                     "ip_address"}}))
  BY <1>14, <1>5, Removing, RefFields
<1> DEFINE G2 == Put(G1, "equipements", Table({}, {}, {Ref("site_id", "sites")}, {{"site_id",
                     "ip_address"}}))
<1>16. /\ IsFun(G2) /\ DOMAIN G2 = (DOMAIN G1) \cup {"equipements"}
       /\ G2["equipements"] = Table({}, {}, {Ref("site_id", "sites")}, {{"site_id", "ip_address"}})
       /\ \A u \in (DOMAIN G1) \ {"equipements"} : G2[u] = G1[u]
  BY DEF Put, IsFun
<1>17. f[2].tables = G2
  BY <1>15
<1> HIDE DEF G2
<1> DEFINE ts == {"equipements_reseau", "equipements"}
<1>18. /\ IsFun(G2) /\ DOMAIN G2 = (DOMAIN S) \cup ts
       /\ \A u \in ts : G2[u] = Version(u, 4)
       /\ \A u \in (DOMAIN S) \ ts : G2[u] = S[u]
  BY <1>12, <1>16, <1>7
<1>19. Names(4) = Names(5) \cup ts /\ ts \cap lost = {}
  BY OldNames DEF Names, Losses, Monkeys
<1>20. \A u \in Names(5) \ ts : Version(u, 4) = Version(u, 5)
  BY DEF Version, Monkeys
<1> HIDE DEF ts
<1>21. DOMAIN S = Names(5) \ lost /\ \A u \in DOMAIN S : S[u] = Version(u, 5)
  BY DEF S, Stage
<1>22. \A u \in (Names(5) \ lost) \ ts :
         G2[u] = Version(u, 5) /\ Version(u, 4) = Version(u, 5)
  BY <1>20, <1>18, <1>21
<1>23. DOMAIN G2 = (Names(5) \ lost) \cup ts
  BY <1>18, <1>21
<1>24. PutAll(G2, ts, 5, 4, lost)
  BY <1>19, <1>18, <1>22, <1>23 DEF PutAll
<1>25. G2 = Stage(4, lost)
  BY <1>24, StagePuts
<1>26. QED
  BY <1>17, <1>4, <1>6, <1>25

\* Revision 007 undone: back to stage 6.
LEMMA Down7 ==
  ASSUME NEW d, IsDb(d), d.tables = Stage(7, {}),
         DownOne(7, d).ok
  PROVE  /\ DownOne(7, d).tables = Stage(6, {Monkeys})
         /\ DownOne(7, d).types = d.types
<1> DEFINE S == Stage(7, {})
           ops == <<Drop("monkey365_scan_results")>>
<1>1. Revision(7, d).down = ops /\ Len(ops) = 1
  BY DEF Revision, AddMonkey365ScanResults
<1>2. \A k \in 1 .. Len(ops) : Harmless(ops[k])
  BY HarmlessOps
<1> HIDE DEF ops
<1>3. PICK f : DownRun(7, d, ops, f)
  BY <1>1, DownRuns
<1>4. /\ f[0] = d /\ f[1] = DownOne(7, d)
      /\ \A k \in 1 .. 1 : Goes(f[k - 1], ops[k], f[k])
  BY <1>1, <1>3 DEF DownRun
<1>5. /\ Goes(f[0], Drop("monkey365_scan_results"), f[1])
  BY <1>4 DEF ops
<1>6. DownOne(7, d).types = d.types
  BY <1>1, <1>2, DownTypes
<1> HIDE DEF S
<1>7. f[0].tables = S
  BY <1>4 DEF S
<1>8. f[1].tables = Cut(S, "monkey365_scan_results")
  BY <1>7, <1>5, Dropping
<1>9. Names(6) = Names(7)
  BY DEF Names
<1>10. \A u \in Names(6) \ {Monkeys} : Version(u, 6) = Version(u, 7)
  BY DEF Version, Monkeys
<1>11. Cut(S, Monkeys) = Stage(6, {Monkeys})
  BY <1>9, <1>10 DEF S, Stage, Cut
<1>12. QED
  BY <1>8, <1>4, <1>6, <1>11 DEF Monkeys

\* Revision 008 undone: back to stage 7.
LEMMA Down8 ==
  ASSUME NEW d, IsDb(d), d.tables = Stage(8, {}),
         DownOne(8, d).ok
  PROVE  /\ DownOne(8, d).tables = Stage(7, {})
         /\ DownOne(8, d).types = d.types
<1> DEFINE S == Stage(8, {})
           ops == <<DropColumn("monkey365_scan_results", "archive_path")>>
<1>1. Revision(8, d).down = ops /\ Len(ops) = 1
  BY DEF Revision, AddMonkey365ArchivePath
<1>2. \A k \in 1 .. Len(ops) : Harmless(ops[k])
  BY HarmlessOps
<1> HIDE DEF ops
<1>3. PICK f : DownRun(8, d, ops, f)
  BY <1>1, DownRuns
<1>4. /\ f[0] = d /\ f[1] = DownOne(8, d)
      /\ \A k \in 1 .. 1 : Goes(f[k - 1], ops[k], f[k])
  BY <1>1, <1>3 DEF DownRun
<1>5. /\ Goes(f[0], DropColumn("monkey365_scan_results", "archive_path"), f[1])
  BY <1>4 DEF ops
<1>6. DownOne(8, d).types = d.types
  BY <1>1, <1>2, DownTypes
<1>7. /\ Version("monkey365_scan_results", 8) = Table(MonkeyRequired \cup {"force_msal_desktop"},
                     MonkeyColumns \cup {"auth_mode", "powershell_config", "archive_path"},
                     {Ref("entreprise_id", "entreprises")}, {{"scan_id"}})
      /\ Version("monkey365_scan_results", 7) = Table(MonkeyRequired \cup {"force_msal_desktop"},
                     MonkeyColumns \cup {"auth_mode", "powershell_config"}, {Ref("entreprise_id",
                     "entreprises")}, {{"scan_id"}})
  BY VersionsOfMonkey365ScanResults
<1>8. /\ {"monkey365_scan_results"} \subseteq DOMAIN S /\ IsFun(S)
      /\ S["monkey365_scan_results"] = Version("monkey365_scan_results", 8)
  BY OldNames DEF IsFun, Stage, Names
<1> HIDE DEF S
<1>9. f[0].tables = S
  BY <1>4 DEF S
<1>10. f[0].tables = Put(S, "monkey365_scan_results",
                     Table(MonkeyRequired \cup {"force_msal_desktop"},
                     MonkeyColumns \cup {"auth_mode", "powershell_config", "archive_path"},
                     {Ref("entreprise_id", "entreprises")}, {{"scan_id"}}))
  BY <1>9, <1>7, <1>8, PutSelf
<1>11. f[1].tables = Put(S, "monkey365_scan_results",
                     Table(MonkeyRequired \cup {"force_msal_desktop"},
                     MonkeyColumns \cup {"auth_mode", "powershell_config"}, {Ref("entreprise_id",
                     "entreprises")}, {{"scan_id"}}))
  BY <1>10, <1>5, Removing, RefFields DEF MonkeyRequired, MonkeyColumns
<1>12. Sets(8, 7, "monkey365_scan_results")
  BY OldNames DEF Sets, Names, Version, Monkeys
<1>13. QED
  BY <1>11, <1>4, <1>6, <1>7, <1>12, StagePut DEF S

\* Revision 6e27188411e6 undone: back to stage 9.
LEMMA Down10 ==
  ASSUME NEW d, IsDb(d), d.tables = Stage(10, {}),
         DownOne(10, d).ok
  PROVE  /\ DownOne(10, d).tables = Stage(9, {})
         /\ DownOne(10, d).types = d.types
<1> DEFINE S == Stage(10, {})
           ops == <<Drop("agent_tasks"),
                    Drop("agents")>>
<1>1. Revision(10, d).down = ops /\ Len(ops) = 2
  BY DEF Revision, CreateAgents
<1>2. \A k \in 1 .. Len(ops) : Harmless(ops[k])
  BY HarmlessOps
<1> HIDE DEF ops
<1>3. PICK f : DownRun(10, d, ops, f)
  BY <1>1, DownRuns
<1>4. /\ f[0] = d /\ f[2] = DownOne(10, d)
      /\ \A k \in 1 .. 2 : Goes(f[k - 1], ops[k], f[k])
  BY <1>1, <1>3 DEF DownRun
<1>5. /\ Goes(f[0], Drop("agent_tasks"), f[1])
      /\ Goes(f[1], Drop("agents"), f[2])
  BY <1>4 DEF ops
<1>6. DownOne(10, d).types = d.types
  BY <1>1, <1>2, DownTypes
<1> HIDE DEF S
<1>7. f[0].tables = S
  BY <1>4 DEF S
<1>8. f[1].tables = Cut(S, "agent_tasks")
  BY <1>7, <1>5, Dropping
<1>9. f[2].tables = Cut(Cut(S, "agent_tasks"), "agents")
  BY <1>8, <1>5, Dropping
<1> DEFINE T == f[2].tables
           ts == {"agent_tasks", "agents"}
<1>10. Names(9) = Names(10) \ ts
  BY OldNames DEF Names
<1>11. \A u \in Names(9) : Version(u, 9) = Version(u, 10)
  BY DEF Version, Monkeys
<1>12. /\ IsFun(T) /\ DOMAIN T = (Names(10) \ {}) \ ts
       /\ \A u \in DOMAIN T : T[u] = S[u]
  BY <1>9 DEF Cut, S, Stage, IsFun
<1>13. \A u \in DOMAIN T : T[u] = Version(u, 10) /\ Version(u, 9) = Version(u, 10)
  BY <1>10, <1>11, <1>12 DEF S, Stage
<1> HIDE DEF T, ts
<1>14. CutAll(T, ts, 10, 9, {})
  BY <1>10, <1>12, <1>13 DEF CutAll
<1>15. T = Stage(9, {})
  BY <1>14, StageCuts
<1>16. QED
  BY <1>4, <1>6, <1>15 DEF T

\* Revision b8e4c3d91f02 undone: back to stage 16.
LEMMA Down17 ==
  ASSUME NEW d, IsDb(d), d.tables = Stage(17, {}),
         DownOne(17, d).ok
  PROVE  /\ DownOne(17, d).tables = Stage(16, {})
         /\ DownOne(17, d).types = d.types
<1> DEFINE S == Stage(17, {})
           ops == <<Create("pingcastle_results", PingcastleResult)>>
<1>1. Revision(17, d).down = ops /\ Len(ops) = 1
  BY DEF Revision, DropPingcastleResults
<1>2. \A k \in 1 .. Len(ops) : Harmless(ops[k])
  BY HarmlessOps
<1> HIDE DEF ops
<1>3. PICK f : DownRun(17, d, ops, f)
  BY <1>1, DownRuns
<1>4. /\ f[0] = d /\ f[1] = DownOne(17, d)
      /\ \A k \in 1 .. 1 : Goes(f[k - 1], ops[k], f[k])
  BY <1>1, <1>3 DEF DownRun
<1>5. /\ Goes(f[0], Create("pingcastle_results", PingcastleResult), f[1])
  BY <1>4 DEF ops
<1>6. DownOne(17, d).types = d.types
  BY <1>1, <1>2, DownTypes
<1> HIDE DEF S
<1>7. f[0].tables = S
  BY <1>4 DEF S
<1>8. f[1].tables = Put(S, "pingcastle_results", PingcastleResult)
  BY <1>7, <1>5, Creating
<1>9. Sets(17, 16, "pingcastle_results")
  BY OldNames DEF Sets, Names, Version, Monkeys
<1>10. Version("pingcastle_results", 16) = PingcastleResult
  BY NewNames, OldNames DEF Version, Old, BaselineTables, Monkeys
<1>11. QED
  BY <1>8, <1>4, <1>6, <1>10, <1>9, StagePut DEF S

\* Revision backfill_owner_id undone: back to stage 20.
LEMMA Down21 ==
  ASSUME NEW d, IsDb(d), d.tables = Stage(21, {}),
         DownOne(21, d).ok
  PROVE  /\ DownOne(21, d).tables = Stage(20, {})
         /\ DownOne(21, d).types = d.types
<1> DEFINE S == Stage(21, {})
           ops == <<Nullable("audits", "owner_id")>>
<1>1. Revision(21, d).down = ops /\ Len(ops) = 1
  BY DEF Revision, BackfillOwnerId
<1>2. \A k \in 1 .. Len(ops) : Harmless(ops[k])
  BY HarmlessOps
<1> HIDE DEF ops
<1>3. PICK f : DownRun(21, d, ops, f)
  BY <1>1, DownRuns
<1>4. /\ f[0] = d /\ f[1] = DownOne(21, d)
      /\ \A k \in 1 .. 1 : Goes(f[k - 1], ops[k], f[k])
  BY <1>1, <1>3 DEF DownRun
<1>5. /\ Goes(f[0], Nullable("audits", "owner_id"), f[1])
  BY <1>4 DEF ops
<1>6. DownOne(21, d).types = d.types
  BY <1>1, <1>2, DownTypes
<1>7. /\ Version("audits", 21) = Table({"owner_id"}, {},
           {Ref("entreprise_id", "entreprises"), Ref("owner_id",
                     "users")}, {})
      /\ Version("audits", 20) = Table({}, {"owner_id"},
           {Ref("entreprise_id", "entreprises"), Ref("owner_id",
                     "users")}, {})
  BY VersionsOfAudits
<1>8. /\ {"audits"} \subseteq DOMAIN S /\ IsFun(S)
      /\ S["audits"] = Version("audits", 21)
  BY OldNames DEF IsFun, Stage, Names
<1> HIDE DEF S
<1>9. f[0].tables = S
  BY <1>4 DEF S
<1>10. f[0].tables = Put(S, "audits", Table({"owner_id"}, {}, {Ref("entreprise_id", "entreprises"),
                     Ref("owner_id", "users")}, {}))
  BY <1>9, <1>7, <1>8, PutSelf
<1>11. f[1].tables = Put(S, "audits", Table({}, {"owner_id"}, {Ref("entreprise_id", "entreprises"),
                     Ref("owner_id", "users")}, {}))
  BY <1>10, <1>5, Relaxing
<1>12. Sets(21, 20, "audits")
  BY OldNames DEF Sets, Names, Version, Monkeys
<1>13. QED
  BY <1>11, <1>4, <1>6, <1>7, <1>12, StagePut DEF S

\* Revision add_entreprise_owner_id undone: back to stage 21.
LEMMA Down22 ==
  ASSUME NEW d, IsDb(d), d.tables = Stage(22, {}),
         DownOne(22, d).ok
  PROVE  /\ DownOne(22, d).tables = Stage(21, {})
         /\ DownOne(22, d).types = d.types
<1> DEFINE S == Stage(22, {})
           ops == <<DropRef("entreprises", Ref("owner_id", "users"), "fk_entreprises_owner_id"),
                    DropColumn("entreprises", "owner_id")>>
<1>1. Revision(22, d).down = ops /\ Len(ops) = 2
  BY DEF Revision, AddEntrepriseOwnerId, Disowned
<1>2. \A k \in 1 .. Len(ops) : Harmless(ops[k])
  BY HarmlessOps
<1> HIDE DEF ops
<1>3. PICK f : DownRun(22, d, ops, f)
  BY <1>1, DownRuns
<1>4. /\ f[0] = d /\ f[2] = DownOne(22, d)
      /\ \A k \in 1 .. 2 : Goes(f[k - 1], ops[k], f[k])
  BY <1>1, <1>3 DEF DownRun
<1>5. /\ Goes(f[0], DropRef("entreprises", Ref("owner_id", "users"), "fk_entreprises_owner_id"),
           f[1])
      /\ Goes(f[1], DropColumn("entreprises", "owner_id"), f[2])
  BY <1>4 DEF ops
<1>6. DownOne(22, d).types = d.types
  BY <1>1, <1>2, DownTypes
<1>7. /\ Version("entreprises", 22) = Table({"owner_id"}, {}, {Ref("owner_id", "users")},
           {{"nom"}, {"siret"}})
      /\ Version("entreprises", 21) = Table({}, {}, {}, {{"nom"}, {"siret"}})
  BY VersionsOfEntreprises
<1>8. /\ {"entreprises"} \subseteq DOMAIN S /\ IsFun(S)
      /\ S["entreprises"] = Version("entreprises", 22)
  BY OldNames DEF IsFun, Stage, Names
<1> HIDE DEF S
<1>9. f[0].tables = S
  BY <1>4 DEF S
<1>10. f[0].tables = Put(S, "entreprises", Table({"owner_id"}, {}, {Ref("owner_id", "users")},
                     {{"nom"}, {"siret"}}))
  BY <1>9, <1>7, <1>8, PutSelf
<1>11. f[1].tables = Put(S, "entreprises", Table({"owner_id"}, {}, {}, {{"nom"}, {"siret"}}))
  BY <1>10, <1>5, Unreferring, RefFields
<1>12. f[2].tables = Put(S, "entreprises", Table({}, {}, {}, {{"nom"}, {"siret"}}))
  BY <1>11, <1>5, Removing
<1>13. Sets(22, 21, "entreprises")
  BY OldNames DEF Sets, Names, Version, Monkeys
<1>14. QED
  BY <1>12, <1>4, <1>6, <1>7, <1>13, StagePut DEF S

\* Revision scan_ad_owner_not_null undone: back to stage 22.
LEMMA Down23 ==
  ASSUME NEW d, IsDb(d), d.tables = Stage(23, {}),
         DownOne(23, d).ok
  PROVE  /\ DownOne(23, d).tables = Stage(22, {})
         /\ DownOne(23, d).types = d.types
<1> DEFINE S == Stage(23, {})
           ops == <<Nullable("ad_audit_results", "owner_id"),
                    Nullable("scans_reseau", "owner_id")>>
<1>1. Revision(23, d).down = ops /\ Len(ops) = 2
  BY DEF Revision, ScanAdOwnerNotNull
<1>2. \A k \in 1 .. Len(ops) : Harmless(ops[k])
  BY HarmlessOps
<1> HIDE DEF ops
<1>3. PICK f : DownRun(23, d, ops, f)
  BY <1>1, DownRuns
<1>4. /\ f[0] = d /\ f[2] = DownOne(23, d)
      /\ \A k \in 1 .. 2 : Goes(f[k - 1], ops[k], f[k])
  BY <1>1, <1>3 DEF DownRun
<1>5. /\ Goes(f[0], Nullable("ad_audit_results", "owner_id"), f[1])
      /\ Goes(f[1], Nullable("scans_reseau", "owner_id"), f[2])
  BY <1>4 DEF ops
<1>6. DownOne(23, d).types = d.types
  BY <1>1, <1>2, DownTypes
<1>7. /\ Version("ad_audit_results", 23) = Table({"username", "owner_id"},
           {"dc_list", "domain_admins", "findings"},
                     {Ref("equipement_id", "equipements"), Ref("owner_id", "users")}, {})
      /\ Version("ad_audit_results", 22) = Table({"username"},
           {"dc_list", "domain_admins", "findings", "owner_id"},
                     {Ref("equipement_id", "equipements"), Ref("owner_id", "users")}, {})
      /\ Version("scans_reseau", 23) = Table({"owner_id"}, {},
           {Ref("site_id", "sites"), Ref("owner_id", "users")}, {})
      /\ Version("scans_reseau", 22) = Table({}, {"owner_id"},
           {Ref("site_id", "sites"), Ref("owner_id", "users")}, {})
  BY VersionsOfAdAuditResults, VersionsOfScansReseau
<1>8. /\ {"ad_audit_results", "scans_reseau"} \subseteq DOMAIN S /\ IsFun(S)
      /\ S["ad_audit_results"] = Version("ad_audit_results", 23)
      /\ S["scans_reseau"] = Version("scans_reseau", 23)
  BY OldNames DEF IsFun, Stage, Names
<1> HIDE DEF S
<1>9. f[0].tables = S
  BY <1>4 DEF S
<1>10. f[0].tables = Put(S, "ad_audit_results", Table({"username", "owner_id"}, {"dc_list",
                     "domain_admins", "findings"}, {Ref("equipement_id", "equipements"),
                     Ref("owner_id", "users")}, {}))
  BY <1>9, <1>7, <1>8, PutSelf
<1>11. f[1].tables = Put(S, "ad_audit_results", Table({"username"}, {"dc_list", "domain_admins",
                     "findings", "owner_id"}, {Ref("equipement_id", "equipements"), Ref("owner_id",
                     "users")}, {}))
  BY <1>10, <1>5, Relaxing
<1> DEFINE G1 == Put(S, "ad_audit_results", Table({"username"}, {"dc_list", "domain_admins",
                     "findings", "owner_id"}, {Ref("equipement_id", "equipements"), Ref("owner_id",
                     "users")}, {}))
<1>12. /\ IsFun(G1) /\ DOMAIN G1 = (DOMAIN S) \cup {"ad_audit_results"}
       /\ G1["ad_audit_results"] = Table({"username"},
            {"dc_list", "domain_admins", "findings", "owner_id"},
                     {Ref("equipement_id", "equipements"), Ref("owner_id", "users")}, {})
       /\ \A u \in (DOMAIN S) \ {"ad_audit_results"} : G1[u] = S[u]
  BY DEF Put, IsFun
<1>13. f[1].tables = G1
  BY <1>11
<1> HIDE DEF G1
<1>14. f[1].tables = Put(G1, "scans_reseau", Table({"owner_id"}, {}, {Ref("site_id", "sites"),
                     Ref("owner_id", "users")}, {}))
  BY <1>13, <1>7, <1>8, <1>12, PutSelf
<1>15. f[2].tables = Put(G1, "scans_reseau", Table({}, {"owner_id"}, {Ref("site_id", "sites"),
                     Ref("owner_id", "users")}, {}))
  BY <1>14, <1>5, Relaxing
<1> DEFINE G2 == Put(G1, "scans_reseau", Table({}, {"owner_id"}, {Ref("site_id", "sites"),
                     Ref("owner_id", "users")}, {}))
<1>16. /\ IsFun(G2) /\ DOMAIN G2 = (DOMAIN G1) \cup {"scans_reseau"}
       /\ G2["scans_reseau"] = Table({}, {"owner_id"},
            {Ref("site_id", "sites"), Ref("owner_id", "users")}, {})
       /\ \A u \in (DOMAIN G1) \ {"scans_reseau"} : G2[u] = G1[u]
  BY DEF Put, IsFun
<1>17. f[2].tables = G2
  BY <1>15
<1> HIDE DEF G2
<1> DEFINE ts == {"ad_audit_results", "scans_reseau"}
<1>18. /\ IsFun(G2) /\ DOMAIN G2 = (DOMAIN S) \cup ts
       /\ \A u \in ts : G2[u] = Version(u, 22)
       /\ \A u \in (DOMAIN S) \ ts : G2[u] = S[u]
  BY <1>12, <1>16, <1>7
<1>19. Names(22) = Names(23) \cup ts /\ ts \cap {} = {}
  BY OldNames DEF Names
<1>20. \A u \in Names(23) \ ts : Version(u, 22) = Version(u, 23)
  BY DEF Version, Monkeys
<1> HIDE DEF ts
<1>21. DOMAIN S = Names(23) \ {} /\ \A u \in DOMAIN S : S[u] = Version(u, 23)
  BY DEF S, Stage
<1>22. \A u \in (Names(23) \ {}) \ ts :
         G2[u] = Version(u, 23) /\ Version(u, 22) = Version(u, 23)
  BY <1>20, <1>18, <1>21
<1>23. DOMAIN G2 = (Names(23) \ {}) \cup ts
  BY <1>18, <1>21
<1>24. PutAll(G2, ts, 23, 22, {})
  BY <1>19, <1>18, <1>22, <1>23 DEF PutAll
<1>25. G2 = Stage(22, {})
  BY <1>24, StagePuts
<1>26. QED
  BY <1>17, <1>4, <1>6, <1>25

\* Revision 41f4dca76503 undone: back to stage 23.
LEMMA Down24 ==
  ASSUME NEW d, IsDb(d), d.tables = Stage(24, {}),
         DownOne(24, d).ok
  PROVE  /\ DownOne(24, d).tables = Stage(23, {})
         /\ DownOne(24, d).types = d.types
<1> DEFINE S == Stage(24, {})
           ops == <<Drop("tag_associations"),
                    Drop("tags")>>
<1>1. Revision(24, d).down = ops /\ Len(ops) = 2
  BY DEF Revision, CreateTagTables
<1>2. \A k \in 1 .. Len(ops) : Harmless(ops[k])
  BY HarmlessOps
<1> HIDE DEF ops
<1>3. PICK f : DownRun(24, d, ops, f)
  BY <1>1, DownRuns
<1>4. /\ f[0] = d /\ f[2] = DownOne(24, d)
      /\ \A k \in 1 .. 2 : Goes(f[k - 1], ops[k], f[k])
  BY <1>1, <1>3 DEF DownRun
<1>5. /\ Goes(f[0], Drop("tag_associations"), f[1])
      /\ Goes(f[1], Drop("tags"), f[2])
  BY <1>4 DEF ops
<1>6. DownOne(24, d).types = d.types
  BY <1>1, <1>2, DownTypes
<1> HIDE DEF S
<1>7. f[0].tables = S
  BY <1>4 DEF S
<1>8. f[1].tables = Cut(S, "tag_associations")
  BY <1>7, <1>5, Dropping
<1>9. f[2].tables = Cut(Cut(S, "tag_associations"), "tags")
  BY <1>8, <1>5, Dropping
<1> DEFINE T == f[2].tables
           ts == {"tag_associations", "tags"}
<1>10. Names(23) = Names(24) \ ts
  BY OldNames DEF Names
<1>11. \A u \in Names(23) : Version(u, 23) = Version(u, 24)
  BY DEF Version, Monkeys
<1>12. /\ IsFun(T) /\ DOMAIN T = (Names(24) \ {}) \ ts
       /\ \A u \in DOMAIN T : T[u] = S[u]
  BY <1>9 DEF Cut, S, Stage, IsFun
<1>13. \A u \in DOMAIN T : T[u] = Version(u, 24) /\ Version(u, 23) = Version(u, 24)
  BY <1>10, <1>11, <1>12 DEF S, Stage
<1> HIDE DEF T, ts
<1>14. CutAll(T, ts, 24, 23, {})
  BY <1>10, <1>12, <1>13 DEF CutAll
<1>15. T = Stage(23, {})
  BY <1>14, StageCuts
<1>16. QED
  BY <1>4, <1>6, <1>15 DEF T

\* Revision 43d973779ca0 undone: back to stage 24.
LEMMA Down25 ==
  ASSUME NEW d, IsDb(d), d.tables = Stage(25, {}),
         DownOne(25, d).ok
  PROVE  /\ DownOne(25, d).tables = Stage(24, {})
         /\ DownOne(25, d).types = d.types
<1> DEFINE S == Stage(25, {})
           ops == <<Drop("checklist_responses"),
                    Drop("checklist_instances"),
                    Drop("checklist_items"),
                    Drop("checklist_sections"),
                    Drop("checklist_templates")>>
<1>1. Revision(25, d).down = ops /\ Len(ops) = 5
  BY DEF Revision, CreateChecklistTables
<1>2. \A k \in 1 .. Len(ops) : Harmless(ops[k])
  BY HarmlessOps
<1> HIDE DEF ops
<1>3. PICK f : DownRun(25, d, ops, f)
  BY <1>1, DownRuns
<1>4. /\ f[0] = d /\ f[5] = DownOne(25, d)
      /\ \A k \in 1 .. 5 : Goes(f[k - 1], ops[k], f[k])
  BY <1>1, <1>3 DEF DownRun
<1>5. /\ Goes(f[0], Drop("checklist_responses"), f[1])
      /\ Goes(f[1], Drop("checklist_instances"), f[2])
      /\ Goes(f[2], Drop("checklist_items"), f[3])
      /\ Goes(f[3], Drop("checklist_sections"), f[4])
      /\ Goes(f[4], Drop("checklist_templates"), f[5])
  BY <1>4 DEF ops
<1>6. DownOne(25, d).types = d.types
  BY <1>1, <1>2, DownTypes
<1> HIDE DEF S
<1>7. f[0].tables = S
  BY <1>4 DEF S
<1>8. f[1].tables = Cut(S, "checklist_responses")
  BY <1>7, <1>5, Dropping
<1>9. f[2].tables = Cut(Cut(S, "checklist_responses"), "checklist_instances")
  BY <1>8, <1>5, Dropping
<1>10. f[3].tables = Cut(Cut(Cut(S, "checklist_responses"), "checklist_instances"),
         "checklist_items")
  BY <1>9, <1>5, Dropping
<1>11. f[4].tables = Cut(Cut(Cut(Cut(S, "checklist_responses"), "checklist_instances"),
                     "checklist_items"), "checklist_sections")
  BY <1>10, <1>5, Dropping
<1>12. f[5].tables = Cut(Cut(Cut(Cut(Cut(S, "checklist_responses"), "checklist_instances"),
                     "checklist_items"), "checklist_sections"), "checklist_templates")
  BY <1>11, <1>5, Dropping
<1> DEFINE T == f[5].tables
           ts == {"checklist_responses", "checklist_instances", "checklist_items",
             "checklist_sections", "checklist_templates"}
<1>13. Names(24) = Names(25) \ ts
  BY OldNames DEF Names
<1>14. \A u \in Names(24) : Version(u, 24) = Version(u, 25)
  BY DEF Version, Monkeys
<1>15. /\ IsFun(T) /\ DOMAIN T = (Names(25) \ {}) \ ts
       /\ \A u \in DOMAIN T : T[u] = S[u]
  BY <1>12 DEF Cut, S, Stage, IsFun
<1>16. \A u \in DOMAIN T : T[u] = Version(u, 25) /\ Version(u, 24) = Version(u, 25)
  BY <1>13, <1>14, <1>15 DEF S, Stage
<1> HIDE DEF T, ts
<1>17. CutAll(T, ts, 25, 24, {})
  BY <1>13, <1>15, <1>16 DEF CutAll
<1>18. T = Stage(24, {})
  BY <1>17, StageCuts
<1>19. QED
  BY <1>4, <1>6, <1>18 DEF T

\* Revision a11a330219bb undone: back to stage 25.
LEMMA Down26 ==
  ASSUME NEW d, IsDb(d), d.tables = Stage(26, {}),
         DownOne(26, d).ok
  PROVE  /\ DownOne(26, d).tables = Stage(25, {})
         /\ DownOne(26, d).types = d.types
<1> DEFINE S == Stage(26, {})
           ops == <<Drop("report_sections"),
                    Drop("audit_reports")>>
<1>1. Revision(26, d).down = ops /\ Len(ops) = 2
  BY DEF Revision, CreateReportTables
<1>2. \A k \in 1 .. Len(ops) : Harmless(ops[k])
  BY HarmlessOps
<1> HIDE DEF ops
<1>3. PICK f : DownRun(26, d, ops, f)
  BY <1>1, DownRuns
<1>4. /\ f[0] = d /\ f[2] = DownOne(26, d)
      /\ \A k \in 1 .. 2 : Goes(f[k - 1], ops[k], f[k])
  BY <1>1, <1>3 DEF DownRun
<1>5. /\ Goes(f[0], Drop("report_sections"), f[1])
      /\ Goes(f[1], Drop("audit_reports"), f[2])
  BY <1>4 DEF ops
<1>6. DownOne(26, d).types = d.types
  BY <1>1, <1>2, DownTypes
<1> HIDE DEF S
<1>7. f[0].tables = S
  BY <1>4 DEF S
<1>8. f[1].tables = Cut(S, "report_sections")
  BY <1>7, <1>5, Dropping
<1>9. f[2].tables = Cut(Cut(S, "report_sections"), "audit_reports")
  BY <1>8, <1>5, Dropping
<1> DEFINE T == f[2].tables
           ts == {"report_sections", "audit_reports"}
<1>10. Names(25) = Names(26) \ ts
  BY OldNames DEF Names
<1>11. \A u \in Names(25) : Version(u, 25) = Version(u, 26)
  BY DEF Version, Monkeys
<1>12. /\ IsFun(T) /\ DOMAIN T = (Names(26) \ {}) \ ts
       /\ \A u \in DOMAIN T : T[u] = S[u]
  BY <1>9 DEF Cut, S, Stage, IsFun
<1>13. \A u \in DOMAIN T : T[u] = Version(u, 26) /\ Version(u, 25) = Version(u, 26)
  BY <1>10, <1>11, <1>12 DEF S, Stage
<1> HIDE DEF T, ts
<1>14. CutAll(T, ts, 26, 25, {})
  BY <1>10, <1>12, <1>13 DEF CutAll
<1>15. T = Stage(25, {})
  BY <1>14, StageCuts
<1>16. QED
  BY <1>4, <1>6, <1>15 DEF T

\* Revision 3a7f2c8d1e90 undone: back to stage 27.
LEMMA Down28 ==
  ASSUME NEW d, IsDb(d), d.tables = Stage(28, {}),
         DownOne(28, d).ok
  PROVE  /\ DownOne(28, d).tables = Stage(27, {})
         /\ DownOne(28, d).types = d.types
<1> DEFINE S == Stage(28, {})
           ops == <<Drop("finding_status_history"),
                    Drop("findings")>>
<1>1. Revision(28, d).down = ops /\ Len(ops) = 2
  BY DEF Revision, AddFindingTables
<1>2. \A k \in 1 .. Len(ops) : Harmless(ops[k])
  BY HarmlessOps
<1> HIDE DEF ops
<1>3. PICK f : DownRun(28, d, ops, f)
  BY <1>1, DownRuns
<1>4. /\ f[0] = d /\ f[2] = DownOne(28, d)
      /\ \A k \in 1 .. 2 : Goes(f[k - 1], ops[k], f[k])
  BY <1>1, <1>3 DEF DownRun
<1>5. /\ Goes(f[0], Drop("finding_status_history"), f[1])
      /\ Goes(f[1], Drop("findings"), f[2])
  BY <1>4 DEF ops
<1>6. DownOne(28, d).types = d.types
  BY <1>1, <1>2, DownTypes
<1> HIDE DEF S
<1>7. f[0].tables = S
  BY <1>4 DEF S
<1>8. f[1].tables = Cut(S, "finding_status_history")
  BY <1>7, <1>5, Dropping
<1>9. f[2].tables = Cut(Cut(S, "finding_status_history"), "findings")
  BY <1>8, <1>5, Dropping
<1> DEFINE T == f[2].tables
           ts == {"finding_status_history", "findings"}
<1>10. Names(27) = Names(28) \ ts
  BY OldNames DEF Names
<1>11. \A u \in Names(27) : Version(u, 27) = Version(u, 28)
  BY DEF Version, Monkeys
<1>12. /\ IsFun(T) /\ DOMAIN T = (Names(28) \ {}) \ ts
       /\ \A u \in DOMAIN T : T[u] = S[u]
  BY <1>9 DEF Cut, S, Stage, IsFun
<1>13. \A u \in DOMAIN T : T[u] = Version(u, 28) /\ Version(u, 27) = Version(u, 28)
  BY <1>10, <1>11, <1>12 DEF S, Stage
<1> HIDE DEF T, ts
<1>14. CutAll(T, ts, 28, 27, {})
  BY <1>10, <1>12, <1>13 DEF CutAll
<1>15. T = Stage(27, {})
  BY <1>14, StageCuts
<1>16. QED
  BY <1>4, <1>6, <1>15 DEF T

\* Revision 5fe6333fd834 undone: back to stage 29.
LEMMA Down30 ==
  ASSUME NEW d, IsDb(d), d.tables = Stage(30, {}),
         DownOne(30, d).ok
  PROVE  /\ DownOne(30, d).tables = Stage(29, {})
         /\ DownOne(30, d).types = Cut(Cut(d.types, "pipelinestatus"), "pipelinestepstatus")
<1> DEFINE S == Stage(30, {})
           ops == <<Drop("collect_pipelines"),
                    DropType("pipelinestatus"),
                    DropType("pipelinestepstatus")>>
<1>1. Revision(30, d).down = ops /\ Len(ops) = 3
  BY DEF Revision, AddCollectPipeline
<1>2. Harmless(Drop("collect_pipelines"))
  BY HarmlessOps
<1> HIDE DEF ops
<1>3. PICK f : DownRun(30, d, ops, f)
  BY <1>1, DownRuns
<1>4. /\ f[0] = d /\ f[3] = DownOne(30, d)
      /\ \A k \in 1 .. 3 : Goes(f[k - 1], ops[k], f[k])
  BY <1>1, <1>3 DEF DownRun
<1>5. /\ Goes(f[0], Drop("collect_pipelines"), f[1])
      /\ Goes(f[1], DropType("pipelinestatus"), f[2])
      /\ Goes(f[2], DropType("pipelinestepstatus"), f[3])
  BY <1>4 DEF ops
<1>6. DownOne(30, d).types = Cut(Cut(d.types, "pipelinestatus"), "pipelinestepstatus")
  <2>1. f[1].types = f[0].types
    BY <1>2, <1>5, KeepsTypes
  <2>2. /\ f[2].types = Cut(f[1].types, "pipelinestatus")
        /\ f[3].types = Cut(f[2].types, "pipelinestepstatus")
    BY <1>5, TypeDropped
  <2>3. QED
    BY <1>4, <2>1, <2>2
<1> HIDE DEF S
<1>7. f[0].tables = S
  BY <1>4 DEF S
<1>8. f[1].tables = Cut(S, "collect_pipelines")
  BY <1>7, <1>5, Dropping
<1>9. f[2].tables = Cut(S, "collect_pipelines")
  BY <1>8, <1>5, Typing
<1>10. f[3].tables = Cut(S, "collect_pipelines")
  BY <1>9, <1>5, Typing
<1>11. Drops(30, 29, "collect_pipelines")
  BY OldNames DEF Drops, Names, Version, Monkeys
<1>12. QED
  BY <1>10, <1>4, <1>6, <1>11, StageCut DEF S

\* Revision 8cd801626d19 undone: back to stage 30.
LEMMA Down31 ==
  ASSUME NEW d, IsDb(d), d.tables = Stage(31, {}),
         DownOne(31, d).ok
  PROVE  /\ DownOne(31, d).tables = Stage(30, {})
         /\ DownOne(31, d).types = d.types
<1> DEFINE S == Stage(31, {})
           ops == <<DropColumn("collect_pipelines", "scan_task_uuid"),
                    DropColumn("collect_pipelines", "agent_id"),
                    AddColumn("collect_pipelines", "scan_id"),
                    AddRef("collect_pipelines", Ref("scan_id", "scans_reseau"),
                      "fk_collect_pipelines_scan_id_scans_reseau")>>
<1>1. Revision(31, d).down = ops /\ Len(ops) = 4
  BY DEF Revision, PipelineUsesAgentNmap
<1>2. \A k \in 1 .. Len(ops) : Harmless(ops[k])
  BY HarmlessOps
<1> HIDE DEF ops
<1>3. PICK f : DownRun(31, d, ops, f)
  BY <1>1, DownRuns
<1>4. /\ f[0] = d /\ f[4] = DownOne(31, d)
      /\ \A k \in 1 .. 4 : Goes(f[k - 1], ops[k], f[k])
  BY <1>1, <1>3 DEF DownRun
<1>5. /\ Goes(f[0], DropColumn("collect_pipelines", "scan_task_uuid"), f[1])
      /\ Goes(f[1], DropColumn("collect_pipelines", "agent_id"), f[2])
      /\ Goes(f[2], AddColumn("collect_pipelines", "scan_id"), f[3])
      /\ Goes(f[3], AddRef("collect_pipelines", Ref("scan_id", "scans_reseau"),
           "fk_collect_pipelines_scan_id_scans_reseau"), f[4])
  BY <1>4 DEF ops
<1>6. DownOne(31, d).types = d.types
  BY <1>1, <1>2, DownTypes
<1>7. /\ Version("collect_pipelines", 31) = Table(CollectPipeline.req, PipelineColumns
           \cup {"agent_id",
                     "scan_task_uuid"}, {Ref("site_id", "sites"), Ref("created_by", "users"),
                     Ref("agent_id", "agents"), Ref("scan_task_uuid", "agent_tasks")}, {})
      /\ Version("collect_pipelines", 30) = Table(CollectPipeline.req, PipelineColumns
           \cup {"scan_id"}, {Ref("site_id",
                     "sites"), Ref("created_by", "users"), Ref("scan_id", "scans_reseau")}, {})
  BY VersionsOfCollectPipelines
<1>8. /\ {"collect_pipelines"} \subseteq DOMAIN S /\ IsFun(S)
      /\ S["collect_pipelines"] = Version("collect_pipelines", 31)
  BY OldNames DEF IsFun, Stage, Names
<1> HIDE DEF S
<1>9. f[0].tables = S
  BY <1>4 DEF S
<1>10. f[0].tables = Put(S, "collect_pipelines", Table(CollectPipeline.req,
                     PipelineColumns \cup {"agent_id", "scan_task_uuid"}, {Ref("site_id", "sites"),
                     Ref("created_by", "users"), Ref("agent_id", "agents"), Ref("scan_task_uuid",
                     "agent_tasks")}, {}))
  BY <1>9, <1>7, <1>8, PutSelf
<1>11. f[1].tables = Put(S, "collect_pipelines", Table(CollectPipeline.req,
                     PipelineColumns \cup {"agent_id"}, {Ref("site_id", "sites"), Ref("created_by",
                     "users"), Ref("agent_id", "agents")}, {}))
  BY <1>10, <1>5, Removing, RefFields DEF PipelineColumns, CollectPipeline, Table
<1>12. f[2].tables = Put(S, "collect_pipelines", Table(CollectPipeline.req, PipelineColumns,
                     {Ref("site_id", "sites"), Ref("created_by", "users")}, {}))
  BY <1>11, <1>5, Removing, RefFields DEF PipelineColumns, CollectPipeline, Table
<1>13. f[3].tables = Put(S, "collect_pipelines", Table(CollectPipeline.req,
                     PipelineColumns \cup {"scan_id"}, {Ref("site_id", "sites"), Ref("created_by",
                     "users")}, {}))
  BY <1>12, <1>5, Adding
<1>14. f[4].tables = Put(S, "collect_pipelines", Table(CollectPipeline.req,
                     PipelineColumns \cup {"scan_id"}, {Ref("site_id", "sites"), Ref("created_by",
                     "users"), Ref("scan_id", "scans_reseau")}, {}))
  BY <1>13, <1>5, Referring
<1>15. Sets(31, 30, "collect_pipelines")
  BY OldNames DEF Sets, Names, Version, Monkeys
<1>16. QED
  BY <1>14, <1>4, <1>6, <1>7, <1>15, StagePut DEF S

\* Revision 9a4e7cd1a2f3 undone: back to stage 32.
LEMMA Down33 ==
  ASSUME NEW d, IsDb(d), d.tables = Stage(33, {}),
         DownOne(33, d).ok
  PROVE  /\ DownOne(33, d).tables = Stage(32, {})
         /\ DownOne(33, d).types = d.types
<1> DEFINE S == Stage(33, {})
           ops == <<DropRef("collect_results", SetsNull("agent_task_id", "agent_tasks"),
             "fk_collect_results_agent_task_id_agent_tasks"),
                    DropColumn("collect_results", "agent_task_id")>>
<1>1. Revision(33, d).down = ops /\ Len(ops) = 2
  BY DEF Revision, CollectViaAgent
<1>2. \A k \in 1 .. Len(ops) : Harmless(ops[k])
  BY HarmlessOps
<1> HIDE DEF ops
<1>3. PICK f : DownRun(33, d, ops, f)
  BY <1>1, DownRuns
<1>4. /\ f[0] = d /\ f[2] = DownOne(33, d)
      /\ \A k \in 1 .. 2 : Goes(f[k - 1], ops[k], f[k])
  BY <1>1, <1>3 DEF DownRun
<1>5. /\ Goes(f[0], DropRef("collect_results", SetsNull("agent_task_id", "agent_tasks"),
           "fk_collect_results_agent_task_id_agent_tasks"), f[1])
      /\ Goes(f[1], DropColumn("collect_results", "agent_task_id"), f[2])
  BY <1>4 DEF ops
<1>6. DownOne(33, d).types = d.types
  BY <1>1, <1>2, DownTypes
<1>7. /\ Version("collect_results", 33) = Table({"username"}, {"agent_task_id"},
           {Ref("equipement_id", "equipements"),
                     SetsNull("agent_task_id", "agent_tasks")}, {})
      /\ Version("collect_results", 32) = Table({"username"}, {},
           {Ref("equipement_id", "equipements")}, {})
  BY VersionsOfCollectResults
<1>8. /\ {"collect_results"} \subseteq DOMAIN S /\ IsFun(S)
      /\ S["collect_results"] = Version("collect_results", 33)
  BY OldNames DEF IsFun, Stage, Names
<1> HIDE DEF S
<1>9. f[0].tables = S
  BY <1>4 DEF S
<1>10. f[0].tables = Put(S, "collect_results", Table({"username"}, {"agent_task_id"},
                     {Ref("equipement_id", "equipements"), SetsNull("agent_task_id",
                     "agent_tasks")}, {}))
  BY <1>9, <1>7, <1>8, PutSelf
<1>11. f[1].tables = Put(S, "collect_results", Table({"username"}, {"agent_task_id"},
                     {Ref("equipement_id", "equipements")}, {}))
  BY <1>10, <1>5, Unreferring, RefFields
<1>12. f[2].tables = Put(S, "collect_results", Table({"username"}, {}, {Ref("equipement_id",
                     "equipements")}, {}))
  BY <1>11, <1>5, Removing, RefFields
<1>13. Sets(33, 32, "collect_results")
  BY OldNames DEF Sets, Names, Version, Monkeys
<1>14. QED
  BY <1>12, <1>4, <1>6, <1>7, <1>13, StagePut DEF S

\* The type of the scans of Monkey365.
Monkeyed(d) == "monkey365scanstatus" \in DOMAIN d.types

\* The table of the scans of Monkey365 was there before its revision, which then does
\* nothing; when the revision had been undone its type still is, and refuses.
LEMMA Up7 ==
  ASSUME NEW d, IsDb(d), NEW lost, lost \in Losses(6), d.tables = Stage(6, lost), Monkeyed(d),
         UpOne(7, d).ok
  PROVE  UpOne(7, d).tables = Stage(7, {}) /\ UpOne(7, d).types = d.types
<1>1. Monkeys \in Names(6) /\ Names(7) = Names(6) /\ lost \in {{}, {Monkeys}}
  BY OldNames DEF Names, Monkeys, Losses
<1>2. CASE lost = {}
  <2>1. HasTable(d, "monkey365_scan_results")
    BY <1>1, <1>2 DEF HasTable, Stage, Monkeys
  <2>2. Revision(7, d).up = <<>>
    BY <2>1 DEF Revision, AddMonkey365ScanResults, Unless
  <2>3. UpOne(7, d) = d
    BY <2>2, NoOperation DEF UpOne
  <2>4. \A u : Version(u, 7) = Version(u, 6)
    BY DEF Version, Monkeys
  <2>5. QED
    BY <1>1, <1>2, <2>3, <2>4 DEF Stage
<1>3. CASE lost = {Monkeys}
  <2>1. ~HasTable(d, "monkey365_scan_results")
    BY <1>1, <1>3 DEF HasTable, Stage, Monkeys
  <2>2. PICK o1, o2 : /\ o1 = CreateType("monkey365scanstatus", {"running", "success", "failed"})
                      /\ Revision(7, d).up = <<o1, o2>>
    BY <2>1 DEF Revision, AddMonkey365ScanResults, Unless
  <2>3. PICK f : UpRun(7, d, <<o1, o2>>, f)
    BY <2>2, UpRuns
  <2>4. f[0] = d /\ Goes(f[0], o1, f[1])
    BY <2>3 DEF UpRun
  <2>5. Possible(d, o1)
    BY <2>4 DEF Goes
  <2>6. o1.op = "create type" /\ o1.n = "monkey365scanstatus"
    BY <2>2 DEF CreateType
  <2>7. QED
    BY <2>5, <2>6 DEF Possible, Monkeyed
<1>4. QED
  BY <1>1, <1>2, <1>3

\* Revision merge_heads_001: from stage 19 to 20.
LEMMA Up20 ==
  ASSUME NEW d, IsDb(d), d.tables = Stage(19, {}), UpOne(20, d).ok
  PROVE  UpOne(20, d).tables = Stage(20, {}) /\ UpOne(20, d).types = d.types
<1>1. Revision(20, d).up = <<>>
  BY DEF Revision, MergeHeads
<1>2. UpOne(20, d) = d
  BY <1>1, NoOperation DEF UpOne
<1>3. Names(20) = Names(19) /\ \A u : Version(u, 20) = Version(u, 19)
  BY DEF Names, Version, Monkeys
<1>4. QED
  BY <1>2, <1>3 DEF Stage

\* Revision merge_heads_001 undone: back to stage 19.
LEMMA Down20 ==
  ASSUME NEW d, IsDb(d), d.tables = Stage(20, {}), DownOne(20, d).ok
  PROVE  DownOne(20, d).tables = Stage(19, {}) /\ DownOne(20, d).types = d.types
<1>1. Revision(20, d).down = <<>>
  BY DEF Revision, MergeHeads
<1>2. DownOne(20, d) = d
  BY <1>1, NoOperation DEF DownOne
<1>3. Names(20) = Names(19) /\ \A u : Version(u, 20) = Version(u, 19)
  BY DEF Names, Version, Monkeys
<1>4. QED
  BY <1>2, <1>3 DEF Stage

\* The first k fields of an intervention.
Fields(k) == {InterventionFields[j] : j \in 1 .. k}

\* The twelve fields are different columns of audits.
LEMMA FieldsAre ==
  /\ Len(InterventionFields) = 12 /\ DOMAIN InterventionFields = 1 .. 12
  /\ Fields(12) = Audit.opt
  /\ \A j, k \in 1 .. 12 : InterventionFields[j] = InterventionFields[k] => j = k
  /\ \A j \in 1 .. 12 : InterventionFields[j] # "owner_id"
       /\ InterventionFields[j] # "entreprise_id"
<1>1. Len(InterventionFields) = 12 /\ DOMAIN InterventionFields = 1 .. 12
  BY DEF InterventionFields
<1>2. Fields(12) = Audit.opt
  <2>1. 1 .. 12 = {1, 2, 3, 4, 5, 6, 7, 8, 9, 10, 11, 12}
    OBVIOUS
  <2>2. QED
    BY <2>1 DEF Fields, InterventionFields, Audit, Table
<1>3. \A j, k \in 1 .. 12 : InterventionFields[j] = InterventionFields[k] => j = k
  BY DEF InterventionFields
<1>4. \A j \in 1 .. 12 : InterventionFields[j] # "owner_id"
        /\ InterventionFields[j] # "entreprise_id"
  BY DEF InterventionFields
<1>5. QED
  BY <1>1, <1>2, <1>3, <1>4

\* The audits with the first k fields.
Fielded(k) ==
  Table({"owner_id"}, Fields(k), {Ref("entreprise_id", "entreprises"),
    Ref("owner_id", "users")}, {})

\* audits before and after the revision of the fields.
LEMMA FieldedAre ==
  /\ Version("audits", 26) = Fielded(0) /\ Version("audits", 27) = Fielded(12)
  /\ Sets(26, 27, "audits") /\ Sets(27, 26, "audits") /\ "audits" \in Names(26) \cap Names(27)
<1>1. Fields(0) = {}
  BY DEF Fields
<1>2. Version("audits", 27) = Fielded(12)
  <2>1. Version("audits", 27)
          = Table({"owner_id"}, AuditFields,
                  {Ref("entreprise_id", "entreprises"), Ref("owner_id", "users")}, {})
    BY VersionsOfAudits
  <2>2. AuditFields = Fields(12)
    BY FieldsAre DEF AuditFields, Audit, Table
  <2>3. QED
    BY <2>1, <2>2 DEF Fielded
<1>3. Version("audits", 26) = Fielded(0)
  BY <1>1, VersionsOfAudits DEF Fielded
<1>4. Sets(26, 27, "audits") /\ "audits" \in Names(26)
  BY OldNames DEF Sets, Names, Version, Monkeys
<1>5. QED
  BY <1>2, <1>3, <1>4, SetsDrops DEF Sets

\* Revision fee3cc8b8c35: from stage 26 to 27.
LEMMA Up27 ==
  ASSUME NEW d, IsDb(d), d.tables = Stage(26, {}), UpOne(27, d).ok
  PROVE  UpOne(27, d).tables = Stage(27, {}) /\ UpOne(27, d).types = d.types
<1> DEFINE ops == Revision(27, d).up
           S == Stage(26, {})
<1>1. ops = [i \in 1 .. 12 |-> AddColumn("audits", InterventionFields[i])]
  BY FieldsAre DEF Revision, AddAuditInterventionFields
<1>2. Len(ops) = 12 /\ \A k \in 1 .. 12 : ops[k] = AddColumn("audits", InterventionFields[k])
  BY <1>1
<1> HIDE DEF ops
<1>3. \A k \in 1 .. Len(ops) : Harmless(ops[k])
  BY <1>2, HarmlessOps
<1>4. PICK f : UpRun(27, d, ops, f)
  <2>1. Revision(27, d).up = ops /\ Len(ops) \in Nat
    BY <1>2 DEF ops
  <2>2. QED
    BY <2>1, UpRuns
<1>5. /\ f[0] = d /\ f[12] = UpOne(27, d)
      /\ \A k \in 1 .. 12 : Goes(f[k - 1], AddColumn("audits", InterventionFields[k]), f[k])
  BY <1>2, <1>4 DEF UpRun
<1>6. UpOne(27, d).types = d.types
  <2>1. Revision(27, d).up = ops /\ Len(ops) \in Nat
    BY <1>2 DEF ops
  <2>2. QED
    BY <1>3, <2>1, UpTypes
<1>7. f[0].tables = Put(S, "audits", Fielded(0))
  <2>1. IsFun(S) /\ "audits" \in DOMAIN S /\ S["audits"] = Fielded(0)
    BY FieldedAre DEF Stage, IsFun
  <2>2. QED
    BY <1>5, <2>1, PutSelf DEF Fielded
<1> DEFINE good == {k \in 0 .. 12 : f[k].tables = Put(S, "audits", Fielded(k))}
<1>8. ASSUME NEW k \in 1 .. 12, k - 1 \in good
      PROVE  k \in good
  <2> DEFINE c == InterventionFields[k]
  <2>1. Goes(f[k - 1], AddColumn("audits", c), f[k])
    BY <1>5
  <2>2. f[k - 1].tables = Put(S, "audits", Fielded(k - 1))
    BY <1>8
  <2>3. Fields(k) = Fields(k - 1) \cup {c}
    <3>1. 1 .. k = (1 .. (k - 1)) \cup {k}
      OBVIOUS
    <3>2. QED
      BY <3>1 DEF Fields
  <2> HIDE DEF c, S
  <2>4. f[k].tables = Put(S, "audits", Fielded(k))
    BY <2>1, <2>2, <2>3, Adding DEF Fielded
  <2>5. QED
    BY <2>4 DEF S
<1> HIDE DEF S
<1>9. 0 \in good
  BY <1>7
<1> HIDE DEF good
<1>10. \A k \in 0 .. 12 : k \in good
  BY <1>8, <1>9, IntervalInduction
<1>11. f[12].tables = Put(S, "audits", Version("audits", 27))
  BY <1>10, FieldedAre DEF good
<1>12. f[12].tables = Stage(27, {})
  BY <1>11, FieldedAre, StagePut DEF S
<1>13. QED
  BY <1>5, <1>6, <1>12

\* Revision fee3cc8b8c35 undone: back to stage 26.
LEMMA Down27 ==
  ASSUME NEW d, IsDb(d), d.tables = Stage(27, {}), DownOne(27, d).ok
  PROVE  DownOne(27, d).tables = Stage(26, {}) /\ DownOne(27, d).types = d.types
<1> DEFINE ops == Revision(27, d).down
           S == Stage(27, {})
           F(k) == InterventionFields[13 - k]
<1>1. ops = Reverse([i \in 1 .. 12 |-> DropColumn("audits", InterventionFields[i])])
  BY FieldsAre DEF Revision, AddAuditInterventionFields
<1>2. Len(ops) = 12 /\ \A k \in 1 .. 12 : ops[k] = DropColumn("audits", F(k))
  BY <1>1 DEF Reverse
<1> HIDE DEF ops
<1>3. \A k \in 1 .. Len(ops) : Harmless(ops[k])
  BY <1>2, HarmlessOps
<1>4. PICK f : DownRun(27, d, ops, f)
  BY <1>2, DownRuns DEF ops
<1>5. /\ f[0] = d /\ f[12] = DownOne(27, d)
      /\ \A k \in 1 .. 12 : Goes(f[k - 1], DropColumn("audits", F(k)), f[k])
  BY <1>2, <1>4 DEF DownRun
<1>6. DownOne(27, d).types = d.types
  <2>1. Revision(27, d).down = ops /\ Len(ops) \in Nat
    BY <1>2 DEF ops
  <2>2. QED
    BY <1>3, <2>1, DownTypes
<1>7. f[0].tables = Put(S, "audits", Fielded(12))
  <2>1. IsFun(S) /\ "audits" \in DOMAIN S /\ S["audits"] = Fielded(12)
    BY FieldedAre DEF Stage, IsFun
  <2>2. QED
    BY <1>5, <2>1, PutSelf DEF Fielded
<1> DEFINE good == {k \in 0 .. 12 : f[k].tables = Put(S, "audits", Fielded(12 - k))}
<1>8. ASSUME NEW k \in 1 .. 12, k - 1 \in good
      PROVE  k \in good
  <2> DEFINE c == F(k)
             r == {Ref("entreprise_id", "entreprises"), Ref("owner_id", "users")}
  <2>1. Goes(f[k - 1], DropColumn("audits", c), f[k])
    BY <1>5
  <2>2. f[k - 1].tables = Put(S, "audits", Fielded(13 - k))
    <3>1. 12 - (k - 1) = 13 - k
      OBVIOUS
    <3>2. QED
      BY <1>8, <3>1
  <2>3. Fields(13 - k) \ {c} = Fields(12 - k)
    <3>1. 1 .. (13 - k) = (1 .. (12 - k)) \cup {13 - k} /\ 13 - k \in 1 .. 12
      OBVIOUS
    <3>2. \A j \in 1 .. (12 - k) : InterventionFields[j] # c
      BY <3>1, FieldsAre
    <3>3. QED
      BY <3>1, <3>2 DEF Fields
  <2>4. {x \in r : x[1] \notin {c}} = r /\ {"owner_id"} \ {c} = {"owner_id"}
    <3>1. 13 - k \in 1 .. 12
      OBVIOUS
    <3>2. c # "owner_id" /\ c # "entreprise_id"
      BY <3>1, FieldsAre
    <3> HIDE DEF c
    <3>3. QED
      BY <3>2, RefFields
  <2>5. \E z : z = {x \in {} : x \cap {c} = {}} /\ z = {}
    OBVIOUS
  <2> HIDE DEF c, S, r
  <2>6. f[k - 1].tables = Put(S, "audits", Table({"owner_id"}, Fields(13 - k), r, {}))
    BY <2>2 DEF Fielded, r
  <2>7. f[k].tables = Put(S, "audits", Table({"owner_id"} \ {c}, Fields(13 - k) \ {c},
                                             {x \in r : x[1] \notin {c}},
                                             {x \in {} : x \cap {c} = {}}))
    BY <2>1, <2>6, Removing
  <2>8. f[k].tables = Put(S, "audits", Table({"owner_id"}, Fields(12 - k), r, {}))
    BY <2>3, <2>4, <2>5, <2>7
  <2>9. f[k].tables = Put(S, "audits", Fielded(12 - k))
    BY <2>8 DEF Fielded, r
  <2>10. QED
    BY <2>9 DEF S
<1> HIDE DEF S
<1>9. 0 \in good
  BY <1>7
<1> HIDE DEF good
<1>10. \A k \in 0 .. 12 : k \in good
  BY <1>8, <1>9, IntervalInduction
<1>11. f[12].tables = Put(S, "audits", Version("audits", 26))
  BY <1>10, FieldedAre DEF good
<1>12. f[12].tables = Stage(26, {})
  BY <1>11, FieldedAre, StagePut DEF S
<1>13. QED
  BY <1>5, <1>6, <1>12

\* Five revisions cannot be undone: they would cast text to JSON, give a boolean an integer
\* by default, or raise.
Refuses(ops) ==
  Len(ops) \in Nat /\ \E k \in 1 .. Len(ops) : ops[k].op \in {"raise", "to json", "add boolean 0"}

\* A downgrade with an operation that is always refused fails.
LEMMA Irreversible ==
  ASSUME NEW i, NEW d, IsDb(d), Refuses(Revision(i, d).down)
  PROVE  ~DownOne(i, d).ok
<1> SUFFICES ASSUME DownOne(i, d).ok PROVE FALSE
  OBVIOUS
<1>1. PICK ops : ops = Revision(i, d).down
  OBVIOUS
<1>2. PICK k \in 1 .. Len(ops) : ops[k].op \in {"raise", "to json", "add boolean 0"}
  BY <1>1 DEF Refuses
<1>3. PICK f : DownRun(i, d, ops, f)
  BY <1>1, DownRuns DEF Refuses
<1>4. Possible(f[k - 1], ops[k])
  BY <1>3 DEF DownRun, Goes
<1>5. QED
  BY <1>2, <1>4 DEF Possible

\* Where that operation is.
LEMMA RefusesAt ==
  ASSUME NEW ops, Len(ops) \in Nat, NEW k \in 1 .. Len(ops), NEW o, ops[k] = o,
         o = Raise \/ \E t, c : o = ToJson(t, c) \/ o = AddBooleanZero(t, c)
  PROVE  Refuses(ops)
<1>1. o.op \in {"raise", "to json", "add boolean 0"}
  <2>1. Raise.op = "raise"
    BY DEF Raise
  <2>2. \A t, c : ToJson(t, c).op = "to json" /\ AddBooleanZero(t, c).op = "add boolean 0"
    BY DEF ToJson, AddBooleanZero
  <2>3. QED
    BY <2>1, <2>2
<1>2. QED
  BY <1>1 DEF Refuses

\* The five: three encrypt columns, one drops the scans, one columns of the Monkey365 scans.
LEMMA Refused ==
  ASSUME NEW i \in {9, 11, 16, 19, 32}, NEW d, IsDb(d)
  PROVE  ~DownOne(i, d).ok
<1>1. Refuses(Revision(11, d).down)
  <2>1. PICK ops : ops = Revision(11, d).down
    OBVIOUS
  <2>2. Len(ops) = 12 /\ ops[1] = ToJson("ad_audit_results", "findings")
    BY <2>1 DEF Revision, AddOwnerIdAndEncryption, Disowned
  <2>3. QED
    BY <2>1, <2>2, RefusesAt
<1>2. Refuses(Revision(16, d).down)
  <2>1. PICK ops : ops = Revision(16, d).down
    OBVIOUS
  <2>2. Len(ops) = 1 /\ ops[1] = ToJson("oradad_configs", "explicit_domains")
    BY <2>1 DEF Revision, EncryptOradadDomains
  <2>3. QED
    BY <2>1, <2>2, RefusesAt
<1>3. Refuses(Revision(19, d).down)
  <2>1. PICK ops : ops = Revision(19, d).down
    OBVIOUS
  <2>2. Len(ops) = 4 /\ ops[2] = ToJson("ad_audit_results", "dc_list")
    BY <2>1 DEF Revision, EncryptSensitiveJson
  <2>3. QED
    BY <2>1, <2>2, RefusesAt
<1>4. Refuses(Revision(32, d).down)
  <2>1. PICK ops : ops = Revision(32, d).down
    OBVIOUS
  <2>2. Len(ops) = 1 /\ ops[1] = Raise
    BY <2>1 DEF Revision, DropScanTables
  <2> DEFINE o == Raise
  <2>3. ops[1] = o /\ 1 \in 1 .. Len(ops)
    BY <2>2
  <2>4. QED
    BY <2>1, <2>2, <2>3, RefusesAt
<1>5. Refuses(Revision(9, d).down)
  <2>1. PICK ops : ops = Revision(9, d).down
    OBVIOUS
  <2>2. Len(ops) = 4 /\ ops[2] = AddBooleanZero("monkey365_scan_results", "force_msal_desktop")
    BY <2>1 DEF Revision, RemoveArchivePath
  <2>3. QED
    BY <2>1, <2>2, RefusesAt
<1>6. QED
  BY <1>1, <1>2, <1>3, <1>4, <1>5, Irreversible

-----------------------------------------------------------------------------
\* Every revision, one up and one down.

UpLost(i, lost)   == IF i = 7 THEN {} ELSE lost
DownLost(i, lost) == IF i = 7 THEN {Monkeys} ELSE lost

\* One revision up, whichever it is: from its tables to the next.
LEMMA UpTables ==
  ASSUME NEW i \in 1 .. 34, NEW d, IsDb(d), Monkeyed(d), UpOne(i, d).ok,
         NEW lost \in Losses(i - 1), d.tables = Stage(i - 1, lost)
  PROVE  /\ UpOne(i, d).tables = Stage(i, UpLost(i, lost)) /\ UpLost(i, lost) \in Losses(i)
         /\ i \notin {28, 30} => UpOne(i, d).types = d.types
         /\ i = 28 => \E ls : UpOne(i, d).types = Put(d.types, "findingstatus", ls)
         /\ i = 30 => PipelinesTyped(d.types, UpOne(i, d).types)
<1>1. /\ UpLost(i, lost) \in Losses(i)
      /\ i # 7 => UpLost(i, lost) = lost
      /\ i = 7 => UpLost(i, lost) = {}
      /\ i \notin 1 .. 7 => lost = {}
  BY DEF Losses, UpLost
<1>2. CASE i = 1
  BY <1>1, <1>2, Up1
<1>3. CASE i = 2
  BY <1>1, <1>3, Up2
<1>4. CASE i = 3
  BY <1>1, <1>4, Up3
<1>5. CASE i = 4
  BY <1>1, <1>5, Up4
<1>6. CASE i = 5
  BY <1>1, <1>6, Up5
<1>7. CASE i = 6
  BY <1>1, <1>7, Up6
<1>8. CASE i = 7
  BY <1>1, <1>8, Up7
<1>9. CASE i = 8
  BY <1>1, <1>9, Up8
<1>10. CASE i = 9
  BY <1>1, <1>10, Up9
<1>11. CASE i = 10
  BY <1>1, <1>11, Up10
<1>12. CASE i = 11
  BY <1>1, <1>12, Up11
<1>13. CASE i = 12
  BY <1>1, <1>13, Up12
<1>14. CASE i = 13
  BY <1>1, <1>14, Up13
<1>15. CASE i = 14
  BY <1>1, <1>15, Up14
<1>16. CASE i = 15
  BY <1>1, <1>16, Up15
<1>17. CASE i = 16
  BY <1>1, <1>17, Up16
<1>18. CASE i = 17
  BY <1>1, <1>18, Up17
<1>19. CASE i = 18
  BY <1>1, <1>19, Up18
<1>20. CASE i = 19
  BY <1>1, <1>20, Up19
<1>21. CASE i = 20
  BY <1>1, <1>21, Up20
<1>22. CASE i = 21
  BY <1>1, <1>22, Up21
<1>23. CASE i = 22
  BY <1>1, <1>23, Up22
<1>24. CASE i = 23
  BY <1>1, <1>24, Up23
<1>25. CASE i = 24
  BY <1>1, <1>25, Up24
<1>26. CASE i = 25
  BY <1>1, <1>26, Up25
<1>27. CASE i = 26
  BY <1>1, <1>27, Up26
<1>28. CASE i = 27
  BY <1>1, <1>28, Up27
<1>29. CASE i = 28
  BY <1>1, <1>29, Up28
<1>30. CASE i = 29
  BY <1>1, <1>30, Up29
<1>31. CASE i = 30
  BY <1>1, <1>31, Up30
<1>32. CASE i = 31
  BY <1>1, <1>32, Up31
<1>33. CASE i = 32
  BY <1>1, <1>33, Up32
<1>34. CASE i = 33
  BY <1>1, <1>34, Up33
<1>35. CASE i = 34
  BY <1>1, <1>35, Up34
<1>36. QED
  BY <1>2, <1>3, <1>4, <1>5, <1>6, <1>7, <1>8, <1>9, <1>10, <1>11, <1>12, <1>13,
     <1>14, <1>15, <1>16, <1>17, <1>18, <1>19, <1>20, <1>21, <1>22, <1>23, <1>24,
     <1>25, <1>26, <1>27, <1>28, <1>29, <1>30, <1>31, <1>32, <1>33, <1>34, <1>35

\* One revision down, where it can be undone: back to the tables before.
LEMMA DownTables ==
  ASSUME NEW i \in 1 .. 34, NEW d, IsDb(d), DownOne(i, d).ok,
         NEW lost \in Losses(i), d.tables = Stage(i, lost)
  PROVE  /\ DownOne(i, d).tables = Stage(i - 1, DownLost(i, lost))
         /\ DownLost(i, lost) \in Losses(i - 1)
         /\ i # 30 => DownOne(i, d).types = d.types
         /\ i = 30 => DownOne(i, d).types
                       = Cut(Cut(d.types, "pipelinestatus"), "pipelinestepstatus")
<1>1. /\ DownLost(i, lost) \in Losses(i - 1)
      /\ i # 7 => DownLost(i, lost) = lost
      /\ i = 7 => DownLost(i, lost) = {Monkeys}
      /\ i \notin 1 .. 6 => lost = {}
  BY DEF Losses, DownLost
<1>2. CASE i = 1
  BY <1>1, <1>2, Down1
<1>3. CASE i = 2
  BY <1>1, <1>3, Down2
<1>4. CASE i = 3
  BY <1>1, <1>4, Down3
<1>5. CASE i = 4
  BY <1>1, <1>5, Down4
<1>6. CASE i = 5
  BY <1>1, <1>6, Down5
<1>7. CASE i = 6
  BY <1>1, <1>7, Down6
<1>8. CASE i = 7
  BY <1>1, <1>8, Down7
<1>9. CASE i = 8
  BY <1>1, <1>9, Down8
<1>10. CASE i = 10
  BY <1>1, <1>10, Down10
<1>11. CASE i = 12
  BY <1>1, <1>11, Down12
<1>12. CASE i = 13
  BY <1>1, <1>12, Down13
<1>13. CASE i = 14
  BY <1>1, <1>13, Down14
<1>14. CASE i = 15
  BY <1>1, <1>14, Down15
<1>15. CASE i = 17
  BY <1>1, <1>15, Down17
<1>16. CASE i = 18
  BY <1>1, <1>16, Down18
<1>17. CASE i = 20
  BY <1>1, <1>17, Down20
<1>18. CASE i = 21
  BY <1>1, <1>18, Down21
<1>19. CASE i = 22
  BY <1>1, <1>19, Down22
<1>20. CASE i = 23
  BY <1>1, <1>20, Down23
<1>21. CASE i = 24
  BY <1>1, <1>21, Down24
<1>22. CASE i = 25
  BY <1>1, <1>22, Down25
<1>23. CASE i = 26
  BY <1>1, <1>23, Down26
<1>24. CASE i = 27
  BY <1>1, <1>24, Down27
<1>25. CASE i = 28
  BY <1>1, <1>25, Down28
<1>26. CASE i = 29
  BY <1>1, <1>26, Down29
<1>27. CASE i = 30
  BY <1>1, <1>27, Down30
<1>28. CASE i = 31
  BY <1>1, <1>28, Down31
<1>29. CASE i = 33
  BY <1>1, <1>29, Down33
<1>30. CASE i = 34
  BY <1>1, <1>30, Down34
<1>31. CASE i \in {9, 11, 16, 19, 32}
  BY <1>31, Refused
<1>32. QED
  BY <1>2, <1>3, <1>4, <1>5, <1>6, <1>7, <1>8, <1>9, <1>10, <1>11, <1>12, <1>13,
     <1>14, <1>15, <1>16, <1>17, <1>18, <1>19, <1>20, <1>21, <1>22, <1>23, <1>24,
     <1>25, <1>26, <1>27, <1>28, <1>29, <1>30, <1>31

-----------------------------------------------------------------------------
\* The types.

\* A type with the labels of the models.
Labelled(types, n) == n \in DOMAIN types /\ types[n] = ModelTypes[n]

\* The types after i revisions of the tables found at the first start: the labels are those of
\* the models, but for the status of a finding.
Typed(i, d) ==
  /\ IsFun(d.types) /\ Labelled(d.types, "monkey365scanstatus")
  /\ i > 27 => "findingstatus" \in DOMAIN d.types
  /\ i > 29 => Labelled(d.types, "pipelinestatus") /\ Labelled(d.types, "pipelinestepstatus")

\* They stay after a revision that is about no type,
LEMMA TypedSame ==
  ASSUME NEW i, NEW j, NEW d, NEW e, Typed(i, d), e.types = d.types, j > 27 => i > 27, j > 29 => i > 29
  PROVE  Typed(j, e)
BY DEF Typed

\* after the one that creates that of the findings,
LEMMA TypedFindings ==
  ASSUME NEW d, NEW e, Typed(27, d), NEW ls, e.types = Put(d.types, "findingstatus", ls)
  PROVE  Typed(28, e)
BY DEF Typed, Labelled, Put, IsFun

\* after the one that creates those of the pipelines,
LEMMA TypedPipelines ==
  ASSUME NEW d, NEW e, Typed(29, d), PipelinesTyped(d.types, e.types)
  PROVE  Typed(30, e)
<1>1. PICK y : y = Put(d.types, "pipelinestatus", PipelineStatus)
  OBVIOUS
<1>2. e.types = Put(y, "pipelinestepstatus", PipelineStepStatus)
  BY <1>1 DEF PipelinesTyped
<1>3. /\ Labelled(y, "monkey365scanstatus") /\ "findingstatus" \in DOMAIN y
      /\ Labelled(y, "pipelinestatus")
  BY <1>1 DEF Typed, Labelled, Put, ModelTypes
<1>4. QED
  BY <1>2, <1>3 DEF Typed, Labelled, Put, IsFun, ModelTypes

\* and after that one is undone,
LEMMA TypedFewer ==
  ASSUME NEW d, NEW e, Typed(30, d),
         e.types = Cut(Cut(d.types, "pipelinestatus"), "pipelinestepstatus")
  PROVE  Typed(29, e)
<1>1. PICK y : y = Cut(d.types, "pipelinestatus")
  OBVIOUS
<1>2. Labelled(y, "monkey365scanstatus") /\ "findingstatus" \in DOMAIN y
  BY <1>1 DEF Typed, Labelled, Cut
<1>3. QED
  BY <1>1, <1>2 DEF Typed, Labelled, Cut, IsFun

\* which leaves the types there were before it.
LEMMA PipelinesUndone ==
  ASSUME NEW before, NEW after, IsFun(before), PipelinesTyped(before, after)
  PROVE  Cut(Cut(after, "pipelinestatus"), "pipelinestepstatus") = before
<1>1. PICK p, q, y, z : p = "pipelinestatus" /\ q = "pipelinestepstatus"
                        /\ y = PipelineStatus /\ z = PipelineStepStatus
  OBVIOUS
<1>2. p \notin DOMAIN before /\ q \notin DOMAIN before /\ p # q
      /\ after = Put(Put(before, p, y), q, z)
  BY <1>1 DEF PipelinesTyped
<1>3. DOMAIN after = DOMAIN before \cup {p, q} /\ \A x \in DOMAIN before : after[x] = before[x]
  BY <1>2 DEF Put
<1>4. Cut(Cut(after, p), q) = [x \in DOMAIN before |-> before[x]]
  BY <1>2, <1>3 DEF Cut
<1>5. QED
  BY <1>1, <1>4 DEF IsFun

\* One revision up: from its stage to the next,
LEMMA UpStage ==
  ASSUME NEW i \in 1 .. 34, NEW d, IsDb(d), Typed(i - 1, d), UpOne(i, d).ok,
         NEW lost \in Losses(i - 1), d.tables = Stage(i - 1, lost)
  PROVE  /\ UpOne(i, d).tables = Stage(i, UpLost(i, lost))
         /\ Typed(i, UpOne(i, d)) /\ UpLost(i, lost) \in Losses(i)
<1>1. Monkeyed(d)
  BY DEF Typed, Labelled, Monkeyed
<1>2. /\ UpOne(i, d).tables = Stage(i, UpLost(i, lost)) /\ UpLost(i, lost) \in Losses(i)
      /\ i \notin {28, 30} => UpOne(i, d).types = d.types
      /\ i = 28 => \E ls : UpOne(i, d).types = Put(d.types, "findingstatus", ls)
      /\ i = 30 => PipelinesTyped(d.types, UpOne(i, d).types)
  BY <1>1, UpTables
<1>3. Typed(i, UpOne(i, d))
  <2>1. CASE i = 28
    BY <1>2, <2>1, TypedFindings
  <2>2. CASE i = 30
    BY <1>2, <2>2, TypedPipelines
  <2>3. CASE i \notin {28, 30}
    <3>1. (i > 27 => i - 1 > 27) /\ (i > 29 => i - 1 > 29)
      BY <2>3
    <3>2. QED
      BY <1>2, <2>3, <3>1, TypedSame
  <2>4. QED
    BY <2>1, <2>2, <2>3
<1>4. QED
  BY <1>2, <1>3

\* and one down: back to the stage before.
LEMMA DownStage ==
  ASSUME NEW i \in 1 .. 34, NEW d, IsDb(d), Typed(i, d), DownOne(i, d).ok,
         NEW lost \in Losses(i), d.tables = Stage(i, lost)
  PROVE  /\ DownOne(i, d).tables = Stage(i - 1, DownLost(i, lost))
         /\ Typed(i - 1, DownOne(i, d)) /\ DownLost(i, lost) \in Losses(i - 1)
<1>1. /\ DownOne(i, d).tables = Stage(i - 1, DownLost(i, lost))
      /\ DownLost(i, lost) \in Losses(i - 1)
      /\ i # 30 => DownOne(i, d).types = d.types
      /\ i = 30 => DownOne(i, d).types = Cut(Cut(d.types, "pipelinestatus"), "pipelinestepstatus")
  BY DownTables
<1>2. Typed(i - 1, DownOne(i, d))
  <2>1. CASE i = 30
    BY <1>1, <2>1, TypedFewer
  <2>2. CASE i # 30
    <3>1. (i - 1 > 27 => i > 27) /\ (i - 1 > 29 => i > 29)
      OBVIOUS
    <3>2. QED
      BY <1>1, <2>2, <3>1, TypedSame
  <2>3. QED
    BY <2>1, <2>2
<1>3. QED
  BY <1>1, <1>2

-----------------------------------------------------------------------------
\* Commands.

\* Every upgrade is a finite sequence of operations,
LEMMA UpLength ==
  ASSUME NEW i \in 1 .. 34, NEW d
  PROVE  Len(Revision(i, d).up) \in Nat
<1>1. CASE i = 1
  BY <1>1 DEF Revision, AddSourceAuthor, Unless
<1>2. CASE i = 2
  BY <1>2 DEF Revision, AddNetworkMapTables, Unless
<1>3. CASE i = 3
  BY <1>3 DEF Revision, DropNetworkLinkUnique
<1>4. CASE i = 4
  BY <1>4 DEF Revision, MigrateSwitchRouterAp
<1>5. CASE i = 5
  BY <1>5 DEF Revision, MovePortsStatus
<1>6. CASE i = 6
  BY <1>6 DEF Revision, AddVlanDefinitions, Creates
<1>7. CASE i = 7
  BY <1>7 DEF Revision, AddMonkey365ScanResults, Unless
<1>8. CASE i = 8
  BY <1>8 DEF Revision, AddMonkey365ArchivePath, Unless
<1>9. CASE i = 9
  BY <1>9 DEF Revision, RemoveArchivePath
<1>10. CASE i = 10
  BY <1>10 DEF Revision, CreateAgents
<1>11. CASE i = 11
  BY <1>11 DEF Revision, AddOwnerIdAndEncryption, Owned, Disowned
<1>12. CASE i = 12
  BY <1>12 DEF Revision, AddAnssiCheckpoints, Creates
<1>13. CASE i = 13
  BY <1>13 DEF Revision, AddAuthMethod, Adds
<1>14. CASE i = 14
  BY <1>14 DEF Revision, AddRevokedAt, Adds
<1>15. CASE i = 15
  BY <1>15 DEF Revision, AddOradadConfigs, Creates
<1>16. CASE i = 16
  BY <1>16 DEF Revision, EncryptOradadDomains
<1>17. CASE i = 17
  BY <1>17 DEF Revision, DropPingcastleResults
<1>18. CASE i = 18
  BY <1>18 DEF Revision, AddTaskArtifacts, Creates
<1>19. CASE i = 19
  BY <1>19 DEF Revision, EncryptSensitiveJson
<1>20. CASE i = 20
  BY <1>20 DEF Revision, MergeHeads
<1>21. CASE i = 21
  BY <1>21 DEF Revision, BackfillOwnerId
<1>22. CASE i = 22
  BY <1>22 DEF Revision, AddEntrepriseOwnerId, Disowned
<1>23. CASE i = 23
  BY <1>23 DEF Revision, ScanAdOwnerNotNull
<1>24. CASE i = 24
  BY <1>24 DEF Revision, CreateTagTables
<1>25. CASE i = 25
  BY <1>25 DEF Revision, CreateChecklistTables
<1>26. CASE i = 26
  BY <1>26 DEF Revision, CreateReportTables
<1>27. CASE i = 27
  BY <1>27, FieldsAre DEF Revision, AddAuditInterventionFields
<1>28. CASE i = 28
  BY <1>28 DEF Revision, AddFindingTables
<1>29. CASE i = 29
  BY <1>29 DEF Revision, AddCertExpiresAt, Adds
<1>30. CASE i = 30
  BY <1>30 DEF Revision, AddCollectPipeline
<1>31. CASE i = 31
  BY <1>31 DEF Revision, PipelineUsesAgentNmap
<1>32. CASE i = 32
  BY <1>32 DEF Revision, DropScanTables, Unless
<1>33. CASE i = 33
  BY <1>33 DEF Revision, CollectViaAgent
<1>34. CASE i = 34
  BY <1>34 DEF Revision, AddControlEffortDays, Adds
<1>35. QED
  BY <1>1, <1>2, <1>3, <1>4, <1>5, <1>6, <1>7, <1>8, <1>9, <1>10, <1>11, <1>12, <1>13,
     <1>14, <1>15, <1>16, <1>17, <1>18, <1>19, <1>20, <1>21, <1>22, <1>23, <1>24,
     <1>25, <1>26, <1>27, <1>28, <1>29, <1>30, <1>31, <1>32, <1>33, <1>34

\* and every downgrade.
LEMMA DownLength ==
  ASSUME NEW i \in 1 .. 34, NEW d
  PROVE  Len(Revision(i, d).down) \in Nat
<1>1. CASE i = 1
  BY <1>1 DEF Revision, AddSourceAuthor, Unless
<1>2. CASE i = 2
  BY <1>2 DEF Revision, AddNetworkMapTables, Unless
<1>3. CASE i = 3
  BY <1>3 DEF Revision, DropNetworkLinkUnique
<1>4. CASE i = 4
  BY <1>4 DEF Revision, MigrateSwitchRouterAp
<1>5. CASE i = 5
  BY <1>5 DEF Revision, MovePortsStatus
<1>6. CASE i = 6
  BY <1>6 DEF Revision, AddVlanDefinitions, Creates
<1>7. CASE i = 7
  BY <1>7 DEF Revision, AddMonkey365ScanResults, Unless
<1>8. CASE i = 8
  BY <1>8 DEF Revision, AddMonkey365ArchivePath, Unless
<1>9. CASE i = 9
  BY <1>9 DEF Revision, RemoveArchivePath
<1>10. CASE i = 10
  BY <1>10 DEF Revision, CreateAgents
<1>11. CASE i = 11
  BY <1>11 DEF Revision, AddOwnerIdAndEncryption, Owned, Disowned
<1>12. CASE i = 12
  BY <1>12 DEF Revision, AddAnssiCheckpoints, Creates
<1>13. CASE i = 13
  BY <1>13 DEF Revision, AddAuthMethod, Adds
<1>14. CASE i = 14
  BY <1>14 DEF Revision, AddRevokedAt, Adds
<1>15. CASE i = 15
  BY <1>15 DEF Revision, AddOradadConfigs, Creates
<1>16. CASE i = 16
  BY <1>16 DEF Revision, EncryptOradadDomains
<1>17. CASE i = 17
  BY <1>17 DEF Revision, DropPingcastleResults
<1>18. CASE i = 18
  BY <1>18 DEF Revision, AddTaskArtifacts, Creates
<1>19. CASE i = 19
  BY <1>19 DEF Revision, EncryptSensitiveJson
<1>20. CASE i = 20
  BY <1>20 DEF Revision, MergeHeads
<1>21. CASE i = 21
  BY <1>21 DEF Revision, BackfillOwnerId
<1>22. CASE i = 22
  BY <1>22 DEF Revision, AddEntrepriseOwnerId, Disowned
<1>23. CASE i = 23
  BY <1>23 DEF Revision, ScanAdOwnerNotNull
<1>24. CASE i = 24
  BY <1>24 DEF Revision, CreateTagTables
<1>25. CASE i = 25
  BY <1>25 DEF Revision, CreateChecklistTables
<1>26. CASE i = 26
  BY <1>26 DEF Revision, CreateReportTables
<1>27. CASE i = 27
  BY <1>27, FieldsAre DEF Revision, AddAuditInterventionFields, Reverse
<1>28. CASE i = 28
  BY <1>28 DEF Revision, AddFindingTables
<1>29. CASE i = 29
  BY <1>29 DEF Revision, AddCertExpiresAt, Adds
<1>30. CASE i = 30
  BY <1>30 DEF Revision, AddCollectPipeline
<1>31. CASE i = 31
  BY <1>31 DEF Revision, PipelineUsesAgentNmap
<1>32. CASE i = 32
  BY <1>32 DEF Revision, DropScanTables, Unless
<1>33. CASE i = 33
  BY <1>33 DEF Revision, CollectViaAgent
<1>34. CASE i = 34
  BY <1>34 DEF Revision, AddControlEffortDays, Adds
<1>35. QED
  BY <1>1, <1>2, <1>3, <1>4, <1>5, <1>6, <1>7, <1>8, <1>9, <1>10, <1>11, <1>12, <1>13,
     <1>14, <1>15, <1>16, <1>17, <1>18, <1>19, <1>20, <1>21, <1>22, <1>23, <1>24,
     <1>25, <1>26, <1>27, <1>28, <1>29, <1>30, <1>31, <1>32, <1>33, <1>34

\* alembic upgrade head is its revisions, one after the other.
LEMMA HeadSteps ==
  ASSUME NEW from \in 0 .. 34, NEW d
  PROVE  \E f : /\ f[from] = d
                /\ \A i \in (from + 1) .. 34 : f[i] = Revised(i, f[i - 1])
                /\ UpToHead(from, d) = f[34]
<1> DEFINE n == 34 - from
           Body(g, i) == [j \in from .. (from + i) |-> IF j = from THEN d ELSE Revised(j, g[j - 1])]
           good == {i \in 0 .. n : \E g : g = Body(g, i)}
<1>1. 0 \in good
  <2>1. [j \in from .. (from + 0) |-> d] = Body([j \in from .. (from + 0) |-> d], 0)
    OBVIOUS
  <2>2. \E g : g = Body(g, 0)
    <3> HIDE DEF Body
    <3> QED
      BY <2>1
  <2>3. QED
    BY <2>2
<1>2. ASSUME NEW i \in 1 .. n, i - 1 \in good
      PROVE  i \in good
  <2>1. PICK g : g = Body(g, i - 1)
    BY <1>2
  <2> DEFINE m == from + i
             h == [j \in from .. m |-> IF j = m THEN Revised(m, g[m - 1]) ELSE g[j]]
  <2>2. \A j \in from .. (m - 1) :
          h[j] = g[j] /\ g[j] = IF j = from THEN d ELSE Revised(j, g[j - 1])
    BY <2>1
  <2>3. h[m] = Revised(m, h[m - 1])
    BY <2>2
  <2>4. ASSUME NEW j \in from .. m
        PROVE  h[j] = IF j = from THEN d ELSE Revised(j, h[j - 1])
    <3>1. CASE j = m
      BY <2>3, <3>1
    <3>2. CASE j # m
      <4>1. j \in from .. (m - 1) /\ (j # from => j - 1 \in from .. (m - 1))
        BY <3>2
      <4> HIDE DEF h, m
      <4>2. QED
        BY <2>2, <4>1
    <3>3. QED
      BY <3>1, <3>2
  <2>5. h = Body(h, i)
    BY <2>4
  <2>6. \E f : f = Body(f, i)
    <3> HIDE DEF Body, h
    <3> QED
      BY <2>5
  <2>7. QED
    BY <2>6
<1>3. PICK g : g = Body(g, n)
  <2>1. n \in Nat /\ n \in 0 .. n
    OBVIOUS
  <2> HIDE DEF good, n
  <2>2. \A i \in 0 .. n : i \in good
    BY <1>1, <1>2, <2>1, IntervalInduction
  <2>3. QED
    BY <2>1, <2>2 DEF good
<1> DEFINE f == CHOOSE b : b = [j \in from .. 34 |-> IF j = from THEN d ELSE Revised(j, b[j - 1])]
<1>4. f = [j \in from .. 34 |-> IF j = from THEN d ELSE Revised(j, f[j - 1])]
  <2>1. from + n = 34
    OBVIOUS
  <2>2. g = [j \in from .. 34 |-> IF j = from THEN d ELSE Revised(j, g[j - 1])]
    BY <1>3, <2>1
  <2>3. QED
    BY <2>2
<1>5. UpToHead(from, d) = f[34]
  <2>1. Newest = 34
    BY DEF Newest, History
  <2>2. QED
    BY <2>1 DEF UpToHead
<1>6. /\ f[from] = d
      /\ \A i \in (from + 1) .. 34 : f[i] = Revised(i, f[i - 1])
  <2> HIDE DEF f
  <2> QED
    BY <1>4
<1>7. QED
  <2> HIDE DEF f
  <2> QED
    BY <1>5, <1>6

\* It undoes nothing and goes no further than a revision that failed.
LEMMA HeadFails ==
  ASSUME NEW from \in 0 .. 34, NEW d, NEW f, f[from] = d,
         \A i \in (from + 1) .. 34 : f[i] = Revised(i, f[i - 1]),
         NEW k \in from .. 34, ~f[k].ok
  PROVE  ~f[34].ok
<1> DEFINE n == 34 - k
           bad == {i \in 0 .. n : ~f[k + i].ok}
<1>1. 0 \in bad
  OBVIOUS
<1>2. ASSUME NEW i \in 1 .. n, i - 1 \in bad
      PROVE  i \in bad
  <2>1. k + i \in (from + 1) .. 34 /\ (k + i) - 1 = k + (i - 1)
    OBVIOUS
  <2>2. f[k + i] = Revised(k + i, f[k + (i - 1)])
    BY <2>1
  <2>3. QED
    BY <1>2, <2>2 DEF Revised
<1>3. n \in Nat /\ n \in 0 .. n /\ k + n = 34
  OBVIOUS
<1> HIDE DEF bad, n
<1>4. n \in bad
  BY <1>1, <1>2, <1>3, IntervalInduction
<1>5. QED
  BY <1>3, <1>4 DEF bad

\* What a command leaves: a database of the same shape whose rows are in its tables.
LEMMA UpKeeps ==
  ASSUME NEW i \in 1 .. 34, NEW d, IsDb(d), Sane(d), UpOne(i, d).ok
  PROVE  IsDb(UpOne(i, d)) /\ Sane(UpOne(i, d)) /\ UpOne(i, d).users = d.users
<1> DEFINE ops == Revision(i, d).up
<1>1. Len(ops) \in Nat /\ UpOne(i, d) = Perform(d, ops)
  BY UpLength DEF UpOne
<1> HIDE DEF ops
<1>2. QED
  BY <1>1, PerformKeeps

\* The rows after one revision down.
LEMMA DownKeeps ==
  ASSUME NEW i \in 1 .. 34, NEW d, IsDb(d), Sane(d), DownOne(i, d).ok
  PROVE  IsDb(DownOne(i, d)) /\ Sane(DownOne(i, d)) /\ DownOne(i, d).users = d.users
<1> DEFINE ops == Revision(i, d).down
<1>1. Len(ops) \in Nat /\ DownOne(i, d) = Perform(d, ops)
  BY DownLength DEF DownOne
<1> HIDE DEF ops
<1>2. QED
  BY <1>1, PerformKeeps

\* The tables found at the first start, brought to the i-th revision.
Reached(i, d) == Typed(i, d) /\ \E lost \in Losses(i) : d.tables = Stage(i, lost)

\* alembic upgrade head reaches the last stage, if it goes through.
LEMMA HeadReached ==
  ASSUME NEW from \in 0 .. 34, NEW d, IsDb(d), Sane(d), Reached(from, d), UpToHead(from, d).ok
  PROVE  LET e == UpToHead(from, d)
         IN  IsDb(e) /\ Sane(e) /\ e.users = d.users /\ Reached(34, e)
<1>1. PICK f : /\ f[from] = d
               /\ \A i \in (from + 1) .. 34 : f[i] = Revised(i, f[i - 1])
               /\ UpToHead(from, d) = f[34]
  BY HeadSteps
<1>2. \A i \in from .. 34 : f[i].ok
  BY <1>1, HeadFails
<1> DEFINE Fine(i) == IsDb(f[i]) /\ Sane(f[i]) /\ f[i].users = d.users /\ Reached(i, f[i])
           n == 34 - from
           good == {i \in 0 .. n : Fine(from + i)}
<1>3. 0 \in good
  BY <1>1
<1>4. ASSUME NEW i \in 1 .. n, i - 1 \in good
      PROVE  i \in good
  <2> DEFINE k == from + i
  <2>1. k \in 1 .. 34 /\ k \in (from + 1) .. 34 /\ k \in from .. 34 /\ k - 1 = from + (i - 1)
    OBVIOUS
  <2>2. Fine(k - 1)
    BY <1>4, <2>1
  <2>3. f[k] = UpOne(k, f[k - 1]) /\ UpOne(k, f[k - 1]).ok
    <3> HIDE DEF k
    <3>1. f[k] = Revised(k, f[k - 1]) /\ f[k - 1].ok /\ f[k].ok
      <4>1. k - 1 \in from .. 34
        BY <2>1
      <4>2. QED
        BY <1>1, <1>2, <2>1, <4>1
    <3>2. QED
      BY <3>1 DEF Revised
  <2> HIDE DEF k, Fine
  <2>4. Reached(k, f[k])
    <3>1. PICK lost \in Losses(k - 1) : f[k - 1].tables = Stage(k - 1, lost)
      BY <2>2 DEF Fine, Reached
    <3>2. IsDb(f[k - 1]) /\ Typed(k - 1, f[k - 1])
      BY <2>2 DEF Fine, Reached
    <3>3. QED
      BY <2>1, <2>3, <3>1, <3>2, UpStage DEF Reached
  <2>5. Fine(k)
    BY <2>1, <2>2, <2>3, <2>4, UpKeeps DEF Fine
  <2>6. QED
    BY <2>5 DEF k
<1>5. n \in Nat /\ n \in 0 .. n /\ from + n = 34
  OBVIOUS
<1> HIDE DEF good, n
<1>6. n \in good
  BY <1>3, <1>4, <1>5, IntervalInduction
<1>7. Fine(34)
  BY <1>5, <1>6 DEF good
<1>8. QED
  BY <1>1, <1>7
\* From the last revision there is nothing to do, from the last but one there is one step.
LEMMA HeadLast ==
  ASSUME NEW d
  PROVE  /\ UpToHead(34, d) = d
         /\ d.ok => UpToHead(33, d) = UpOne(34, d)
<1>1. UpToHead(34, d) = d
  <2>1. PICK f : f[34] = d /\ UpToHead(34, d) = f[34]
    BY HeadSteps
  <2>2. QED
    BY <2>1
<1>2. ASSUME d.ok
      PROVE  UpToHead(33, d) = UpOne(34, d)
  <2>1. PICK f : /\ f[33] = d
                 /\ \A i \in 34 .. 34 : f[i] = Revised(i, f[i - 1])
                 /\ UpToHead(33, d) = f[34]
    BY HeadSteps
  <2>2. f[34] = Revised(34, d)
    BY <2>1
  <2>3. QED
    BY <1>2, <2>1, <2>2 DEF Revised
<1>3. QED
  BY <1>1, <1>2

\* The last two revisions move no row and no table.
Unmoved(d, e) == e.filled = d.filled /\ DOMAIN e.tables = DOMAIN d.tables

\* A column or a key more or less: no table and no row moves.
LEMMA AlteringUnmoved ==
  ASSUME NEW d, NEW o, NEW e, Goes(d, o, e), o.op \in {"add", "drop column", "add ref", "drop ref"}
  PROVE  Unmoved(d, e) /\ (o.op \in {"add", "drop column"} => e.names = d.names)
<1> DEFINE N == CASE o.op \in {"add ref", "add key"}   -> d.names \cup {o.n}
                  [] o.op \in {"drop ref", "drop key"} -> d.names \ {o.n}
                  [] OTHER                             -> d.names
           O == IF o.op = "add" /\ o.c = "owner_id" /\ o.t \in d.filled
                THEN d.ownerless \cup {o.t} ELSE d.ownerless
           T == [d.tables EXCEPT ![o.t] = Altered(@, o)]
<1>1. e = [d EXCEPT !.tables = T, !.names = N, !.ownerless = O]
  BY DEF Goes, Effect
<1>2. DOMAIN T = DOMAIN d.tables /\ (o.op \in {"add", "drop column"} => N = d.names)
  OBVIOUS
<1> HIDE DEF T, N, O
<1>3. e.filled = d.filled /\ e.tables = T /\ e.names = N
  BY <1>1 DEF Goes, IsDb
<1>4. QED
  BY <1>2, <1>3 DEF Unmoved

\* So with the last two revisions up,
LEMMA LateUp ==
  ASSUME NEW i \in {33, 34}, NEW d, IsDb(d), UpOne(i, d).ok
  PROVE  Unmoved(d, UpOne(i, d)) /\ (i = 34 => UpOne(i, d).names = d.names)
<1>1. CASE i = 33
  <2>1. PICK o1, o2 : /\ Revision(33, d).up = <<o1, o2>>
                      /\ o1.op = "add" /\ o2.op = "add ref"
    <3>1. \E t, c, u, r, n : Revision(33, d).up = <<AddColumn(t, c), AddRef(u, r, n)>>
      BY DEF Revision, CollectViaAgent
    <3>2. \A t, c, r, n : AddColumn(t, c).op = "add" /\ AddRef(t, r, n).op = "add ref"
      BY DEF AddColumn, AddRef
    <3>3. QED
      BY <3>1, <3>2
  <2>2. PICK f : UpRun(33, d, <<o1, o2>>, f)
    BY <1>1, <2>1, UpRuns
  <2>3. /\ f[0] = d /\ f[2] = UpOne(33, d)
        /\ Goes(f[0], o1, f[1]) /\ Goes(f[1], o2, f[2])
    BY <2>2 DEF UpRun
  <2>4. Unmoved(f[0], f[1]) /\ Unmoved(f[1], f[2])
    BY <2>1, <2>3, AlteringUnmoved
  <2>5. QED
    BY <1>1, <2>3, <2>4 DEF Unmoved
<1>2. CASE i = 34
  <2>1. PICK o : Revision(34, d).up = <<o>> /\ o.op = "add"
    BY DEF Revision, AddControlEffortDays, Adds, AddColumn
  <2>2. Goes(d, o, UpOne(34, d))
    BY <1>2, <2>1, OneOperation DEF UpOne
  <2>3. QED
    BY <1>2, <2>1, <2>2, AlteringUnmoved
<1>3. QED
  BY <1>1, <1>2

\* and down, the earlier of which needs a name to drop,
LEMMA LateDown ==
  ASSUME NEW i \in {33, 34}, NEW d, IsDb(d), DownOne(i, d).ok
  PROVE  /\ Unmoved(d, DownOne(i, d))
         /\ i = 34 => DownOne(i, d).names = d.names
         /\ i = 33 => d.names # {}
<1>1. CASE i = 33
  <2>1. PICK o1, o2 : /\ Revision(33, d).down = <<o1, o2>>
                      /\ o1.op = "drop ref" /\ o2.op = "drop column"
    <3>1. \E t, c, u, r, n : Revision(33, d).down = <<DropRef(u, r, n), DropColumn(t, c)>>
      BY DEF Revision, CollectViaAgent
    <3>2. \A t, c, r, n : DropColumn(t, c).op = "drop column" /\ DropRef(t, r, n).op = "drop ref"
      BY DEF DropColumn, DropRef
    <3>3. QED
      BY <3>1, <3>2
  <2>2. PICK f : DownRun(33, d, <<o1, o2>>, f)
    BY <1>1, <2>1, DownRuns
  <2>3. /\ f[0] = d /\ f[2] = DownOne(33, d)
        /\ Goes(f[0], o1, f[1]) /\ Goes(f[1], o2, f[2])
    BY <2>2 DEF DownRun
  <2>4. Unmoved(f[0], f[1]) /\ Unmoved(f[1], f[2])
    BY <2>1, <2>3, AlteringUnmoved
  <2>5. o1.n \in d.names
    BY <2>1, <2>3 DEF Goes, Possible
  <2>6. QED
    BY <1>1, <2>3, <2>4, <2>5 DEF Unmoved
<1>2. CASE i = 34
  <2>1. PICK o : Revision(34, d).down = <<o>> /\ o.op = "drop column"
    <3>1. \E t, c : Revision(34, d).down = <<DropColumn(t, c)>>
      BY DEF Revision, AddControlEffortDays, Adds
    <3>2. \A t, c : DropColumn(t, c).op = "drop column"
      BY DEF DropColumn
    <3>3. QED
      BY <3>1, <3>2
  <2>2. Goes(d, o, DownOne(34, d))
    BY <1>2, <2>1, OneOperation DEF DownOne
  <2>3. QED
    <3>1. Unmoved(d, DownOne(34, d)) /\ DownOne(34, d).names = d.names
      BY <2>1, <2>2, AlteringUnmoved
    <3>2. QED
      BY <1>2, <3>1
<1>3. QED
  BY <1>1, <1>2

\* and with an upgrade that has these to do at most.
LEMMA LateHead ==
  ASSUME NEW from \in 32 .. 34, NEW d, IsDb(d), Sane(d), UpToHead(from, d).ok
  PROVE  Unmoved(d, UpToHead(from, d))
<1>1. PICK f : /\ f[from] = d
               /\ \A i \in (from + 1) .. 34 : f[i] = Revised(i, f[i - 1])
               /\ UpToHead(from, d) = f[34]
  BY HeadSteps
<1>2. \A i \in from .. 34 : f[i].ok
  <2>1. from \in 0 .. 34
    OBVIOUS
  <2>2. QED
    BY <1>1, <2>1, HeadFails
<1>3. \A i \in (from + 1) .. 34 : f[i] = UpOne(i, f[i - 1]) /\ UpOne(i, f[i - 1]).ok
  <2>1. ASSUME NEW i \in (from + 1) .. 34
        PROVE  f[i] = UpOne(i, f[i - 1]) /\ UpOne(i, f[i - 1]).ok
    <3>1. i - 1 \in from .. 34 /\ i \in from .. 34
      OBVIOUS
    <3>2. f[i] = Revised(i, f[i - 1]) /\ f[i - 1].ok /\ f[i].ok
      BY <1>1, <1>2, <3>1
    <3>3. QED
      BY <3>2 DEF Revised
  <2>2. QED
    BY <2>1
<1>4. ASSUME NEW i \in (from + 1) .. 34, IsDb(f[i - 1]), Sane(f[i - 1])
      PROVE  IsDb(f[i]) /\ Sane(f[i]) /\ Unmoved(f[i - 1], f[i])
  <2>1. i \in {33, 34} /\ i \in 1 .. 34
    OBVIOUS
  <2>2. QED
    BY <1>3, <1>4, <2>1, UpKeeps, LateUp
<1>5. CASE from = 34
  BY <1>1, <1>5 DEF Unmoved
<1>6. CASE from = 33
  BY <1>1, <1>4, <1>6
<1>7. CASE from = 32
  <2>1. IsDb(f[33]) /\ Sane(f[33]) /\ Unmoved(f[32], f[33])
    BY <1>1, <1>4, <1>7
  <2>2. Unmoved(f[33], f[34])
    BY <1>4, <1>7, <2>1
  <2>3. QED
    BY <1>1, <1>7, <2>1, <2>2 DEF Unmoved
<1>8. QED
  BY <1>5, <1>6, <1>7

\* The last revision can be applied to a database that create_all made and that was taken
\* one revision down.
LEMMA LastUp ==
  ASSUME NEW d, IsDb(d), d.ok, d.tables = Stage(33, {})
  PROVE  /\ UpOne(34, d).ok /\ UpOne(34, d).tables = Stage(34, {})
         /\ UpOne(34, d).names = d.names /\ UpOne(34, d).types = d.types
<1>1. Revision(34, d).up = <<AddColumn("controls", "effort_days")>>
  BY DEF Revision, AddControlEffortDays, Adds
<1> DEFINE o == AddColumn("controls", "effort_days")
           ops == <<o>>
<1>2. o.op = "add" /\ o.t = "controls" /\ o.c = "effort_days"
  BY DEF AddColumn
<1>3. Len(ops) = 1 /\ ops[1] = o /\ UpOne(34, d) = Perform(d, ops)
  BY <1>1 DEF UpOne
<1>4. "controls" \in DOMAIN d.tables /\ d.tables["controls"] = Version("controls", 33)
  BY OldNames DEF Stage, Names
<1>5. "effort_days" \notin Columns(d.tables["controls"])
  BY <1>4, VersionsOfControls DEF Columns, Table
<1>6. Possible(d, o)
  BY <1>2, <1>4, <1>5 DEF Possible, HasTable, HasColumn
<1> HIDE DEF o, ops
<1>7. UpOne(34, d) = Effect(d, o)
  <2>1. PICK f : /\ f[0] = d
                 /\ \A i \in 1 .. Len(ops) : f[i] = Then(f[i - 1], ops[i])
                 /\ Perform(d, ops) = f[Len(ops)]
    BY <1>3, PerformSteps
  <2>2. f[1] = Then(d, o)
    BY <1>3, <2>1
  <2>3. QED
    BY <1>3, <1>6, <2>1, <2>2 DEF Then, Do
<1>8. UpOne(34, d).ok
  BY <1>7, EffectKeeps
<1>9. QED
  BY <1>8, Up34, LateUp

\* What the database is before the first start,
LEMMA EmptyIs ==
  IsDb(Empty) /\ Empty.ok /\ Empty.names = {} /\ Sane(Empty) /\ Empty.tables = <<>>
BY DEF Empty, IsDb, Sane

\* and what create_all makes of it.
LEMMA CreateAllIs ==
  /\ IsDb(CreateAll) /\ CreateAll.ok /\ CreateAll.names = {} /\ Sane(CreateAll)
  /\ CreateAll.tables = ModelTables /\ CreateAll.types = ModelTypes /\ CreateAll.users = "none"
<1>1. PICK m, y, c : m = ModelTables /\ y = ModelTypes /\ c = Empty
  OBVIOUS
<1>2. PICK e : e = [c EXCEPT !.tables = m]
  OBVIOUS
<1>3. e = [tables |-> m, types |-> c.types, names |-> c.names, ownerless |-> c.ownerless,
           filled |-> c.filled, users |-> c.users, ok |-> c.ok]
  BY <1>1, <1>2, EmptyIs DEF IsDb
<1>4. [e EXCEPT !.types = y]
        = [tables |-> m, types |-> y, names |-> c.names, ownerless |-> c.ownerless,
           filled |-> c.filled, users |-> c.users, ok |-> c.ok]
  BY <1>3
<1>5. CreateAll = [e EXCEPT !.types = y]
  BY <1>1, <1>2 DEF CreateAll
<1>6. c.names = {} /\ c.ok /\ c.ownerless = {} /\ c.filled = {} /\ c.users = "none"
  BY <1>1 DEF Empty
<1>7. QED
  BY <1>1, <1>4, <1>5, <1>6 DEF IsDb, Sane

\* A revision that fails on the way from the empty history is the end of the upgrade.
LEMMA UpgradeFails ==
  ASSUME NEW f, \A i \in 1 .. 34 : f[i] = Revised(i, f[i - 1]), NEW k \in 1 .. 34, ~f[k].ok
  PROVE  ~f[34].ok
<1>1. 0 \in 0 .. 34 /\ k \in 0 .. 34 /\ 1 .. 34 = (0 + 1) .. 34
  OBVIOUS
<1>2. \A i \in (0 + 1) .. 34 : f[i] = Revised(i, f[i - 1])
  BY <1>1
<1>3. QED
  BY <1>1, <1>2, HeadFails

\* Nothing upgrades a database that alembic believes to be before the first revision and that
\* is empty, or that create_all has filled.
LEMMA EmptyFails ==
  ~UpToHead(0, Empty).ok
<1> DEFINE d == Empty
<1>1. PICK f : /\ f[0] = d
               /\ \A i \in 1 .. 34 : f[i] = Revised(i, f[i - 1])
               /\ UpToHead(0, d) = f[34]
  BY HeadSteps
<1>2. d.ok /\ IsDb(d) /\ ~HasTable(d, "frameworks")
  BY DEF Empty, IsDb, HasTable
<1>3. Revision(1, d).up = <<Raise>>
  BY <1>2 DEF Revision, AddSourceAuthor
<1>4. f[1] = UpOne(1, d)
  BY <1>1, <1>2 DEF Revised
<1> HIDE DEF d
<1>5. ~UpOne(1, d).ok
  <2>1. SUFFICES ASSUME UpOne(1, d).ok PROVE FALSE
    OBVIOUS
  <2>2. Goes(d, Raise, UpOne(1, d))
    BY <1>2, <1>3, <2>1, OneOperation DEF UpOne
  <2>3. QED
    BY <2>2 DEF Goes, Possible, Raise
<1>6. ~f[1].ok
  BY <1>4, <1>5
<1>7. 1 \in 1 .. 34
  OBVIOUS
<1>8. ~f[34].ok
  BY <1>1, <1>6, <1>7, UpgradeFails
<1>9. QED
  BY <1>1, <1>8 DEF d

\* Upgrading that from the first revision on is refused.
LEMMA CreatedFails ==
  ~UpToHead(0, CreateAll).ok
<1> DEFINE d == CreateAll
<1>1. PICK f : /\ f[0] = d
               /\ \A i \in 1 .. 34 : f[i] = Revised(i, f[i - 1])
               /\ UpToHead(0, d) = f[34]
  BY HeadSteps
<1>2. d.ok /\ IsDb(d) /\ d.names = {} /\ d.tables = ModelTables
  BY CreateAllIs
<1> HIDE DEF d
<1>3. /\ HasColumn(d, "frameworks", "source") /\ HasColumn(d, "frameworks", "author")
      /\ HasTable(d, "frameworks")
  <2>1. d.tables["frameworks"] = Version("frameworks", 34)
    BY <1>2, NewNames DEF Version, New
  <2>2. {"source", "author"} \subseteq Columns(d.tables["frameworks"])
    BY <2>1, VersionsOfFrameworks DEF Columns, Table
  <2>3. QED
    BY <1>2, <2>2, NewNames DEF HasColumn, HasTable
<1>4. Revision(1, d).up = <<>>
  BY <1>3 DEF Revision, AddSourceAuthor, Unless
<1>5. UpOne(1, d) = d
  BY <1>4, NoOperation DEF UpOne
<1>6. /\ HasTable(d, "network_links") /\ HasTable(d, "network_map_layouts")
      /\ HasTable(d, "site_connections")
  BY <1>2, NewNames DEF HasTable
<1>7. Revision(2, d).up = <<>>
  BY <1>6 DEF Revision, AddNetworkMapTables, Unless
<1>8. UpOne(2, d) = d
  BY <1>7, NoOperation DEF UpOne
<1>9. ~UpOne(3, d).ok
  <2>1. SUFFICES ASSUME UpOne(3, d).ok PROVE FALSE
    OBVIOUS
  <2>2. PICK o : Revision(3, d).up = <<o>> /\ o.op = "drop key"
    <3>1. \E t, k, n : Revision(3, d).up = <<DropKey(t, k, n)>>
      BY DEF Revision, DropNetworkLinkUnique
    <3>2. \A t, k, n : DropKey(t, k, n).op = "drop key"
      BY DEF DropKey
    <3>3. QED
      BY <3>1, <3>2
  <2>3. Goes(d, o, UpOne(3, d))
    BY <1>2, <2>1, <2>2, OneOperation DEF UpOne
  <2>4. QED
    BY <1>2, <2>2, <2>3 DEF Goes, Possible
<1>10. f[1] = d
  BY <1>1, <1>2, <1>5 DEF Revised
<1>11. f[2] = d
  BY <1>1, <1>2, <1>8, <1>10 DEF Revised
<1>12. f[3] = UpOne(3, d)
  BY <1>1, <1>2, <1>11 DEF Revised
<1>13. ~f[3].ok
  BY <1>9, <1>12
<1>14. 3 \in 1 .. 34
  OBVIOUS
<1>15. ~f[34].ok
  BY <1>1, <1>13, <1>14, UpgradeFails
<1>16. QED
  BY <1>1, <1>15 DEF d
-----------------------------------------------------------------------------
\* The invariant.

\* A database none of whose commands failed, with its rows in its tables.
Fit(d) == IsDb(d) /\ Sane(d) /\ d.ok /\ d.users \in Users

\* The variables have their types.
Sound ==
  /\ Fit(db)
  /\ at \in Unversioned .. Newest
  /\ phase \in {"down", "created", "migrated", "serving", "failed"}
  /\ past \in {"empty", "old", "stamped"}
  /\ crashes \in 0 .. MaxCrashes /\ downs \in 0 .. MaxDown

\* What the tables are, by where the database comes from. Those found are at the stage of
\* the revision alembic has recorded; those found and marked stay as they were found; those
\* that create_all made can only be taken one revision down, for no constraint of theirs has
\* the name that the revision before the last would drop.
Shape(origin, i, d) ==
  /\ origin = "old" =>
       /\ Reached(IF i = Unversioned THEN 0 ELSE i, d)
       /\ i = Unversioned => d.tables = BaselineTables
  /\ origin = "stamped" => i = 34 /\ d.tables = BaselineTables
  /\ origin = "empty" =>
       \/ i = Unversioned /\ d \in {Empty, CreateAll}
       \/ /\ i \in {33, 34} /\ d.names = {}
          /\ d.tables = Stage(i, {}) /\ d.types = ModelTypes

Shaped == Shape(past, at, db)

\* How far the container is.
Contained ==
  /\ phase = "created" => past = "empty" /\ at = Unversioned /\ db = CreateAll
  /\ phase \in {"migrated", "serving", "failed"} => at # Unversioned
  /\ phase = "failed" => past # "empty"

Tables == ToSet(MigrationOrder) \cup ToSet(SourceTables)

\* What the copy has yet to do, in a target that has the tables of the models, or in one that
\* has not the agents.
Owed ==
  /\ past # "stamped" => ToSet(SourceTables) \subseteq db.filled \cup ToSet(copy.left)
  /\ past = "stamped" => "agents" \in ToSet(copy.left)

\* The copy. The users are the first it inserts, so that one that stopped midway has left
\* users behind, and the next cannot begin.
CopySound ==
  /\ copy = [phase |-> copy.phase, left |-> copy.left, superuser |-> copy.superuser,
             inserted |-> copy.inserted, torn |-> copy.torn]
  /\ copy.phase \in {"idle", "running", "done", "failed"}
  /\ copy.inserted \in BOOLEAN /\ copy.torn \in BOOLEAN
  /\ copy.left \in Seq(Tables)
  /\ ToSet(copy.left) \subseteq DOMAIN db.tables \cup ToSet(MigrationOrder)

Copied ==
  /\ copy.phase = "idle" => ~copy.torn /\ copy.left = <<>>
  /\ copy.phase # "idle" => at \in 32 .. 34
  /\ copy.torn => "users" \in db.filled
  /\ copy.phase = "running" =>
       /\ phase = "down" /\ at = Newest /\ Owed
       /\ ~copy.inserted => copy.left # <<>> /\ Head(copy.left) = "users"
       /\ copy.inserted => ~copy.torn /\ "users" \in db.filled
  /\ copy.phase = "done" => ToSet(SourceTables) \subseteq db.filled /\ ~copy.torn

DatabaseInv == Sound /\ Shaped /\ Contained /\ CopySound /\ Copied

\* There are 34 revisions.
LEMMA NewestIs == Newest = 34
BY DEF Newest, History

\* Every shape but that of an empty database has the tables that the container fills.
LEMMA ShapeHasUsers ==
  ASSUME NEW origin \in {"empty", "old", "stamped"}, NEW i \in -1 .. 34, NEW d,
         Shape(origin, i, d), origin = "empty" => d # Empty
  PROVE  "users" \in DOMAIN d.tables /\ "frameworks" \in DOMAIN d.tables /\ d.tables # <<>>
<1>1. \A j \in 0 .. 34 : \A lost \in {{}, {Monkeys}} :
        "users" \in DOMAIN Stage(j, lost) /\ "frameworks" \in DOMAIN Stage(j, lost)
  BY OldNames DEF Stage, Names, Monkeys
<1>2. \A j : Losses(j) \subseteq {{}, {Monkeys}} /\ {} \in Losses(j)
  BY DEF Losses
<1>3. "users" \in DOMAIN d.tables /\ "frameworks" \in DOMAIN d.tables
  <2>1. CASE origin = "old"
    <3>1. PICK j \in 0 .. 34 : Reached(j, d)
      BY <2>1 DEF Shape, Unversioned
    <3>2. QED
      BY <1>1, <1>2, <3>1 DEF Reached
  <2>2. CASE origin = "stamped"
    BY <2>2, OldNames DEF Shape
  <2>3. CASE origin = "empty" /\ d = CreateAll
    BY <2>3, NewNames, CreateAllIs
  <2>4. CASE origin = "empty" /\ i \in {33, 34} /\ d.tables = Stage(i, {})
    BY <1>1, <2>4
  <2>5. QED
    BY <2>1, <2>2, <2>3, <2>4 DEF Shape
<1>4. d.tables # <<>>
  <2>1. "users" \notin DOMAIN <<>>
    OBVIOUS
  <2>2. QED
    BY <1>3, <2>1
<1>5. QED
  BY <1>3, <1>4

\* Rows do not change the shape.
LEMMA ShapeOfRows ==
  ASSUME NEW origin, NEW i \in 0 .. 34, NEW d, Shape(origin, i, d),
         NEW e, e.tables = d.tables, e.types = d.types, e.names = d.names
  PROVE  Shape(origin, i, e)
<1>1. i # Unversioned
  BY DEF Unversioned
<1>2. QED
  BY <1>1 DEF Shape, Reached, Typed

\* The admin is a row of users and nothing else.
LEMMA WithAdminIs ==
  ASSUME NEW d, Fit(d), "users" \in DOMAIN d.tables
  PROVE  /\ Fit(WithAdmin(d)) /\ WithAdmin(d).tables = d.tables /\ WithAdmin(d).types = d.types
         /\ WithAdmin(d).names = d.names /\ WithAdmin(d).filled = d.filled \cup {"users"}
<1>1. PICK c : c = d
  OBVIOUS
<1>2. PICK e : e = [c EXCEPT !.users = "admin"]
  OBVIOUS
<1>3. e = [tables |-> c.tables, types |-> c.types, names |-> c.names, ownerless |-> c.ownerless,
           filled |-> c.filled, users |-> "admin", ok |-> c.ok]
  BY <1>1, <1>2 DEF Fit, IsDb
<1> DEFINE filled == c.filled \cup {"users"}
<1>4. WithAdmin(d) = [e EXCEPT !.filled = filled]
  BY <1>1, <1>2 DEF WithAdmin
<1> HIDE DEF filled
<1>5. [e EXCEPT !.filled = filled]
        = [tables |-> c.tables, types |-> c.types, names |-> c.names, ownerless |-> c.ownerless,
           filled |-> filled, users |-> "admin", ok |-> c.ok]
  BY <1>3
<1>6. QED
  BY <1>1, <1>4, <1>5 DEF Fit, IsDb, Sane, Users, filled

\* alembic upgrade head, from any database there may be.
LEMMA HeadKeeps ==
  ASSUME NEW origin \in {"empty", "old", "stamped"}, NEW i \in -1 .. 34, NEW d, Fit(d),
         Shape(origin, i, d), NEW e, e = UpToHead(IF i = Unversioned THEN 0 ELSE i, d), e.ok
  PROVE  /\ Fit(e) /\ Shape(origin, 34, e)
         /\ i \in 32 .. 34 => Unmoved(d, e)
         /\ e # Empty
<1> DEFINE from == IF i = Unversioned THEN 0 ELSE i
<1>1. from \in 0 .. 34 /\ (i \in 32 .. 34 => from = i) /\ e = UpToHead(from, d) /\ 34 # Unversioned
  BY DEF Unversioned
<1> HIDE DEF from
<1>2. IsDb(d) /\ Sane(d) /\ d.ok
  BY DEF Fit
<1>3. i \in 32 .. 34 => Unmoved(d, e)
  BY <1>1, <1>2, LateHead
<1>4. Fit(e) /\ Shape(origin, 34, e)
  <2>1. CASE origin = "old"
    <3>1. Reached(from, d)
      BY <2>1 DEF Shape, from
    <3>2. IsDb(e) /\ Sane(e) /\ e.users = d.users /\ Reached(34, e)
      BY <1>1, <1>2, <3>1, HeadReached
    <3>3. QED
      BY <1>1, <2>1, <3>2 DEF Shape, Fit
  <2>2. CASE origin = "stamped"
    <3>1. from = 34 /\ d.tables = BaselineTables
      BY <1>1, <2>2 DEF Shape
    <3>2. e = d
      BY <1>1, <3>1, HeadLast
    <3>3. QED
      BY <2>2, <3>1, <3>2 DEF Shape
  <2>3. CASE origin = "empty" /\ i = Unversioned
    <3>1. from = 0 /\ d \in {Empty, CreateAll}
      BY <2>3 DEF Shape, from, Unversioned
    <3>2. QED
      BY <1>1, <3>1, EmptyFails, CreatedFails
  <2>4. CASE origin = "empty" /\ i = 34
    <3>1. e = d
      BY <1>1, <2>4, HeadLast
    <3>2. QED
      BY <2>4, <3>1
  <2>5. CASE origin = "empty" /\ i = 33
    <3>1. d.names = {} /\ d.tables = Stage(33, {}) /\ d.types = ModelTypes
      BY <2>5 DEF Shape, Unversioned
    <3>2. e = UpOne(34, d)
      BY <1>1, <1>2, <2>5, HeadLast
    <3>3. e.tables = Stage(34, {}) /\ e.names = {} /\ e.types = ModelTypes
      BY <1>2, <3>1, <3>2, LastUp
    <3>4. Fit(e)
      BY <1>2, <3>2, UpKeeps DEF Fit
    <3>5. QED
      BY <2>5, <3>3, <3>4 DEF Shape
  <2>6. QED
    BY <2>1, <2>2, <2>3, <2>4, <2>5 DEF Shape
<1>5. e # Empty
  <2>1. CASE origin = "old"
    <3>1. PICK lost \in Losses(34) : e.tables = Stage(34, lost)
      BY <1>1, <1>4, <2>1 DEF Shape, Reached
    <3>2. "users" \in DOMAIN e.tables
      BY <3>1, OldNames DEF Stage, Names, Losses
    <3>3. QED
      BY <3>2, EmptyIs
  <2>2. CASE origin = "stamped"
    <3>1. e.tables = BaselineTables
      BY <1>4, <2>2 DEF Shape
    <3>2. "users" \in DOMAIN e.tables
      BY <3>1, OldNames
    <3>3. QED
      BY <3>2, EmptyIs
  <2>3. CASE origin = "empty"
    <3>1. e.tables = Stage(34, {})
      BY <1>1, <1>4, <2>3 DEF Shape
    <3>2. "users" \in DOMAIN e.tables
      BY <3>1, OldNames DEF Stage, Names
    <3>3. QED
      BY <3>2, EmptyIs
  <2>4. QED
    BY <2>1, <2>2, <2>3
<1>6. QED
  BY <1>3, <1>4, <1>5

-----------------------------------------------------------------------------
\* The list of the tables to copy.

\* What Among computes, element by element.
LEMMA AmongSteps ==
  ASSUME NEW seq, Len(seq) \in Nat, NEW set
  PROVE  \E f : /\ f[0] = <<>>
                /\ \A i \in 1 .. Len(seq) :
                     f[i] = Joined(f[i - 1], seq[i], set)
                /\ Among(seq, set) = f[Len(seq)]
<1> DEFINE n == Len(seq)
           Body(g, i) == [j \in 0 .. i |-> IF j = 0 THEN <<>> ELSE Joined(g[j - 1], seq[j], set)]
           good == {i \in 0 .. n : \E g : g = Body(g, i)}
<1>1. 0 \in good
  <2>1. [j \in 0 .. 0 |-> <<>>] = Body([j \in 0 .. 0 |-> <<>>], 0)
    OBVIOUS
  <2>2. \E g : g = Body(g, 0)
    <3> HIDE DEF Body
    <3> QED
      BY <2>1
  <2>3. QED
    BY <2>2
<1>2. ASSUME NEW i \in 1 .. n, i - 1 \in good
      PROVE  i \in good
  <2>1. PICK g : g = Body(g, i - 1)
    BY <1>2
  <2> DEFINE h == [j \in 0 .. i |-> IF j = i THEN Joined(g[i - 1], seq[i], set) ELSE g[j]]
  <2>2. \A j \in 0 .. i - 1 : h[j] = g[j] /\ g[j] = IF j
          = 0 THEN <<>> ELSE Joined(g[j - 1], seq[j], set)
    BY <2>1
  <2>3. h[i] = Joined(h[i - 1], seq[i], set)
    BY <2>2
  <2>4. ASSUME NEW j \in 0 .. i
        PROVE  h[j] = IF j = 0 THEN <<>> ELSE Joined(h[j - 1], seq[j], set)
    <3>1. CASE j = i
      BY <2>3, <3>1
    <3>2. CASE j # i
      <4>1. j \in 0 .. i - 1 /\ (j # 0 => j - 1 \in 0 .. i - 1)
        BY <3>2
      <4> HIDE DEF h
      <4>2. QED
        BY <2>2, <4>1
    <3>3. QED
      BY <3>1, <3>2
  <2>5. h = Body(h, i)
    BY <2>4
  <2> HIDE DEF Body, h
  <2>6. \E f : f = Body(f, i)
    BY <2>5
  <2>7. QED
    BY <2>6
<1>3. PICK g : g = Body(g, n)
  <2> HIDE DEF good, n
  <2>1. \A i \in 0 .. n : i \in good
    BY <1>1, <1>2, IntervalInduction DEF n
  <2>2. QED
    BY <2>1 DEF good, n
<1> DEFINE f == CHOOSE b : b = Body(b, n)
<1>4. f = Body(f, n)
  BY <1>3
<1>5. Among(seq, set) = f[n]
  BY DEF Among
<1>6. /\ f[0] = <<>>
      /\ \A i \in 1 .. n : f[i] = Joined(f[i - 1], seq[i], set)
  <2> HIDE DEF f
  <2> QED
    BY <1>4
<1>7. QED
  <2> HIDE DEF f
  <2> QED
    BY <1>5, <1>6

\* The members of the sequence that are in the set, the first if it is one of them.
LEMMA AmongIs ==
  ASSUME NEW S, NEW seq \in Seq(S), NEW set
  PROVE  /\ Among(seq, set) \in Seq(S) /\ ToSet(Among(seq, set)) = ToSet(seq) \cap set
         /\ Len(seq) > 0 /\ seq[1] \in set => /\ Among(seq, set) # <<>>
                                              /\ Among(seq, set)[1] = seq[1]
<1>1. PICK f : /\ f[0] = <<>>
               /\ \A i \in 1 .. Len(seq) :
                    f[i] = Joined(f[i - 1], seq[i], set)
               /\ Among(seq, set) = f[Len(seq)]
  BY AmongSteps
<1> DEFINE n == Len(seq)
           Kept(i) == /\ f[i] \in Seq(S)
                      /\ ToSet(f[i]) = {seq[j] : j \in 1 .. i} \cap set
                      /\ i > 0 /\ seq[1] \in set => f[i] # <<>> /\ f[i][1] = seq[1]
           good == {i \in 0 .. n : Kept(i)}
<1>2. 0 \in good
  <2>1. ToSet(<<>>) = {} /\ {seq[j] : j \in 1 .. 0} = {}
    BY DEF ToSet
  <2>2. Kept(0)
    BY <1>1, <2>1
  <2>3. QED
    BY <2>2
<1>3. ASSUME NEW i \in 1 .. n, i - 1 \in good
      PROVE  i \in good
  <2>1. f[i - 1] \in Seq(S) /\ ToSet(f[i - 1]) = {seq[j] : j \in 1 .. (i - 1)} \cap set
    BY <1>3
  <2>2. seq[i] \in S /\ 1 .. i = (1 .. (i - 1)) \cup {i}
    OBVIOUS
  <2>3. CASE seq[i] \in set
    <3>1. PICK s, x : s = f[i - 1] /\ x = seq[i]
      OBVIOUS
    <3>2. f[i] = Append(s, x)
      BY <1>1, <2>3, <3>1 DEF Joined
    <3>3. s \in Seq(S) /\ x \in S
      BY <2>1, <2>2, <3>1
    <3>4. f[i] \in Seq(S) /\ f[i] # <<>>
      BY <3>2, <3>3
    <3>5. ToSet(f[i]) = ToSet(s) \cup {x}
      <4>1. /\ Len(f[i]) = Len(s) + 1 /\ f[i][Len(s) + 1] = x
            /\ \A j \in 1 .. Len(s) : f[i][j] = s[j]
        BY <3>2, <3>3
      <4>2. DOMAIN f[i] = DOMAIN s \cup {Len(s) + 1} /\ DOMAIN s = 1 .. Len(s)
        BY <3>3, <3>4, <4>1
      <4>3. QED
        BY <4>1, <4>2 DEF ToSet
    <3>6. ToSet(f[i]) = {seq[j] : j \in 1 .. i} \cap set
      BY <2>1, <2>2, <2>3, <3>1, <3>5
    <3>7. seq[1] \in set => f[i][1] = seq[1]
      <4>1. CASE i = 1
        <5>1. s = <<>> /\ x = seq[1]
          BY <1>1, <3>1, <4>1
        <5>2. QED
          BY <3>2, <5>1
      <4>2. CASE i # 1
        <5>1. seq[1] \in set => s # <<>> /\ s[1] = seq[1]
          BY <1>3, <3>1, <4>2
        <5>2. QED
          BY <3>2, <3>3, <5>1
      <4>3. QED
        BY <4>1, <4>2
    <3>8. QED
      BY <3>4, <3>6, <3>7
  <2>4. CASE seq[i] \notin set
    <3>1. f[i] = f[i - 1]
      BY <1>1, <2>4 DEF Joined
    <3>2. i = 1 => seq[1] \notin set
      BY <2>4
    <3>3. {seq[j] : j \in 1 .. i} \cap set = {seq[j] : j \in 1 .. (i - 1)} \cap set
      BY <2>2, <2>4
    <3>4. i # 1 /\ seq[1] \in set => f[i - 1] # <<>> /\ f[i - 1][1] = seq[1]
      BY <1>3
    <3>5. QED
      BY <2>1, <3>1, <3>2, <3>3, <3>4
  <2>5. QED
    BY <2>3, <2>4
<1>4. n \in Nat /\ n \in 0 .. n
  OBVIOUS
<1> HIDE DEF good, n
<1>5. n \in good
  BY <1>2, <1>3, <1>4, IntervalInduction
<1>6. Kept(n)
  BY <1>5 DEF good
<1>7. ToSet(seq) = {seq[j] : j \in 1 .. n}
  BY DEF ToSet, n
<1>8. QED
  BY <1>1, <1>6, <1>7 DEF n

\* The two lists of migrate_to_postgres.py: the users come first, the agents are in both.
LEMMA ListsAre ==
  /\ MigrationOrder \in Seq(Tables) /\ Len(MigrationOrder) > 0 /\ MigrationOrder[1] = "users"
  /\ SourceTables \in Seq(Tables) /\ "users" \in ToSet(SourceTables)
  /\ "agents" \in ToSet(MigrationOrder) \cap ToSet(SourceTables)
  /\ ToSet(SourceTables) = DOMAIN ModelTables
<1>1. MigrationOrder \in Seq(ToSet(MigrationOrder)) /\ SourceTables \in Seq(ToSet(SourceTables))
  BY DEF ToSet, MigrationOrder, SourceTables
<1>2. Len(MigrationOrder) > 0 /\ MigrationOrder[1] = "users"
  BY DEF MigrationOrder
<1>3. "agents" \in ToSet(MigrationOrder)
  <2>1. MigrationOrder[8] = "agents" /\ 8 \in DOMAIN MigrationOrder
    BY DEF MigrationOrder
  <2>2. QED
    BY <2>1 DEF ToSet
<1>4. ToSet(SourceTables) = DOMAIN ModelTables
  <2>1. DOMAIN SourceTables = {1, 2, 3, 4, 5, 6, 7, 8, 9, 10, 11, 12, 13, 14, 15, 16, 17, 18, 19,
                               20, 21, 22, 23, 24, 25, 26, 27, 28, 29, 30, 31, 32, 33, 34, 35,
                               36, 37, 38, 39, 40, 41}
    BY DEF SourceTables
  <2>2. QED
    BY <2>1, NewNames DEF ToSet, SourceTables
<1>5. QED
  BY <1>1, <1>2, <1>3, <1>4, NewNames DEF Tables

\* The tables to copy.
LEMMA ListIs ==
  ASSUME NEW d
  PROVE  LET list == TablesToMigrate(d)
         IN  /\ list \in Seq(Tables) /\ list # <<>> /\ Head(list) = "users"
             /\ ToSet(list) = (ToSet(MigrationOrder) \cap ToSet(SourceTables))
                              \cup (ToSet(SourceTables)
                                      \cap (DOMAIN d.tables \ ToSet(MigrationOrder)))
<1> DEFINE s == Among(MigrationOrder, ToSet(SourceTables))
           t == Among(SourceTables, DOMAIN d.tables \ ToSet(MigrationOrder))
<1>1. /\ s \in Seq(Tables) /\ ToSet(s) = ToSet(MigrationOrder) \cap ToSet(SourceTables)
      /\ s # <<>> /\ s[1] = "users"
  BY ListsAre, AmongIs
<1>2. /\ t \in Seq(Tables)
      /\ ToSet(t) = ToSet(SourceTables) \cap (DOMAIN d.tables \ ToSet(MigrationOrder))
  BY ListsAre, AmongIs
<1>3. TablesToMigrate(d) = s \o t
  BY DEF TablesToMigrate
<1> HIDE DEF s, t
<1>4. /\ s \o t \in Seq(Tables) /\ s \o t # <<>> /\ Head(s \o t) = "users"
      /\ ToSet(s \o t) = ToSet(s) \cup ToSet(t)
  <2>1. s \o t \in Seq(Tables) /\ Len(s \o t) = Len(s) + Len(t) /\ Len(s) > 0
    BY <1>1, <1>2
  <2>2. \A i \in 1 .. Len(s) : (s \o t)[i] = s[i]
    BY <1>1, <1>2
  <2>3. \A i \in 1 .. Len(t) : (s \o t)[Len(s) + i] = t[i]
    BY <1>1, <1>2
  <2>4. ToSet(s \o t) \subseteq ToSet(s) \cup ToSet(t)
    BY <1>1, <1>2 DEF ToSet
  <2>5. ToSet(s) \subseteq ToSet(s \o t)
    BY <1>1, <2>1, <2>2 DEF ToSet
  <2>6. ToSet(t) \subseteq ToSet(s \o t)
    <3>1. \A i \in 1 .. Len(t) : Len(s) + i \in 1 .. Len(s \o t)
      BY <1>1, <1>2, <2>1
    <3>2. DOMAIN t = 1 .. Len(t) /\ DOMAIN (s \o t) = 1 .. Len(s \o t)
      BY <1>2, <2>1
    <3>3. QED
      BY <2>3, <3>1, <3>2 DEF ToSet
  <2>7. QED
    BY <1>1, <2>1, <2>2, <2>4, <2>5, <2>6
<1>5. QED
  BY <1>1, <1>2, <1>3, <1>4

-----------------------------------------------------------------------------
\* Every step keeps the invariant.

\* The invariant holds at first.
LEMMA InitInv ==
  ASSUME DatabaseInit
  PROVE  DatabaseInv
<1>1. db = Empty \/ db \in Origins \ {Empty}
  BY DEF DatabaseInit
<1>2. Fit(db)
  <2>1. CASE db = Empty
    BY <2>1, EmptyIs DEF Fit, Empty, Users
  <2>2. CASE db \in Origins \ {Empty}
    <3>1. /\ db.filled \subseteq DOMAIN BaselineTables /\ db.users \in Users
          /\ db = Baseline(db.filled, db.users)
      BY <2>2, OriginsAssumption
    <3>2. PICK f, u : f = db.filled /\ u = db.users
      OBVIOUS
    <3>3. Fit(Baseline(f, u))
      BY <3>1, <3>2, OldNames DEF Baseline, Fit, IsDb, Sane
    <3>4. QED
      BY <3>1, <3>2, <3>3
  <2>3. QED
    BY <1>1, <2>1, <2>2
<1>3. Shaped
  <2>1. CASE db = Empty
    BY <2>1 DEF DatabaseInit, Shaped, Shape
  <2>2. CASE db # Empty
    <3>1. db = Baseline(db.filled, db.users)
      BY <1>1, <2>2, OriginsAssumption
    <3>2. db.tables = BaselineTables /\ Typed(0, db)
      <4>1. db.types = [monkey365scanstatus |-> Monkey365ScanStatus] /\ db.tables = BaselineTables
        BY <3>1 DEF Baseline
      <4>2. IsFun(db.types) /\ Labelled(db.types, "monkey365scanstatus")
        BY <4>1 DEF IsFun, Labelled, ModelTypes
      <4>3. QED
        BY <4>1, <4>2 DEF Typed
    <3>3. Reached(0, db)
      BY <3>2, StageZero DEF Reached, Losses
    <3>4. at = Unversioned /\ past = "old"
      BY <2>2 DEF DatabaseInit
    <3>5. QED
      BY <3>2, <3>3, <3>4 DEF Shaped, Shape
  <2>3. QED
    BY <2>1, <2>2
<1>4. Sound
  BY <1>2, BoundsAssumption, NewestIs DEF DatabaseInit, Sound, Unversioned
<1>5. Contained
  BY DEF DatabaseInit, Contained
<1>6. CopySound
  BY DEF DatabaseInit, NoCopy, CopySound, ToSet
<1>7. Copied
  BY DEF DatabaseInit, NoCopy, Copied
<1>8. QED
  BY <1>3, <1>4, <1>5, <1>6, <1>7 DEF DatabaseInv

\* A copy that is not running is undisturbed while the database keeps its tables and rows.
LEMMA CopyRests ==
  ASSUME CopySound, Copied, copy' = copy, copy.phase # "running",
         copy.phase # "idle" => /\ at' \in 32 .. 34 /\ db.filled \subseteq db'.filled
                                /\ DOMAIN db.tables \subseteq DOMAIN db'.tables
  PROVE  CopySound' /\ Copied'
<1>1. CASE copy.phase = "idle"
  <2>1. ToSet(<<>>) = {}
    BY DEF ToSet
  <2>2. QED
    BY <1>1, <2>1 DEF CopySound, Copied
<1>2. CASE copy.phase # "idle"
  BY <1>2 DEF CopySound, Copied
<1>3. QED
  BY <1>1, <1>2

\* No copy has begun when alembic has recorded no revision.
LEMMA UnversionedIdle ==
  ASSUME Copied, at = Unversioned
  PROVE  copy.phase = "idle"
BY DEF Copied, Unversioned

\* create_all, on an empty database.
LEMMA StartEmptyKeeps ==
  ASSUME DatabaseInv, StartEmpty
  PROVE  DatabaseInv'
<1> USE DEF StartEmpty
<1>1. past = "empty"
  <2>1. at \in -1 .. 34 /\ past \in {"empty", "old", "stamped"}
    BY NewestIs DEF DatabaseInv, Sound, Unversioned
  <2>2. QED
    BY <2>1, ShapeHasUsers DEF DatabaseInv, Shaped
<1>2. Fit(CreateAll)
  BY CreateAllIs DEF Fit, Users
<1>3. Sound' /\ Shaped' /\ Contained'
  BY <1>1, <1>2 DEF DatabaseInv, Sound, Shaped, Shape, Contained
<1>4. CopySound' /\ Copied'
  BY UnversionedIdle, CopyRests DEF DatabaseInv
<1>5. QED
  BY <1>3, <1>4 DEF DatabaseInv

\* The last revision is recorded, after create_all or without.
LEMMA StampKeeps ==
  ASSUME DatabaseInv, Stamp
  PROVE  DatabaseInv'
<1>1. at = Unversioned /\ copy.phase = "idle"
  BY UnversionedIdle DEF Stamp, DatabaseInv, Contained
<1>2. Shaped'
  <2>1. CASE past = "empty"
    <3>1. db = CreateAll
      <4>1. db \in {Empty, CreateAll}
        BY <1>1, <2>1 DEF DatabaseInv, Shaped, Shape, Unversioned
      <4>2. QED
        BY <4>1, EmptyIs DEF Stamp, DatabaseInv, Contained
    <3>2. db.names = {} /\ db.tables = Stage(34, {}) /\ db.types = ModelTypes
      BY <3>1, CreateAllIs, StageLast
    <3>3. QED
      BY <2>1, <3>2, NewestIs DEF Stamp, Shaped, Shape
  <2>2. CASE past = "old"
    BY <1>1, <2>2, NewestIs DEF Stamp, DatabaseInv, Shaped, Shape
  <2>3. CASE past = "stamped"
    BY <1>1, <2>3 DEF DatabaseInv, Shaped, Shape, Unversioned
  <2>4. QED
    BY <2>1, <2>2, <2>3 DEF DatabaseInv, Sound
<1>3. Sound' /\ Contained'
  BY NewestIs DEF Stamp, DatabaseInv, Sound, Contained, Unversioned
<1>4. CopySound' /\ Copied'
  BY <1>1, CopyRests DEF Stamp, DatabaseInv
<1>5. QED
  BY <1>2, <1>3, <1>4 DEF DatabaseInv

\* What the upgrade of the database there is leaves.
LEMMA UpgradeLeaves ==
  ASSUME DatabaseInv, NEW e, e = UpToHead(Applied, db), e.ok
  PROVE  /\ Fit(e) /\ Shape(past, 34, e) /\ e # Empty
         /\ at \in 32 .. 34 => Unmoved(db, e)
         /\ "users" \in DOMAIN e.tables /\ 34 # Unversioned
<1>1. at \in -1 .. 34 /\ past \in {"empty", "old", "stamped"}
  BY NewestIs DEF DatabaseInv, Sound, Unversioned
<1>2. e = UpToHead(IF at = Unversioned THEN 0 ELSE at, db)
  BY DEF Applied
<1>3. Fit(e) /\ Shape(past, 34, e) /\ e # Empty /\ (at \in 32 .. 34 => Unmoved(db, e))
  BY <1>1, <1>2, HeadKeeps DEF DatabaseInv, Shaped, Sound
<1>4. 34 \in -1 .. 34 /\ 34 # Unversioned
  BY DEF Unversioned
<1>5. QED
  BY <1>1, <1>3, <1>4, ShapeHasUsers

\* What create_all made can be upgraded, wherever the operator took it.
LEMMA EmptyUpgrades ==
  ASSUME DatabaseInv, past = "empty", at # Unversioned
  PROVE  UpToHead(Applied, db).ok
<1>1. at \in {33, 34} /\ db.tables = Stage(at, {}) /\ Applied = at
  BY DEF DatabaseInv, Shaped, Shape, Applied
<1>2. IsDb(db) /\ db.ok
  BY DEF DatabaseInv, Sound, Fit
<1>3. CASE at = 34
  BY <1>1, <1>2, <1>3, HeadLast
<1>4. CASE at = 33
  BY <1>1, <1>2, <1>4, HeadLast, LastUp
<1>5. QED
  BY <1>1, <1>3, <1>4

\* The upgrade of a start.
LEMMA UpgradeKeeps ==
  ASSUME DatabaseInv, Upgrade
  PROVE  DatabaseInv'
<1>1. PICK e : e = UpToHead(Applied, db) /\ e = UpToHead(at, db)
  BY DEF Upgrade, Applied
<1>2. CASE e.ok
  <2>1. db' = e /\ at' = 34 /\ phase' = "migrated"
    BY <1>1, <1>2, NewestIs DEF Upgrade
  <2>2. Fit(e) /\ Shape(past, 34, e) /\ (at \in 32 .. 34 => Unmoved(db, e)) /\ 34 # Unversioned
    BY <1>1, <1>2, UpgradeLeaves
  <2>3. Sound' /\ Shaped' /\ Contained'
    BY <2>1, <2>2, NewestIs DEF Upgrade, DatabaseInv, Sound, Shaped, Contained, Unversioned
  <2>4. CopySound' /\ Copied'
    BY <2>1, <2>2, CopyRests DEF Upgrade, DatabaseInv, Copied, Unmoved
  <2>5. QED
    BY <2>3, <2>4 DEF DatabaseInv
<1>3. CASE ~e.ok
  <2>1. phase' = "failed" /\ db' = db /\ at' = at /\ past' = past
    BY <1>1, <1>3 DEF Upgrade
  <2>2. past # "empty"
    BY <1>1, <1>3, EmptyUpgrades DEF Upgrade
  <2>3. Sound' /\ Shaped' /\ Contained'
    BY <2>1, <2>2 DEF Upgrade, DatabaseInv, Sound, Shaped, Contained
  <2>4. CopySound' /\ Copied'
    BY <2>1, CopyRests DEF Upgrade, DatabaseInv, Copied
  <2>5. QED
    BY <2>3, <2>4 DEF DatabaseInv
<1>4. QED
  BY <1>2, <1>3

\* The admin, the demonstration data and the frameworks.
LEMMA ServeKeeps ==
  ASSUME DatabaseInv, Serve
  PROVE  DatabaseInv'
<1>1. /\ at \in 0 .. 34 /\ at \in -1 .. 34 /\ past \in {"empty", "old", "stamped"}
      /\ Fit(db) /\ Shape(past, at, db) /\ at # Unversioned
  BY NewestIs DEF Serve, DatabaseInv, Sound, Shaped, Contained, Unversioned
<1>2. past = "empty" => db # Empty
  <2>1. past = "empty" => db.tables = Stage(at, {})
    BY <1>1 DEF Shape
  <2>2. "users" \in DOMAIN Stage(at, {})
    BY <1>1, OldNames DEF Stage, Names
  <2>3. QED
    BY <2>1, <2>2, EmptyIs
<1>3. "users" \in DOMAIN db.tables /\ "frameworks" \in DOMAIN db.tables
  BY <1>1, <1>2, ShapeHasUsers
<1>4. PICK w : w = WithAdmin(db)
  OBVIOUS
<1>5. /\ Fit(w) /\ w.tables = db.tables /\ w.types = db.types /\ w.names = db.names
      /\ w.filled = db.filled \cup {"users"}
  BY <1>1, <1>3, <1>4, WithAdminIs
<1> DEFINE filled == w.filled \cup {"frameworks"}
<1>6. db' = [w EXCEPT !.filled = filled]
  BY <1>4 DEF Serve
<1> HIDE DEF filled
<1>7. db' = [tables |-> w.tables, types |-> w.types, names |-> w.names,
             ownerless |-> w.ownerless, filled |-> filled, users |-> w.users, ok |-> w.ok]
  BY <1>5, <1>6 DEF Fit, IsDb
<1>8. /\ db'.tables = db.tables /\ db'.types = db.types /\ db'.names = db.names
      /\ db'.filled = filled /\ w.filled \subseteq filled
           /\ filled \subseteq w.filled \cup {"frameworks"}
  BY <1>5, <1>7 DEF filled
<1>9. Fit(db')
  <2>1. IsDb(db') /\ db'.ok /\ db'.users \in Users /\ db'.ownerless = w.ownerless
    BY <1>5, <1>7 DEF Fit, IsDb
  <2>2. QED
    BY <1>3, <1>5, <1>8, <2>1 DEF Fit, Sane
<1>10. Shape(past, at, db')
  BY <1>1, <1>8, ShapeOfRows
<1>11. Sound' /\ Shaped' /\ Contained'
  BY <1>1, <1>9, <1>10 DEF Serve, DatabaseInv, Sound, Shaped, Contained
<1>12. copy.phase # "running"
  BY DEF Serve, DatabaseInv, Copied
<1>13. CopySound' /\ Copied'
  <2>1. copy' = copy /\ at' = at /\ db.filled \subseteq db'.filled
    BY <1>5, <1>8 DEF Serve
  <2>2. QED
    BY <1>8, <1>12, <2>1, CopyRests DEF DatabaseInv, Copied
<1>14. QED
  BY <1>11, <1>13 DEF DatabaseInv

\* Kills and restarts.
LEMMA CrashKeeps ==
  ASSUME DatabaseInv, Crash \/ Restart
  PROVE  DatabaseInv'
<1>1. Sound'
  BY BoundsAssumption DEF Crash, Restart, DatabaseInv, Sound
<1>2. Shaped' /\ Contained'
  BY DEF Crash, Restart, DatabaseInv, Shaped, Contained
<1>3. CopySound' /\ Copied'
  BY CopyRests DEF Crash, Restart, DatabaseInv, Copied
<1>4. QED
  BY <1>1, <1>2, <1>3 DEF DatabaseInv

\* init_db.py.
LEMMA InitDbKeeps ==
  ASSUME DatabaseInv, InitDb
  PROVE  DatabaseInv'
<1>1. PICK e : e = UpToHead(Applied, db) /\ e.ok /\ db' = WithAdmin(e)
  BY DEF InitDb
<1>2. /\ Fit(e) /\ Shape(past, 34, e) /\ (at \in 32 .. 34 => Unmoved(db, e))
      /\ "users" \in DOMAIN e.tables /\ 34 # Unversioned
  BY <1>1, UpgradeLeaves
<1>3. /\ Fit(db') /\ db'.tables = e.tables /\ db'.types = e.types /\ db'.names = e.names
      /\ db'.filled = e.filled \cup {"users"}
  BY <1>1, <1>2, WithAdminIs
<1>4. Shape(past, 34, db')
  <2>1. 34 \in 0 .. 34
    OBVIOUS
  <2>2. QED
    BY <1>2, <1>3, <2>1, ShapeOfRows
<1>5. at' = 34 /\ past' = past /\ phase' = "down" /\ copy' = copy /\ copy.phase # "running"
  BY NewestIs DEF InitDb
<1>6. Sound' /\ Shaped' /\ Contained'
  BY <1>3, <1>4, <1>5, NewestIs DEF InitDb, DatabaseInv, Sound, Shaped, Contained, Unversioned
<1>7. CopySound' /\ Copied'
  BY <1>2, <1>3, <1>5, CopyRests DEF DatabaseInv, Copied, Unmoved
<1>8. QED
  BY <1>6, <1>7 DEF DatabaseInv

\* The next revision of the tables that were found, or the last undone.
LEMMA ReachedUp ==
  ASSUME NEW i \in 1 .. 34, NEW d, Fit(d), Reached(i - 1, d), UpOne(i, d).ok
  PROVE  /\ Fit(UpOne(i, d)) /\ Reached(i, UpOne(i, d))
         /\ i \in {33, 34} => Unmoved(d, UpOne(i, d))
<1>1. IsDb(d) /\ Sane(d) /\ Typed(i - 1, d) /\ d.users \in Users
  BY DEF Fit, Reached
<1>2. PICK lost \in Losses(i - 1) : d.tables = Stage(i - 1, lost)
  BY DEF Reached
<1>3. QED
  BY <1>1, <1>2, UpStage, UpKeeps, LateUp DEF Fit, Reached

\* One revision undone.
LEMMA ReachedDown ==
  ASSUME NEW i \in 1 .. 34, NEW d, Fit(d), Reached(i, d), DownOne(i, d).ok
  PROVE  /\ Fit(DownOne(i, d)) /\ Reached(i - 1, DownOne(i, d))
         /\ i \in {33, 34} => Unmoved(d, DownOne(i, d))
<1>1. IsDb(d) /\ Sane(d) /\ Typed(i, d) /\ d.users \in Users
  BY DEF Fit, Reached
<1>2. PICK lost \in Losses(i) : d.tables = Stage(i, lost)
  BY DEF Reached
<1>3. QED
  BY <1>1, <1>2, DownStage, DownKeeps, LateDown DEF Fit, Reached

\* A release is installed.
LEMMA UpgradeOneKeeps ==
  ASSUME DatabaseInv, UpgradeOne
  PROVE  DatabaseInv'
<1> DEFINE i == Applied + 1
<1>1. /\ i \in 1 .. 34 /\ past = "old" /\ at' = i /\ i # Unversioned /\ Applied = i - 1
      /\ at \in 32 .. 34 => at = i - 1 /\ i \in {33, 34}
  BY NewestIs DEF UpgradeOne, Applied, DatabaseInv, Sound, Unversioned
<1>2. UpOne(i, db).ok /\ db' = UpOne(i, db)
  BY DEF UpgradeOne
<1>3. Fit(db) /\ Reached(i - 1, db)
  <2>1. Reached(Applied, db)
    BY <1>1 DEF DatabaseInv, Shaped, Shape, Applied
  <2>2. QED
    BY <1>1, <2>1 DEF DatabaseInv, Sound
<1> HIDE DEF i
<1>4. Fit(db') /\ Reached(i, db') /\ (i \in {33, 34} => Unmoved(db, db'))
  BY <1>1, <1>2, <1>3, ReachedUp
<1>5. past' = past /\ phase' = "down" /\ copy' = copy /\ copy.phase # "running"
  BY DEF UpgradeOne
<1>6. Sound' /\ Contained'
  BY <1>1, <1>4, <1>5, NewestIs DEF UpgradeOne, DatabaseInv, Sound, Contained, Unversioned
<1>7. Shaped'
  BY <1>1, <1>4, <1>5 DEF Shaped, Shape
<1>8. CopySound' /\ Copied'
  BY <1>1, <1>4, <1>5, CopyRests DEF DatabaseInv, Copied, Unmoved
<1>9. QED
  BY <1>6, <1>7, <1>8 DEF DatabaseInv

\* A database that was marked without being migrated cannot be taken down: it has not the
\* column that the last revision added.
LEMMA StampedStays ==
  ASSUME NEW d, IsDb(d), d.tables = BaselineTables
  PROVE  ~DownOne(34, d).ok
<1> SUFFICES ASSUME DownOne(34, d).ok PROVE FALSE
  OBVIOUS
<1>1. PICK o : Revision(34, d).down = <<o>> /\ o = DropColumn("controls", "effort_days")
  BY DEF Revision, AddControlEffortDays, Adds
<1>2. Goes(d, o, DownOne(34, d))
  BY <1>1, OneOperation DEF DownOne
<1>3. o.op = "drop column" /\ o.t = "controls" /\ o.c = "effort_days"
  BY <1>1 DEF DropColumn
<1>4. HasColumn(d, "controls", "effort_days")
  BY <1>2, <1>3 DEF Goes, Possible
<1>5. d.tables["controls"] = Version("controls", 0)
  BY OldNames DEF Version, Old
<1>6. "effort_days" \notin Columns(d.tables["controls"])
  BY <1>5, VersionsOfControls DEF Columns, Table
<1>7. QED
  BY <1>4, <1>6 DEF HasColumn

\* An operator undoes a revision.
LEMMA DowngradeOneKeeps ==
  ASSUME DatabaseInv, DowngradeOne
  PROVE  DatabaseInv'
<1>1. /\ at \in 1 .. 34 /\ at' = at - 1 /\ at # Unversioned /\ at - 1 # Unversioned
      /\ Applied = at
  BY NewestIs DEF DowngradeOne, Applied, DatabaseInv, Sound, Unversioned
<1>2. DownOne(at, db).ok /\ db' = DownOne(at, db)
  BY DEF DowngradeOne
<1>3. Fit(db) /\ IsDb(db) /\ Sane(db)
  BY DEF DatabaseInv, Sound, Fit
<1>4. Fit(db') /\ (at \in {33, 34} => Unmoved(db, db'))
  <2>1. IsDb(db') /\ Sane(db') /\ db'.users = db.users /\ (at \in {33, 34} => Unmoved(db, db'))
    BY <1>1, <1>2, <1>3, DownKeeps, LateDown
  <2>2. QED
    BY <1>2, <1>3, <2>1 DEF Fit
<1>5. at # 32
  BY <1>2, <1>3, Refused
<1>6. Shape(past, at - 1, db')
  <2>1. CASE past = "old"
    <3>1. Reached(at, db)
      BY <1>1, <2>1 DEF DatabaseInv, Shaped, Shape
    <3>2. Reached(at - 1, db')
      BY <1>1, <1>2, <1>3, <3>1, ReachedDown
    <3>3. QED
      BY <1>1, <2>1, <3>2 DEF Shape
  <2>2. CASE past = "stamped"
    <3>1. at = 34 /\ db.tables = BaselineTables
      BY <2>2 DEF DatabaseInv, Shaped, Shape
    <3>2. QED
      BY <1>2, <1>3, <3>1, StampedStays
  <2>3. CASE past = "empty"
    <3>1. at \in {33, 34} /\ db.names = {} /\ db.tables = Stage(at, {}) /\ db.types = ModelTypes
      BY <1>1, <2>3 DEF DatabaseInv, Shaped, Shape
    <3>2. at = 34
      BY <1>2, <1>3, <3>1, LateDown
    <3>3. db'.names = {} /\ db'.tables = Stage(33, {}) /\ db'.types = ModelTypes
      BY <1>2, <1>3, <3>1, <3>2, LateDown, Down34
    <3>4. QED
      BY <2>3, <3>2, <3>3 DEF Shape
  <2>4. QED
    BY <2>1, <2>2, <2>3 DEF DatabaseInv, Sound
<1>7. /\ past' = past /\ phase' = phase /\ phase \in {"down", "serving"}
      /\ copy' = copy /\ copy.phase # "running"
  BY DEF DowngradeOne
<1>8. Shaped'
  BY <1>1, <1>6, <1>7 DEF Shaped
<1>9. Contained'
  BY <1>1, <1>7 DEF Contained
<1>10. Sound'
  BY <1>1, <1>4, <1>7, NewestIs, BoundsAssumption
     DEF DowngradeOne, DatabaseInv, Sound, Unversioned
<1>11. CopySound' /\ Copied'
  BY <1>1, <1>4, <1>5, <1>7, CopyRests DEF DatabaseInv, Copied, Unmoved
<1>12. QED
  BY <1>8, <1>9, <1>10, <1>11 DEF DatabaseInv

\* A step of the copy, field by field.
CopyIs(c, p, l, s, i, t) ==
  c = [phase |-> p, left |-> l, superuser |-> s, inserted |-> i, torn |-> t]

\* The fields of a copy.
LEMMA CopyFields ==
  ASSUME NEW c, NEW p, NEW l, NEW s, NEW i, NEW t, CopyIs(c, p, l, s, i, t)
  PROVE  /\ c.phase = p /\ c.left = l /\ c.superuser = s /\ c.inserted = i /\ c.torn = t
         /\ CopyIs(c, c.phase, c.left, c.superuser, c.inserted, c.torn)
BY DEF CopyIs

\* A copy that stops is torn if it had inserted a table.
LEMMA StoppedIs ==
  ASSUME CopySound
  PROVE  CopyIs(Stopped(copy), "failed", copy.left, copy.superuser, copy.inserted,
                copy.torn \/ copy.inserted)
<1>1. PICK c : c = copy
  OBVIOUS
<1>2. PICK e : e = [c EXCEPT !.phase = "failed"]
  OBVIOUS
<1>3. e = [phase |-> "failed", left |-> c.left, superuser |-> c.superuser,
           inserted |-> c.inserted, torn |-> c.torn]
  BY <1>1, <1>2 DEF CopySound
<1>4. PICK t : t = (copy.torn \/ copy.inserted)
  OBVIOUS
<1>5. Stopped(copy) = [e EXCEPT !.torn = t]
  BY <1>1, <1>2, <1>3, <1>4 DEF Stopped
<1>6. [e EXCEPT !.torn = t]
        = [phase |-> "failed", left |-> c.left, superuser |-> c.superuser,
           inserted |-> c.inserted, torn |-> t]
  BY <1>3
<1>7. QED
  BY <1>1, <1>4, <1>5, <1>6 DEF CopyIs

\* A copy begins, with the upgrade of its target.
LEMMA CopyStartKeeps ==
  ASSUME DatabaseInv, CopyStart
  PROVE  DatabaseInv'
<1>1. PICK e : e = UpToHead(Applied, db) /\ e.ok /\ db' = e
  BY DEF CopyStart
<1>2. /\ Fit(e) /\ Shape(past, 34, e) /\ (at \in 32 .. 34 => Unmoved(db, e))
      /\ "users" \in DOMAIN e.tables /\ 34 # Unversioned
  BY <1>1, UpgradeLeaves
<1>3. /\ at' = 34 /\ past' = past /\ phase' = "down" /\ copy.phase # "running"
  BY NewestIs DEF CopyStart
<1>4. Sound' /\ Shaped' /\ Contained'
  BY <1>1, <1>2, <1>3, NewestIs DEF CopyStart, DatabaseInv, Sound, Shaped, Contained, Unversioned
<1>5. PICK s \in BOOLEAN :
        CopyIs(copy', "running", TablesToMigrate(e), s, FALSE, copy.torn)
  <2>1. PICK s \in BOOLEAN :
          copy' = [copy EXCEPT !.phase = "running", !.superuser = s, !.inserted = FALSE,
                               !.left = TablesToMigrate(e)]
    BY <1>1 DEF CopyStart
  <2>2. PICK c, n, l : c = copy /\ n = FALSE /\ l = TablesToMigrate(e)
    OBVIOUS
  <2>3. PICK c1 : c1 = [c EXCEPT !.phase = "running"]
    OBVIOUS
  <2>4. c1 = [phase |-> "running", left |-> c.left, superuser |-> c.superuser,
              inserted |-> c.inserted, torn |-> c.torn]
    BY <2>2, <2>3 DEF DatabaseInv, CopySound
  <2>5. PICK c2 : c2 = [c1 EXCEPT !.superuser = s]
    OBVIOUS
  <2>6. c2 = [phase |-> "running", left |-> c.left, superuser |-> s,
              inserted |-> c.inserted, torn |-> c.torn]
    BY <2>4, <2>5
  <2>7. PICK c3 : c3 = [c2 EXCEPT !.inserted = n]
    OBVIOUS
  <2>8. c3 = [phase |-> "running", left |-> c.left, superuser |-> s, inserted |-> n,
              torn |-> c.torn]
    BY <2>6, <2>7
  <2>9. [c3 EXCEPT !.left = l]
          = [phase |-> "running", left |-> l, superuser |-> s, inserted |-> n, torn |-> c.torn]
    BY <2>8
  <2>10. copy' = [c3 EXCEPT !.left = l]
    BY <2>1, <2>2, <2>3, <2>5, <2>7
  <2>11. QED
    BY <2>2, <2>9, <2>10 DEF CopyIs
<1>6. /\ copy'.phase = "running" /\ copy'.left = TablesToMigrate(e) /\ copy'.inserted = FALSE
      /\ copy'.torn = copy.torn
      /\ copy' = [phase |-> copy'.phase, left |-> copy'.left, superuser |-> copy'.superuser,
                  inserted |-> copy'.inserted, torn |-> copy'.torn]
  BY <1>5, CopyFields DEF CopyIs
<1> DEFINE list == TablesToMigrate(e)
<1>7. /\ list \in Seq(Tables) /\ list # <<>> /\ Head(list) = "users"
      /\ ToSet(list) = (ToSet(MigrationOrder) \cap ToSet(SourceTables))
                       \cup (ToSet(SourceTables) \cap (DOMAIN e.tables \ ToSet(MigrationOrder)))
  BY ListIs
<1> HIDE DEF list
<1>8. CopySound'
  <2>1. ToSet(list) \subseteq DOMAIN e.tables \cup ToSet(MigrationOrder)
    BY <1>7
  <2>2. copy'.inserted \in BOOLEAN /\ copy'.torn \in BOOLEAN
    BY <1>6 DEF DatabaseInv, CopySound
  <2>3. QED
    BY <1>1, <1>6, <1>7, <2>1, <2>2 DEF CopySound, list
<1>9. Owed'
  <2>1. past # "stamped" => DOMAIN ModelTables \subseteq DOMAIN e.tables
    <3>1. CASE past = "old"
      <4>1. PICK lost \in Losses(34) : e.tables = Stage(34, lost)
        BY <1>2, <3>1 DEF Shape, Reached
      <4>2. QED
        BY <4>1, StageLast DEF Losses
    <3>2. CASE past = "empty"
      BY <1>2, <3>2, StageLast DEF Shape
    <3>3. QED
      BY <3>1, <3>2 DEF DatabaseInv, Sound
  <2>2. past # "stamped" => ToSet(SourceTables) \subseteq ToSet(list)
    BY <1>7, <2>1, ListsAre
  <2>3. "agents" \in ToSet(list)
    BY <1>7, ListsAre
  <2>4. QED
    BY <1>1, <1>3, <1>6, <2>2, <2>3 DEF Owed, list
<1>10. copy.torn => "users" \in e.filled
  <2>1. ASSUME copy.torn
        PROVE  "users" \in e.filled
    <3>1. "users" \in db.filled /\ at \in 32 .. 34
      BY <2>1 DEF DatabaseInv, Copied
    <3>2. QED
      BY <1>2, <3>1 DEF Unmoved
  <2>2. QED
    BY <2>1
<1>11. Copied'
  BY <1>1, <1>3, <1>6, <1>7, <1>9, <1>10, NewestIs DEF Copied, list, CopyStart
<1>12. QED
  BY <1>4, <1>8, <1>11 DEF DatabaseInv

\* The rows of one more table.
Filled(d, t, u) == [d EXCEPT !.filled = @ \cup {t}, !.users = u]

\* What filling a table changes.
LEMMA FilledIs ==
  ASSUME NEW d, Fit(d), NEW t, t \in DOMAIN d.tables, NEW u, u \in Users,
         NEW e, e = Filled(d, t, u)
  PROVE  /\ Fit(e) /\ e.tables = d.tables /\ e.types = d.types /\ e.names = d.names
         /\ e.filled = d.filled \cup {t}
<1> DEFINE filled == d.filled \cup {t}
<1>1. PICK c : c = d
  OBVIOUS
<1>2. PICK f : f = [c EXCEPT !.filled = filled]
  OBVIOUS
<1>3. e = [f EXCEPT !.users = u]
  BY <1>1, <1>2 DEF Filled
<1> HIDE DEF filled
<1>4. f = [tables |-> c.tables, types |-> c.types, names |-> c.names, ownerless |-> c.ownerless,
           filled |-> filled, users |-> c.users, ok |-> c.ok]
  BY <1>1, <1>2 DEF Fit, IsDb
<1>5. [f EXCEPT !.users = u]
        = [tables |-> c.tables, types |-> c.types, names |-> c.names, ownerless |-> c.ownerless,
           filled |-> filled, users |-> u, ok |-> c.ok]
  BY <1>4
<1>6. e = [tables |-> d.tables, types |-> d.types, names |-> d.names, ownerless |-> d.ownerless,
           filled |-> filled, users |-> u, ok |-> d.ok]
  BY <1>1, <1>3, <1>5
<1>7. /\ e.tables = d.tables /\ e.types = d.types /\ e.names = d.names /\ e.filled = filled
      /\ e.ownerless = d.ownerless /\ e.users = u /\ e.ok = d.ok
  BY <1>6
<1>8. IsDb(e)
  BY <1>6, <1>7 DEF IsDb
<1>9. Sane(e)
  BY <1>7 DEF Fit, Sane, filled
<1>10. QED
  BY <1>7, <1>8, <1>9 DEF Fit, filled

\* A table is copied, or refused.
LEMMA MigrateTableKeeps ==
  ASSUME DatabaseInv, MigrateTable
  PROVE  DatabaseInv'
<1> DEFINE t == Head(copy.left)
<1>1. /\ copy.phase = "running" /\ copy.left # <<>> /\ copy.left \in Seq(Tables)
      /\ phase = "down" /\ at = 34 /\ Owed /\ past \in {"empty", "old", "stamped"}
  BY NewestIs DEF MigrateTable, DatabaseInv, Copied, CopySound, Sound
<1>2. UNCHANGED <<at, phase, past, crashes, downs>>
  BY DEF MigrateTable
<1>3. CASE Inserts(t)
  <2>1. PICK u : u = IF t = "users" THEN "admin" ELSE db.users
    OBVIOUS
  <2>2. /\ t \in DOMAIN db.tables /\ t \notin db.filled /\ Fit(db) /\ u \in Users
    BY <1>3, <2>1 DEF Inserts, HasTable, DatabaseInv, Sound, Fit, Users
  <2>3. db' = Filled(db, t, u)
    BY <1>3, <2>1 DEF MigrateTable, Filled
  <2>4. /\ Fit(db') /\ db'.tables = db.tables /\ db'.types = db.types /\ db'.names = db.names
        /\ db'.filled = db.filled \cup {t}
    BY <2>2, <2>3, FilledIs
  <2>5. CopyIs(copy', "running", Tail(copy.left), copy.superuser, TRUE, copy.torn)
    <3>1. PICK c, y, l : c = copy /\ y = TRUE /\ l = Tail(copy.left)
      OBVIOUS
    <3>2. PICK c1 : c1 = [c EXCEPT !.left = l]
      OBVIOUS
    <3>3. c1 = [phase |-> c.phase, left |-> l, superuser |-> c.superuser,
                inserted |-> c.inserted, torn |-> c.torn]
      BY <3>1, <3>2 DEF DatabaseInv, CopySound
    <3>4. copy' = [c1 EXCEPT !.inserted = y]
      BY <1>3, <3>1, <3>2 DEF MigrateTable
    <3>5. [c1 EXCEPT !.inserted = y]
            = [phase |-> c.phase, left |-> l, superuser |-> c.superuser, inserted |-> y,
               torn |-> c.torn]
      BY <3>3
    <3>6. QED
      BY <1>1, <3>1, <3>4, <3>5 DEF CopyIs
  <2>6. /\ copy'.phase = "running" /\ copy'.left = Tail(copy.left) /\ copy'.inserted = TRUE
        /\ copy'.torn = copy.torn
        /\ copy' = [phase |-> copy'.phase, left |-> copy'.left, superuser |-> copy'.superuser,
                    inserted |-> copy'.inserted, torn |-> copy'.torn]
    BY <2>5, CopyFields DEF CopyIs
  <2>7. Tail(copy.left) \in Seq(Tables) /\ ToSet(copy.left) = ToSet(Tail(copy.left)) \cup {t}
    <3>1. PICK s \in Seq(Tables) : s = copy.left /\ s # <<>>
      BY <1>1
    <3>2. /\ Tail(s) \in Seq(Tables) /\ Len(Tail(s)) = Len(s) - 1
          /\ \A i \in 1 .. Len(Tail(s)) : Tail(s)[i] = s[i + 1]
      <4>1. s \in Seq(Tables) /\ s # <<>> /\ Len(s) \in Nat \ {0}
        BY <3>1
      <4>2. Tail(s) \in Seq(Tables) /\ Len(Tail(s)) = Len(s) - 1
        BY <4>1
      <4>3. \A i \in 1 .. (Len(s) - 1) : Tail(s)[i] = s[i + 1]
        BY <4>1
      <4>4. QED
        BY <4>2, <4>3
    <3>3. Len(s) \in Nat /\ Len(s) > 0 /\ DOMAIN s = 1 .. Len(s) /\ DOMAIN Tail(s)
            = 1 .. Len(Tail(s))
      BY <3>1, <3>2
    <3>4. ToSet(Tail(s)) \subseteq ToSet(s)
      BY <3>2, <3>3 DEF ToSet
    <3>5. Head(s) \in ToSet(s) /\ Head(s) = s[1]
      BY <3>3 DEF ToSet
    <3>6. ASSUME NEW i \in 1 .. Len(s)
          PROVE  s[i] \in ToSet(Tail(s)) \cup {Head(s)}
      <4>1. CASE i = 1
        BY <3>5, <4>1
      <4>2. CASE i # 1
        <5>1. i - 1 \in 1 .. Len(Tail(s)) /\ (i - 1) + 1 = i
          BY <3>2, <3>3, <4>2
        <5>2. QED
          BY <3>2, <3>3, <5>1 DEF ToSet
      <4>3. QED
        BY <4>1, <4>2
    <3>7. ToSet(s) \subseteq ToSet(Tail(s)) \cup {Head(s)}
      BY <3>3, <3>6 DEF ToSet
    <3>8. QED
      BY <3>1, <3>2, <3>4, <3>5, <3>7
  <2>8. Shaped'
    <3>1. Shape(past, at, db)
      BY DEF DatabaseInv, Shaped
    <3>2. at \in 0 .. 34
      BY <1>1
    <3>3. Shape(past, at, db')
      BY <2>4, <3>1, <3>2, ShapeOfRows
    <3>4. QED
      BY <1>2, <3>3 DEF Shaped
  <2>9. Sound' /\ Contained'
    BY <1>1, <1>2, <2>4 DEF DatabaseInv, Sound, Contained
  <2>10. CopySound'
    <3>1. ToSet(copy.left) \subseteq DOMAIN db.tables \cup ToSet(MigrationOrder)
      BY DEF DatabaseInv, CopySound
    <3>2. copy'.torn \in BOOLEAN
      BY <2>6 DEF DatabaseInv, CopySound
    <3>3. QED
      BY <2>4, <2>6, <2>7, <3>1, <3>2 DEF CopySound
  <2>11. Owed'
    <3>1. CASE past = "stamped"
      <4>1. db.tables = BaselineTables
        BY <3>1 DEF DatabaseInv, Shaped, Shape
      <4>2. t # "agents"
        BY <2>2, <4>1, OldNames
      <4>3. QED
        BY <1>1, <1>2, <2>6, <2>7, <3>1, <4>2 DEF Owed
    <3>2. CASE past # "stamped"
      BY <1>1, <1>2, <2>4, <2>6, <2>7, <3>2 DEF Owed
    <3>3. QED
      BY <3>1, <3>2
  <2>12. ~copy.torn /\ "users" \in db'.filled
    <3>1. CASE copy.inserted
      BY <1>1, <2>4, <3>1 DEF DatabaseInv, Copied
    <3>2. CASE ~copy.inserted
      <4>1. t = "users"
        BY <1>1, <3>2 DEF DatabaseInv, Copied
      <4>2. QED
        BY <2>2, <2>4, <4>1 DEF DatabaseInv, Copied
    <3>3. QED
      BY <3>1, <3>2
  <2>13. Copied'
    BY <1>1, <1>2, <2>6, <2>11, <2>12, NewestIs DEF Copied
  <2>14. QED
    BY <2>8, <2>9, <2>10, <2>13 DEF DatabaseInv
<1>4. CASE ~Inserts(t)
  <2>1. copy' = Stopped(copy) /\ db' = db
    BY <1>4 DEF MigrateTable
  <2>2. CopySound
    BY DEF DatabaseInv
  <2>3. /\ copy'.phase = "failed" /\ copy'.left = copy.left /\ copy'.inserted = copy.inserted
        /\ copy'.torn = (copy.torn \/ copy.inserted)
        /\ copy' = [phase |-> copy'.phase, left |-> copy'.left, superuser |-> copy'.superuser,
                    inserted |-> copy'.inserted, torn |-> copy'.torn]
    BY <2>1, <2>2, StoppedIs, CopyFields DEF CopyIs
  <2>4. Sound' /\ Shaped' /\ Contained'
    BY <1>2, <2>1 DEF DatabaseInv, Sound, Shaped, Contained
  <2>5. CopySound'
    BY <2>1, <2>2, <2>3 DEF CopySound
  <2>6. Copied'
    BY <1>1, <1>2, <2>1, <2>3 DEF DatabaseInv, Copied
  <2>7. QED
    BY <2>4, <2>5, <2>6 DEF DatabaseInv
<1>5. QED
  BY <1>3, <1>4

\* The copy is killed,
LEMMA CopyKilledKeeps ==
  ASSUME DatabaseInv, CopyKilled
  PROVE  DatabaseInv'
<1>1. /\ copy.phase = "running" /\ phase = "down" /\ at = 34
      /\ copy' = Stopped(copy) /\ UNCHANGED <<db, at, phase, past, downs>>
  BY NewestIs DEF CopyKilled, DatabaseInv, Copied
<1>2. CopySound
  BY DEF DatabaseInv
<1>3. /\ copy'.phase = "failed" /\ copy'.left = copy.left /\ copy'.inserted = copy.inserted
      /\ copy'.torn = (copy.torn \/ copy.inserted)
      /\ copy' = [phase |-> copy'.phase, left |-> copy'.left, superuser |-> copy'.superuser,
                  inserted |-> copy'.inserted, torn |-> copy'.torn]
  BY <1>1, <1>2, StoppedIs, CopyFields DEF CopyIs
<1>4. Sound' /\ Shaped' /\ Contained'
  BY <1>1, BoundsAssumption DEF CopyKilled, DatabaseInv, Sound, Shaped, Contained
<1>5. CopySound'
  BY <1>1, <1>2, <1>3 DEF CopySound
<1>6. Copied'
  BY <1>1, <1>3 DEF DatabaseInv, Copied
<1>7. QED
  BY <1>4, <1>5, <1>6 DEF DatabaseInv

\* or ends.
LEMMA CopyEndKeeps ==
  ASSUME DatabaseInv, CopyEnd
  PROVE  DatabaseInv'
<1>1. /\ copy.phase = "running" /\ copy.left = <<>> /\ at = 34 /\ Owed
      /\ copy' = [copy EXCEPT !.phase = "done"]
      /\ UNCHANGED <<db, at, phase, past, crashes, downs>>
  BY NewestIs DEF CopyEnd, DatabaseInv, Copied
<1>2. CopyIs(copy', "done", copy.left, copy.superuser, copy.inserted, copy.torn)
  <2>1. PICK c : c = copy
    OBVIOUS
  <2>2. c = [phase |-> c.phase, left |-> c.left, superuser |-> c.superuser,
             inserted |-> c.inserted, torn |-> c.torn]
    BY <2>1 DEF DatabaseInv, CopySound
  <2>3. [c EXCEPT !.phase = "done"]
          = [phase |-> "done", left |-> c.left, superuser |-> c.superuser,
             inserted |-> c.inserted, torn |-> c.torn]
    BY <2>2
  <2>4. QED
    BY <1>1, <2>1, <2>3 DEF CopyIs
<1>3. /\ copy'.phase = "done" /\ copy'.left = copy.left /\ copy'.inserted = copy.inserted
      /\ copy'.torn = copy.torn
      /\ copy' = [phase |-> copy'.phase, left |-> copy'.left, superuser |-> copy'.superuser,
                  inserted |-> copy'.inserted, torn |-> copy'.torn]
  BY <1>2, CopyFields DEF CopyIs
<1>4. ToSet(copy.left) = {}
  BY <1>1 DEF ToSet
<1>5. copy.inserted /\ ~copy.torn
  BY <1>1 DEF DatabaseInv, Copied
<1>6. ToSet(SourceTables) \subseteq db.filled
  BY <1>1, <1>4 DEF Owed
<1>7. Sound' /\ Shaped' /\ Contained'
  BY <1>1 DEF DatabaseInv, Sound, Shaped, Contained
<1>8. CopySound'
  BY <1>1, <1>3 DEF DatabaseInv, CopySound
<1>9. Copied'
  BY <1>1, <1>3, <1>5, <1>6 DEF Copied
<1>10. QED
  BY <1>7, <1>8, <1>9 DEF DatabaseInv

\* Every step keeps the invariant.
LEMMA NextInv ==
  ASSUME DatabaseInv, [DatabaseNext]_databaseVars
  PROVE  DatabaseInv'
<1>1. CASE UNCHANGED databaseVars
  BY <1>1 DEF databaseVars, DatabaseInv, Sound, Shaped, Contained, CopySound, Copied, Owed
<1>2. CASE Entrypoint
  BY <1>2, StartEmptyKeeps, StampKeeps, UpgradeKeeps, ServeKeeps, CrashKeeps DEF Entrypoint
<1>3. CASE Crash
  BY <1>3, CrashKeeps
<1>4. CASE InitDb \/ UpgradeOne \/ DowngradeOne
  BY <1>4, InitDbKeeps, UpgradeOneKeeps, DowngradeOneKeeps
<1>5. CASE CopyStart \/ Copying \/ CopyKilled
  BY <1>5, CopyStartKeeps, MigrateTableKeeps, CopyEndKeeps, CopyKilledKeeps DEF Copying
<1>6. QED
  BY <1>1, <1>2, <1>3, <1>4, <1>5 DEF DatabaseNext

\* The invariant of the database: its tables are at the stage of the revision that alembic
\* has recorded, or are those it was found with or created with; a copy that stopped midway
\* has left users behind.
THEOREM DatabaseInvariant == DatabaseSpec => []DatabaseInv
<1>1. DatabaseInit => DatabaseInv
  BY InitInv
<1>2. DatabaseInv /\ [DatabaseNext]_databaseVars => DatabaseInv'
  BY NextInv
<1>3. QED
  BY <1>1, <1>2, PTL DEF DatabaseSpec

\* Type correctness of the database, the container and the copy.
THEOREM DatabaseTypeCorrect == DatabaseSpec => []DatabaseTypes
<1>1. DatabaseInv => DatabaseTypes
  <2>1. SUFFICES ASSUME DatabaseInv PROVE DatabaseTypes
    OBVIOUS
  <2>2. Sound /\ CopySound
    BY <2>1 DEF DatabaseInv
  <2>3. db.ok /\ db.users \in Users /\ db.ownerless \subseteq db.filled
        /\ db.filled \subseteq DOMAIN db.tables
    BY <2>2 DEF Sound, Fit, Sane
  <2>4. QED
    BY <2>2, <2>3 DEF DatabaseTypes, Sound, CopySound
<1>2. QED
  BY <1>1, DatabaseInvariant, PTL

\* A container that began with an empty database never finds one it cannot upgrade, whatever
\* kills and the operator's commands came between.
THEOREM EmptyDatabaseIsServed == DatabaseSpec => []EmptyIsServed
<1>1. DatabaseInv => EmptyIsServed
  BY DEF DatabaseInv, Contained, EmptyIsServed
<1>2. QED
  BY <1>1, DatabaseInvariant, PTL

\* A copy from SQLite that reports success has copied every table, and none that stopped
\* midway is taken for one.
THEOREM CopiesAreWhole == DatabaseSpec => []CopyIsWhole
<1>1. DatabaseInv => CopyIsWhole
  BY DEF DatabaseInv, Copied, CopyIsWhole
<1>2. QED
  BY <1>1, DatabaseInvariant, PTL

\* Whenever the last revision is recorded, the tables and the labels are those of the models,
\* but for the status of a finding.
LEMMA LastIsModel == DatabaseInv => HeadIsModel
<1> SUFFICES ASSUME DatabaseInv, at = 34, past # "stamped"
             PROVE  /\ db.tables = ModelTables
                    /\ \A n \in DOMAIN ModelTypes :
                         IF n = "findingstatus" /\ past = "old" THEN n \in DOMAIN db.types
                                                               ELSE Named(n)
  BY NewestIs DEF HeadIsModel
<1>1. 34 # Unversioned
  BY DEF Unversioned
<1>2. DOMAIN ModelTypes
        = {"monkey365scanstatus", "findingstatus", "pipelinestatus", "pipelinestepstatus"}
  BY DEF ModelTypes
<1>3. CASE past = "old"
  <2>1. Reached(34, db)
    BY <1>1, <1>3 DEF DatabaseInv, Shaped, Shape
  <2>2. db.tables = ModelTables
    BY <2>1, StageLast DEF Reached, Losses
  <2>3. /\ "findingstatus" \in DOMAIN db.types /\ Labelled(db.types, "monkey365scanstatus")
        /\ Labelled(db.types, "pipelinestatus") /\ Labelled(db.types, "pipelinestepstatus")
    BY <2>1 DEF Reached, Typed
  <2>4. QED
    BY <1>2, <1>3, <2>2, <2>3 DEF Labelled, Named
<1>4. CASE past = "empty"
  <2>1. db.tables = ModelTables /\ db.types = ModelTypes
    BY <1>1, <1>4, StageLast DEF DatabaseInv, Shaped, Shape
  <2>2. QED
    BY <1>4, <2>1 DEF Named
<1>5. QED
  BY <1>3, <1>4 DEF DatabaseInv, Sound

\* Undoing the revision just applied gives the tables and the types back, but for those that
\* look before they create and, for the types, that of the findings.
LEMMA UndoneAsItWas ==
  ASSUME DatabaseInv, UpgradeOne, History[at'] \notin Looks, DownOne(at', db').ok
  PROVE  /\ DownOne(at', db').tables = db.tables
         /\ DownOne(at', db').types = db.types \/ History[at'] = "3a7f2c8d1e90"
<1> DEFINE i == Applied + 1
<1>1. i \in 1 .. 34 /\ past = "old" /\ at' = i /\ Applied = i - 1
  BY NewestIs DEF UpgradeOne, Applied, DatabaseInv, Sound, Unversioned
<1>2. UpOne(i, db).ok /\ db' = UpOne(i, db)
  BY DEF UpgradeOne
<1>3. Fit(db) /\ Reached(i - 1, db)
  <2>1. Reached(Applied, db)
    BY <1>1 DEF DatabaseInv, Shaped, Shape, Applied
  <2>2. QED
    BY <1>1, <2>1 DEF DatabaseInv, Sound
<1> HIDE DEF i
<1>4. i # 7
  <2>1. History[7] = "007"
    BY DEF History
  <2>2. QED
    BY <1>1, <2>1 DEF Looks
<1>5. IsDb(db) /\ Sane(db) /\ Typed(i - 1, db)
  BY <1>3 DEF Fit, Reached
<1>6. PICK lost \in Losses(i - 1) : db.tables = Stage(i - 1, lost)
  BY <1>3 DEF Reached
<1>7. UpLost(i, lost) = lost /\ DownLost(i, lost) = lost
  BY <1>4 DEF UpLost, DownLost
<1>8. IsDb(db') /\ Typed(i, db') /\ db'.tables = Stage(i, lost) /\ lost \in Losses(i)
  BY <1>1, <1>2, <1>5, <1>6, <1>7, UpStage, UpKeeps
<1>9. DownOne(i, db').tables = Stage(i - 1, lost)
  BY <1>1, <1>7, <1>8, DownStage
<1>10. CASE i = 28
  BY <1>1, <1>6, <1>9, <1>10 DEF History
<1>11. CASE i = 30
  <2>1. PipelinesTyped(db.types, db'.types)
    BY <1>1, <1>2, <1>5, <1>6, <1>11, UpTables DEF Typed, Labelled, Monkeyed
  <2>2. DownOne(i, db').types = Cut(Cut(db'.types, "pipelinestatus"), "pipelinestepstatus")
    BY <1>1, <1>8, <1>11, DownTables
  <2>3. IsFun(db.types)
    BY <1>5 DEF Typed
  <2>4. QED
    BY <1>1, <1>6, <1>9, <2>1, <2>2, <2>3, PipelinesUndone
<1>12. CASE i \notin {28, 30}
  <2>1. db'.types = db.types
    BY <1>1, <1>2, <1>5, <1>6, <1>12, UpTables DEF Typed, Labelled, Monkeyed
  <2>2. DownOne(i, db').types = db'.types
    BY <1>1, <1>8, <1>12, DownTables
  <2>3. QED
    BY <1>1, <1>6, <1>9, <2>1, <2>2
<1>13. QED
  BY <1>10, <1>11, <1>12

\* Whenever alembic has recorded the last revision the tables and the labels are those of the
\* models, but for the status of a finding where there were tables at the first start, unless
\* they were marked without being migrated; and undoing the revision just applied, where
\* alembic can, gives the tables and the types back as they were, but for the four that look
\* first and the type of the findings.
THEOREM EveryRevisionHolds == DatabaseSpec => RevisionsHold
<1> DEFINE Undone == UpgradeOne /\ History[at'] \notin Looks =>
                       LET e == DownOne(at', db')
                       IN  e.ok => /\ e.tables = db.tables
                                   /\ e.types = db.types \/ History[at'] = "3a7f2c8d1e90"
<1>1. DatabaseInv /\ DatabaseInv' /\ [DatabaseNext]_databaseVars
        => [HeadIsModel' /\ Undone]_databaseVars
  <2>1. SUFFICES ASSUME DatabaseInv, DatabaseInv'
                 PROVE  HeadIsModel' /\ Undone
    OBVIOUS
  <2>2. HeadIsModel'
    BY <2>1, LastIsModel, PTL
  <2>3. QED
    BY <2>1, <2>2, UndoneAsItWas
<1>2. QED
  BY <1>1, DatabaseInvariant, PTL DEF DatabaseSpec, RevisionsHold

=============================================================================

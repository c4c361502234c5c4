------------------------------ MODULE FileStore ------------------------------
(***************************************************************************)
(* The files joined to the results of controls and to the tasks of agents, *)
(* the encrypted columns of the database, and the two secrets they are     *)
(* under: FILE_ENCRYPTION_KEY, which wraps the key of each file, and       *)
(* ENCRYPTION_KEY, which encrypts the columns.                             *)
(*                                                                         *)
(* A file is on the disk before its row is committed, and off the disk     *)
(* before its row is deleted.  The process of the backend has the keys it  *)
(* was started with; the rotation is a process of its own, which has those *)
(* of the environment at its start.  The directory is the one the          *)
(* deployment mounts, common to the attachments and to the blobs.          *)
(*                                                                         *)
(* A file is known by whether it is on the disk and by the key its own key *)
(* is wrapped with; a column by the key its value is under.  Left out: the *)
(* mode of development without keys, which production refuses to start in, *)
(* and who may read what.                                                  *)
(***************************************************************************)
EXTENDS Naturals, FiniteSets

CONSTANTS Files,      \* what uploads can name: each name is used once
          Cells,      \* the values of the encrypted columns
          Keys,       \* the values the secrets take
          Requests,
          MaxChanges  \* bound on the changes of the environment

\* What stands for no key and no file is neither, and a key told wrong is none
\* of the keys in use.
ASSUME NamesAssumption == "none" \notin Keys \cup Files /\ "other" \notin Keys
ASSUME ChangesAssumption == MaxChanges \in Nat

VARIABLES row,       \* file -> its row, committed
          disk,      \* the files that are on the disk
          cell,      \* column -> the key its value is under, or None
          env,       \* the secrets the environment gives to a new process
          backend,   \* the secrets of the process, or Down
          request,   \* request -> the row it writes or deletes at its commit
          rotation,  \* the rotation under way
          held,      \* the secrets of the last rotation that was committed
          careful,   \* no rotation met a backend, no backend other secrets than held
          orphans,   \* history: the files whose row was refused, or deleted without them
          unlinked,  \* history: the files of deletions that went no further
          changes

cuts == <<orphans, unlinked>>
vars == <<row, disk, cell, env, backend, request, rotation, held, careful, cuts, changes>>

None == "none"

Secrets == [kek : Keys, enc : Keys]

\* What a rotation is told to be the old secrets, rightly or not.
Other == "other"
Told == [kek : Keys \cup {Other}, enc : Keys \cup {Other}]

Down == [kek |-> None, enc |-> None]

\* An attachment of the first interface is not encrypted.
Row == [kind : {"attachment"}, under : {None}] \cup [kind : {"blob", "artifact"}, under : Keys]

NoRow == [kind |-> None, under |-> None]

Idle == [doing |-> None, of |-> None, row |-> NoRow]

Still == [phase |-> None, types |-> {}, old |-> Down, new |-> Down, deks |-> {}, cells |-> {},
          seen |-> {}]

Up == backend # Down

Wrapped(f) == row[f].kind = "blob"

\* The download of a file, and the load of a row with an encrypted column.
Opens(key, f) == row[f].under \in {None, key}

Decrypts(key, c) == cell[c] \in {None, key}

\* The files of the requests under way.
Begun(doing) == {request[r].of : r \in {q \in Requests : request[q].doing = doing}}

Fresh(f) ==
  /\ row[f] = NoRow
  /\ f \notin disk \cup orphans \cup unlinked
  /\ \A r \in Requests : request[r].of # f

Init ==
  /\ row = [f \in Files |-> NoRow]
  /\ disk = {}
  /\ cell = [c \in Cells |-> None]
  /\ env \in Secrets
  /\ backend = Down
  /\ request = [r \in Requests |-> Idle]
  /\ rotation = Still
  /\ held = env
  /\ careful = TRUE
  /\ orphans = {}
  /\ unlinked = {}
  /\ changes = 0

-----------------------------------------------------------------------------
\* The requests.

Upload(r, f, new) ==
  /\ Up
  /\ request[r] = Idle
  /\ Fresh(f)
  /\ disk' = disk \cup {f}
  /\ request' = [request EXCEPT ![r] = [doing |-> "save", of |-> f, row |-> new]]
  /\ UNCHANGED <<row, cell, cuts>>

UploadAttachment(r, f) == Upload(r, f, [kind |-> "attachment", under |-> None])

\* The key of the file is wrapped with the secret of the process.
UploadFile(r, f) == Upload(r, f, [kind |-> "blob", under |-> backend.kek])

UploadArtifact(r, f) == Upload(r, f, [kind |-> "artifact", under |-> backend.kek])

SaveRow(r) ==
  LET q == request[r]
  IN  /\ q.doing = "save"
      /\ row' = [row EXCEPT ![q.of] = q.row]
      /\ request' = [request EXCEPT ![r] = Idle]
      /\ UNCHANGED <<disk, cell, cuts>>

\* The result or the task was deleted meanwhile, or the commit is refused: the file
\* stays.
SaveFails(r) ==
  LET q == request[r]
  IN  /\ q.doing = "save"
      /\ orphans' = orphans \cup {q.of}
      /\ request' = [request EXCEPT ![r] = Idle]
      /\ UNCHANGED <<row, disk, cell, unlinked>>

\* Mutant: the path of the file is not the one it was written to.
UnlinkNothing(r, f) ==
  /\ Up
  /\ request[r] = Idle
  /\ row[f].kind \in {"attachment", "blob"}
  /\ request' = [request EXCEPT ![r] = [doing |-> "delete", of |-> f, row |-> NoRow]]
  /\ UNCHANGED <<row, disk, cell, cuts>>

\* By either interface; a file that is already gone is no error.
Unlink(r, f) ==
  /\ Up
  /\ request[r] = Idle
  /\ row[f].kind \in {"attachment", "blob"}
  /\ disk' = disk \ {f}
  /\ request' = [request EXCEPT ![r] = [doing |-> "delete", of |-> f, row |-> NoRow]]
  /\ UNCHANGED <<row, cell, cuts>>

\* Of two deletions the second finds no row: it fails and changes nothing.
DeleteRow(r) ==
  LET q == request[r]
  IN  /\ q.doing = "delete"
      /\ row' = [row EXCEPT ![q.of] = NoRow]
      /\ unlinked' = unlinked \ {q.of}
      /\ request' = [request EXCEPT ![r] = Idle]
      /\ UNCHANGED <<disk, cell, orphans>>

\* The commit is refused: the row is there again, the file is not.
DeleteFails(r) ==
  LET q == request[r]
  IN  /\ q.doing = "delete"
      /\ unlinked' = unlinked \cup {q.of}
      /\ request' = [request EXCEPT ![r] = Idle]
      /\ UNCHANGED <<row, disk, cell, orphans>>

\* A deletion that goes down the relations takes the row of a file, not the file.
Cascade(f) ==
  /\ Up
  /\ row' = [row EXCEPT ![f] = NoRow]
  /\ orphans' = orphans \cup ({f} \cap disk)
  /\ UNCHANGED <<disk, cell, request, unlinked>>

DeleteResult(f) == row[f].kind \in {"attachment", "blob"} /\ Cascade(f)

DeleteTask(f) == row[f].kind = "artifact" /\ Cascade(f)

\* A row is loaded whole: what is under another key cannot be written either.
WriteCell(c) ==
  /\ Up
  /\ Decrypts(backend.enc, c)
  /\ \E k \in {None, backend.enc} : cell' = [cell EXCEPT ![c] = k]
  /\ UNCHANGED <<row, disk, request, cuts>>

-----------------------------------------------------------------------------
\* The rotation: one transaction, which any error undoes.

Of(types, secrets) == [t \in {"kek", "enc"} |-> IF t \in types THEN secrets[t] ELSE None]

Rotate(types, old) ==
  /\ rotation = Still
  /\ \A t \in types : old[t] # env[t]
  /\ rotation' = [Still EXCEPT !.phase = IF "kek" \in types THEN "kek" ELSE "columns",
                               !.types = types, !.old = Of(types, old), !.new = Of(types, env)]
  /\ careful' = (careful /\ ~Up)
  /\ UNCHANGED <<row, cell, held>>

RotationFails ==
  /\ rotation' = Still
  /\ UNCHANGED <<row, cell, held, careful>>

\* Mutant: the files that the old key does not open are passed over.
RotateKekPasses ==
  LET deks == {f \in Files : Wrapped(f)}
  IN  /\ rotation.phase = "kek"
      /\ rotation' = [rotation EXCEPT !.phase = "columns",
                                      !.deks = {f \in deks : row[f].under = rotation.old.kek}]
      /\ UNCHANGED <<row, cell, held, careful>>

\* The rows of attachments are the only ones that are read.
RotateKek ==
  LET deks == {f \in Files : Wrapped(f)}
  IN  /\ rotation.phase = "kek"
      /\ IF \A f \in deks : Opens(rotation.old.kek, f)
         THEN /\ rotation' = [rotation EXCEPT !.phase = "columns", !.deks = deks]
              /\ UNCHANGED <<row, cell, held, careful>>
         ELSE RotationFails

RotateColumn(c) ==
  /\ rotation.phase = "columns"
  /\ "enc" \in rotation.types
  /\ c \notin rotation.seen
  /\ IF Decrypts(rotation.old.enc, c)
     THEN /\ rotation' = [rotation EXCEPT !.seen = @ \cup {c},
                                          !.cells = IF cell[c] = None THEN @ ELSE @ \cup {c}]
          /\ UNCHANGED <<row, cell, held, careful>>
     ELSE RotationFails

Rotated == [t \in {"kek", "enc"} |-> IF t \in rotation.types THEN rotation.new[t] ELSE held[t]]

\* A row read and since deleted makes the update of the files fail, not that of
\* a column.
CommitRotation ==
  /\ rotation.phase = "columns"
  /\ "enc" \in rotation.types => rotation.seen = Cells
  /\ IF \A f \in rotation.deks : Wrapped(f)
     THEN /\ row' = [f \in Files |-> IF f \in rotation.deks
                                     THEN [row[f] EXCEPT !.under = rotation.new.kek]
                                     ELSE row[f]]
          /\ cell' = [c \in Cells |-> IF c \in rotation.cells /\ cell[c] # None
                                      THEN rotation.new.enc
                                      ELSE cell[c]]
          /\ held' = Rotated
          /\ rotation' = Still
          /\ UNCHANGED careful
     ELSE RotationFails

-----------------------------------------------------------------------------
\* The operator.

ChangeKeys ==
  /\ changes < MaxChanges
  /\ changes' = changes + 1
  /\ \E keys \in Secrets \ {env} : env' = keys
  /\ UNCHANGED <<row, disk, cell, backend, request, rotation, held, careful, cuts>>

Start ==
  /\ ~Up
  /\ backend' = env
  /\ careful' = (careful /\ env = held /\ rotation = Still)
  /\ UNCHANGED <<row, disk, cell, env, request, rotation, held, cuts, changes>>

\* Mutant: the transactions of the requests outlive the process.
StopKeepsRequests ==
  /\ Up
  /\ backend' = Down
  /\ UNCHANGED <<row, disk, cell, env, request, rotation, held, careful, cuts, changes>>

\* What requests had begun is cut.
Stop ==
  /\ Up
  /\ backend' = Down
  /\ orphans' = orphans \cup Begun("save")
  /\ unlinked' = unlinked \cup Begun("delete")
  /\ request' = [r \in Requests |-> Idle]
  /\ UNCHANGED <<row, disk, cell, env, rotation, held, careful, changes>>

RequestStep ==
  /\ \/ \E r \in Requests, f \in Files : \/ UploadAttachment(r, f)
                                         \/ UploadFile(r, f)
                                         \/ UploadArtifact(r, f)
                                         \/ Unlink(r, f)
     \/ \E r \in Requests : SaveRow(r) \/ SaveFails(r) \/ DeleteRow(r) \/ DeleteFails(r)
     \/ \E f \in Files : DeleteResult(f) \/ DeleteTask(f)
     \/ \E c \in Cells : WriteCell(c)
  /\ UNCHANGED <<env, backend, rotation, held, careful, changes>>

\* A dry run, and a rotation that is killed, end as one that failed.
RotationStep ==
  /\ \/ \E types \in SUBSET {"kek", "enc"} \ {{}}, old \in Told : Rotate(types, old)
     \/ RotateKek
     \/ \E c \in Cells : RotateColumn(c)
     \/ CommitRotation
     \/ rotation # Still /\ RotationFails
  /\ UNCHANGED <<disk, env, backend, request, cuts, changes>>

Next == RequestStep \/ RotationStep \/ ChangeKeys \/ Start \/ Stop

Spec == Init /\ [][Next]_vars

-----------------------------------------------------------------------------
(***************************************************************************)
(* Types; no request without a process, and what it saves has its file but *)
(* no row yet.                                                             *)
(***************************************************************************)
TypeOK ==
  /\ row \in [Files -> Row \cup {NoRow}]
  /\ disk \subseteq Files
  /\ cell \in [Cells -> Keys \cup {None}]
  /\ env \in Secrets
  /\ backend \in Secrets \cup {Down}
  /\ \A r \in Requests :
       /\ request[r].doing \in {None, "save", "delete"}
       /\ request[r] # Idle => Up
       /\ request[r].doing = "save" => request[r].of \in disk /\ row[request[r].of] = NoRow
  /\ rotation.deks \subseteq Files
  /\ rotation.cells \subseteq rotation.seen
  /\ held \in Secrets
  /\ careful \in BOOLEAN
  /\ orphans \subseteq Files
  /\ unlinked \subseteq Files

(***************************************************************************)
(* As long as rotations are made with the backend stopped, and the backend *)
(* is started with the secrets of the last one that succeeded, every file  *)
(* and every column is under those secrets: a rotation given a wrong key,  *)
(* killed or failed half way, for one secret or for both, leaves nothing   *)
(* behind that the backend cannot read (run_rotation, one transaction).    *)
(***************************************************************************)
CarefulIsReadable ==
  careful => /\ \A f \in Files : row[f].kind # "artifact" => Opens(held.kek, f)
             /\ \A c \in Cells : Decrypts(held.enc, c)

(***************************************************************************)
(* A row without its file is that of a deletion: one under way, or one cut *)
(* or refused after the unlink and not repeated since. A file without its  *)
(* row is that of an upload under way, cut or refused, or of a row deleted *)
(* with its result or its task. So an upload never commits a row without   *)
(* its file, and a deletion that ends leaves neither (upload_file,         *)
(* delete_file, upload_attachment, delete_attachment, upload_artifact,     *)
(* whatever their order and the rotations).                                *)
(***************************************************************************)
RowsHaveFiles ==
  \A f \in Files :
    /\ row[f] # NoRow /\ f \notin disk => f \in unlinked \cup Begun("delete")
    /\ f \in disk /\ row[f] = NoRow => f \in orphans \cup Begun("save")

=============================================================================

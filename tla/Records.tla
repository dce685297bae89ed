------------------------------ MODULE Records -------------------------------
(***************************************************************************)
(* The database behind the REST API: applications, clusters and repos      *)
(* (app_repo.rs, cluster_repo.rs, repo_repo.rs), the tables that reference *)
(* an application (sync_history_repo.rs, sync_revisions_repo.rs,           *)
(* owned_resources_repo.rs), the handlers that edit them (api/apps.rs,     *)
(* api/clusters.rs, api/repos.rs), the status writer's statements and the  *)
(* migrations every opening of the database runs (migrations.rs).          *)
(*                                                                         *)
(* The three handler families have one shape, and no reference leads from  *)
(* one of their tables to another: a behaviour is about one row of one     *)
(* table.  A row has an id, two fields that requests edit (of a cluster    *)
(* its auth source and kubeconfig path, of a repo its url and secret       *)
(* reference) and a status only the writer sets.  Every handler takes the  *)
(* database mutex for each critical section; update_* takes it twice.      *)
(* SQLite runs with foreign_keys = ON, and the references to an            *)
(* application are ON DELETE CASCADE.                                      *)
(***************************************************************************)
EXTENDS Naturals, FiniteSets

CONSTANTS
  Tables,        \* "app", "cluster", "repo" or some of them
  Requests,      \* update requests in flight
  LatestVersion, \* migrations::LATEST_VERSION
  Retention,     \* rows record_sync_revision keeps for an app
  MaxRowIds,     \* bound: rows created
  MaxRecords,    \* bound: sync records and revisions written
  MaxCrashes     \* bound: crashes of the server and inserts that fail

ASSUME RecordsAssumption ==
  /\ Tables \subseteq {"app", "cluster", "repo"}
  /\ Retention \in Nat \ {0} /\ LatestVersion \in Nat
  /\ MaxRowIds \in Nat /\ MaxRecords \in Nat /\ MaxCrashes \in Nat

NoRow == [id |-> 0, left |-> "none", right |-> "none", status |-> "none"]
Fields == {"left", "right"}
Resting == [field |-> "none", row |-> NoRow]

VARIABLES
  schema,     \* version recorded in schema_migrations
  serving,    \* run_migrations has returned and the handlers run
  table,      \* the table this behaviour is about
  row,        \* its row, or NoRow
  refs,       \* sync records ("history") and revisions referencing an app's id
  request,    \* request -> the row update_* loaded and edited, or Resting
  lastId, lastRecord, crashes,
  intended,   \* history: the row if every edit applied at its write alone
  overlapped, \* history: a write landed inside an update's window
  cut,        \* history: the row went with an update's delete, the insert did not run
  kept        \* history: references written for the row's present id

recordVars == <<schema, serving, table, row, refs, request, lastId, lastRecord, crashes,
                intended, overlapped, cut, kept>>

(***************************************************************************)
(* What requests carry, good and bad, and what the handlers accept.        *)
(***************************************************************************)
Inputs(f) ==
  CASE table = "app" -> {"edited"}
    [] table = "cluster" /\ f = "left" -> {"default", "kubeconfig", "unknown"}
    [] table = "cluster" /\ f = "right" -> {"none", "path"}
    [] table = "repo" /\ f = "left" -> {"https", "nourl"}
    [] table = "repo" /\ f = "right" -> {"none", "store:path", "blank"}

\* parse_auth_source and validate_auth_fields.
ValidateAuth(source, path) ==
  source # "unknown" /\ (source = "kubeconfig" => path # "none")

\* validate_url and validate_secret_ref.
ValidateRepo(url, secret) == url # "nourl" /\ secret # "blank"

Valid(r) ==
  /\ table = "cluster" => ValidateAuth(r.left, r.right)
  /\ table = "repo" => ValidateRepo(r.left, r.right)

\* registration_to_kube_cfg, the first stage of check_cluster.
ConfigBuilds(r) == r.left = "kubeconfig" => r.right # "none"

RecordsInit ==
  /\ schema = 0 /\ serving = FALSE
  /\ table \in Tables /\ row = NoRow /\ refs = {}
  /\ request = [q \in Requests |-> Resting]
  /\ lastId = 0 /\ lastRecord = 0 /\ crashes = 0
  /\ intended = NoRow /\ overlapped = FALSE /\ cut = FALSE /\ kept = {}

\* Requests that hold a copy of the row.
Holding == {q \in Requests : request[q] # Resting}

\* ON DELETE CASCADE of the references of an application.
Cascade(S) == {r \in S : r.app # row.id}

(***************************************************************************)
(* Database::open: each migration in its own transaction, in order.        *)
(***************************************************************************)
ApplyMigration ==
  /\ ~serving /\ schema < LatestVersion
  /\ schema' = schema + 1
  /\ UNCHANGED <<serving, table, row, refs, request, lastId, lastRecord, crashes, intended,
                 overlapped, cut, kept>>

OpenDatabase ==
  /\ ~serving /\ schema = LatestVersion
  /\ serving' = TRUE
  /\ UNCHANGED <<schema, table, row, refs, request, lastId, lastRecord, crashes, intended,
                 overlapped, cut, kept>>

(***************************************************************************)
(* create_*: the check for a row of that name and the insert are one       *)
(* critical section.  delete_* is one statement.                           *)
(***************************************************************************)
CreateRow(left, right) ==
  LET new == [id |-> lastId + 1, left |-> left, right |-> right, status |-> "Unknown"]
  IN /\ serving /\ row = NoRow /\ lastId < MaxRowIds /\ Valid(new)
     /\ lastId' = lastId + 1
     /\ row' = new /\ intended' = new
     /\ overlapped' = (overlapped \/ Holding # {})
     /\ cut' = FALSE /\ kept' = {}
     /\ UNCHANGED <<schema, serving, table, refs, request, lastRecord, crashes>>

CreateApp == table = "app" /\ CreateRow("new", "new")
CreateCluster(l, r) == table = "cluster" /\ CreateRow(l, r)
CreateRepo(l, r) == table = "repo" /\ CreateRow(l, r)

DeleteRow ==
  /\ serving /\ row # NoRow
  /\ row' = NoRow /\ intended' = NoRow
  /\ refs' = Cascade(refs) /\ kept' = {}
  /\ overlapped' = (overlapped \/ Holding # {})
  /\ UNCHANGED <<schema, serving, table, request, lastId, lastRecord, crashes, cut>>

DeleteApp == table = "app" /\ DeleteRow
DeleteCluster == table = "cluster" /\ DeleteRow
DeleteRepo == table = "repo" /\ DeleteRow

(***************************************************************************)
(* update_*: load_* under the mutex, edit and validate the copy, then      *)
(* delete and insert under the mutex again, two statements that are not    *)
(* one transaction.  "none" is a field the request leaves out.             *)
(***************************************************************************)
\* Mutant: the edited copy is rebuilt with a fresh status.
EditedAfresh(r, f, v) == [r EXCEPT ![f] = v, !.status = "Unknown"]

Edited(r, f, v) == [r EXCEPT ![f] = v]

LoadForUpdate(q, f, v) ==
  /\ serving /\ request[q] = Resting /\ row # NoRow
  /\ v # "none" /\ Valid(Edited(row, f, v))
  /\ request' = [request EXCEPT ![q] = [field |-> f, row |-> Edited(row, f, v)]]
  /\ UNCHANGED <<schema, serving, table, row, refs, lastId, lastRecord, crashes, intended,
                 overlapped, cut, kept>>

UpdateApp(q, f, v) == table = "app" /\ LoadForUpdate(q, f, v)
UpdateCluster(q, f, v) == table = "cluster" /\ LoadForUpdate(q, f, v)
UpdateRepo(q, f, v) == table = "repo" /\ LoadForUpdate(q, f, v)

WriteUpdate(q) ==
  LET f == request[q].field
      copy == request[q].row
  IN /\ serving /\ request[q] # Resting
     /\ refs' = Cascade(refs)
     /\ row' = copy
     /\ intended' = [intended EXCEPT ![f] = copy[f]]
     /\ overlapped' = (overlapped \/ Holding # {q})
     /\ cut' = FALSE
     /\ request' = [request EXCEPT ![q] = Resting]
     /\ UNCHANGED <<schema, serving, table, lastId, lastRecord, crashes, kept>>

\* The row and its references go with the delete, and nothing is inserted.
LostBetween == row' = NoRow /\ refs' = Cascade(refs) /\ cut' = TRUE /\ UNCHANGED <<intended, kept>>

\* The insert fails after the delete: the request answers with an error.
InsertFails(q) ==
  /\ serving /\ request[q] # Resting /\ crashes < MaxCrashes
  /\ crashes' = crashes + 1
  /\ LostBetween
  /\ overlapped' = (overlapped \/ Holding # {q})
  /\ request' = [request EXCEPT ![q] = Resting]
  /\ UNCHANGED <<schema, serving, table, lastId, lastRecord>>

(***************************************************************************)
(* The status writer: update_application_sync and, when the row exists,    *)
(* insert_sync_record, in one critical section.  record_sync_revision      *)
(* inserts and trims in one savepoint.                                     *)
(***************************************************************************)
Reference(kind) == [table |-> kind, app |-> row.id, n |-> lastRecord + 1]

WriteOutcome(status) ==
  /\ serving /\ table = "app" /\ row # NoRow /\ lastRecord < MaxRecords
  /\ lastRecord' = lastRecord + 1
  /\ row' = [row EXCEPT !.status = status]
  /\ intended' = [intended EXCEPT !.status = status]
  /\ refs' = refs \cup {Reference("history")}
  /\ kept' = kept \cup {Reference("history")}
  /\ overlapped' = (overlapped \/ Holding # {})
  /\ UNCHANGED <<schema, serving, table, request, lastId, crashes, cut>>

\* The Retention most recent revisions of the app.
Trimmed(S) ==
  {r \in S : r.table = "revision" => Cardinality({s \in S : s.table = "revision" /\ s.n > r.n})
                                       < Retention}

RecordRevision ==
  /\ serving /\ table = "app" /\ row # NoRow /\ lastRecord < MaxRecords
  /\ lastRecord' = lastRecord + 1
  /\ refs' = Trimmed(refs \cup {Reference("revision")})
  /\ kept' = Trimmed(kept \cup {Reference("revision")})
  /\ UNCHANGED <<schema, serving, table, row, request, lastId, crashes, intended, overlapped,
                 cut>>

(***************************************************************************)
(* A crash: requests in flight are gone; one whose delete had run and whose*)
(* insert had not takes the row and its references with it.                *)
(***************************************************************************)
Crash ==
  /\ crashes < MaxCrashes
  /\ crashes' = crashes + 1 /\ serving' = FALSE
  /\ request' = [q \in Requests |-> Resting]
  /\ \/ UNCHANGED <<row, refs, cut, intended, kept>>
     \/ serving /\ Holding # {} /\ LostBetween
  /\ UNCHANGED <<schema, table, overlapped, lastId, lastRecord>>

RecordsNext ==
  \/ ApplyMigration \/ OpenDatabase \/ RecordRevision \/ Crash
  \/ CreateApp
  \/ \E l \in Inputs("left"), r \in Inputs("right") : CreateCluster(l, r) \/ CreateRepo(l, r)
  \/ DeleteApp \/ DeleteCluster \/ DeleteRepo
  \/ \E q \in Requests :
       \/ WriteUpdate(q) \/ InsertFails(q)
       \/ \E f \in Fields : \E v \in Inputs(f) :
            UpdateApp(q, f, v) \/ UpdateCluster(q, f, v) \/ UpdateRepo(q, f, v)
  \/ \E s \in {"Synced", "SyncFailed"} : WriteOutcome(s)

RecordsSpec == RecordsInit /\ [][RecordsNext]_recordVars

(***************************************************************************)
(* Properties.                                                             *)
(***************************************************************************)
\* Every acknowledged edit, status write and deletion is in the table
\* (api/apps.rs, api/clusters.rs, api/repos.rs, status_writer.rs), with two
\* exceptions.  A write of the same row that lands between an update's load and
\* its write: then an edit is lost, a status goes back or a deleted row comes
\* back.  A crash or a failed insert after an update's delete: then the row is
\* gone as a whole, until it is created anew.  In every case the row is one the
\* handlers accept, so check_cluster never fails to build its config, and
\* references name an application that exists.
EditsKept ==
  /\ ~overlapped => row = intended \/ (cut /\ row = NoRow)
  /\ row # NoRow => Valid(row) /\ (table = "cluster" => ConfigBuilds(row))
  /\ \A r \in refs : r.app = row.id

\* What apps.rs says of update_app's delete and insert: "Insert preserves the
\* original id, so callers' references stay valid."  The sync history and the
\* revisions recorded for an application are there as long as its id is.
ReferencesStayValid == ~overlapped /\ ~cut => kept \subseteq refs

\* "[SQLite] holds: `applications` -- the registered Application set" (upgrades.md):
\* what was registered and not deleted is in the table, across failures and restarts.
RegisteredPersists == ~overlapped /\ intended # NoRow => row # NoRow
=============================================================================

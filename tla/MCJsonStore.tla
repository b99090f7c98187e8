----------------------------- MODULE MCJsonStore -----------------------------
(***************************************************************************)
(* Where the records of a tenant are kept, one part of it in each          *)
(* behaviour (`which`), the others standing still: the JSON store, a file  *)
(* of its directory or of the media directory, and the deployment of a     *)
(* database, once for its schema commands and once for the import of a     *)
(* JSON tenant.                                                            *)
(***************************************************************************)
EXTENDS JsonStore, TLC

CONSTANTS i1, Operators, Importers, Unset, MaxWrites, Workers, MaxOperations, MaxTrouble

VARIABLES which,
  tables, ledger, cmd, source, writing, writes, stopped, target, served,
  names, files, directory, operation, displaced, operations, trouble

fileVars == <<names, files, directory, operation, displaced, operations, trouble>>
deployVars == <<tables, ledger, cmd, source, writing, writes, stopped, target, served>>

-----------------------------------------------------------------------------
\* Two releases, the second with two more migrations of one component.
Components == <<"record-store", "media-store">>
Releases ==
  <<[c \in {"record-store", "media-store"} |-> IF c = "record-store" THEN <<"r1">> ELSE <<"m1">>],
    [c \in {"record-store", "media-store"} |->
       IF c = "record-store" THEN <<"r1">> ELSE <<"m1", "m2", "m3">>]>>

\* Two objects of one record, one of them with bytes missing.
Objects == [k \in {"k1", "k2"} |-> [id |-> i1, whole |-> k = "k1"]]

Schema == INSTANCE Deployment WITH
  Commands <- Operators, Asks <- {"schema", "serve"}, Ids <- {i1}
Import == INSTANCE Deployment WITH
  Commands <- Importers, Asks <- {"dry", "apply", "serve"}, Ids <- {i1}
Managed == INSTANCE ManagedFiles WITH Nothing <- None

ASSUME FileBounds == Managed!FilesAssumption

-----------------------------------------------------------------------------
StoresInit ==
  /\ which \in {"json", "schema", "import", "files"}
  /\ Init /\ Managed!Init
  /\ IF which = "import" THEN Import!Init ELSE Schema!Init
  /\ which \in {"json", "files"} => source.records[i1].take = Unset
  /\ which # "files" => directory = "missing"

StoresNext ==
  \/ which = "json" /\ Next /\ UNCHANGED <<which, deployVars, fileVars>>
  \/ which = "schema" /\ Schema!Next /\ UNCHANGED <<which, vars, fileVars>>
  \/ which = "import" /\ Import!Next /\ UNCHANGED <<which, vars, fileVars>>
  \/ which = "files" /\ Managed!Next /\ UNCHANGED <<which, vars, deployVars>>
  \/ which # "json" /\ UNCHANGED <<which, vars, deployVars, fileVars>>    \* they may stop

StoresSpec == StoresInit /\ [][StoresNext]_<<which, vars, deployVars, fileVars>>

\* Two records, two importers and two processes that use a directory: never two of these at once.
Symmetry == Permutations(Ids)

-----------------------------------------------------------------------------
(* The properties of each, as its module states them: of the schema and    *)
(* the import of a deployment, and of the files under the stores.          *)
StorageIsSound ==
  /\ which = "schema" => Schema!DeploymentIsSound
  /\ which = "import" => Import!DeploymentIsSound
  /\ which = "files" => Managed!FilesAreSound
=============================================================================

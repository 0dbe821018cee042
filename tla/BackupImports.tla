---------------------------- MODULE BackupImports ----------------------------
(***************************************************************************)
(* ImportBackups (internal/provider/backup_import.go): a BackupImport asks *)
(* for the backups that PBM of another cluster left in a bucket.  The      *)
(* bucket is listed page by page and each metadata document is read with a *)
(* call of its own, while PBM writes documents and somebody deletes them.  *)
(* An error ends the call and the runtime makes it again from the start.   *)
(*                                                                         *)
(* importBackupName gives a document the same Backup in every import, so   *)
(* that document and Backup share a name here.                             *)
(***************************************************************************)
EXTENDS Naturals

CONSTANTS
    External,       \* the documents, and the Backups of origin External
    MaxImports,     \* bound on BackupImports
    MaxReadFailures \* bound on calls to the storage that fail

ASSUME ImportsAssumption == MaxImports \in Nat /\ MaxReadFailures \in Nat

VARIABLES
    document,   \* document[n]: its status, done or any other, gone once it is deleted
    import,     \* state of the BackupImport: none, Pending or Succeeded
    ahead,      \* documents whose keys the listing has not come to
    page,       \* documents of the page that are to be read
    found,      \* those to make Backups of
    imports, readFailures

scanVars == <<ahead, page, found>>
importVars == <<document, import, scanVars, imports, readFailures>>

ImportTypeOK ==
    /\ document \in [External -> {"other", "done", "gone"}]
    /\ import \in {"none", "Pending", "Succeeded"}
    /\ ahead \subseteq External /\ page \subseteq External /\ found \subseteq External
    /\ imports \in 0..MaxImports /\ readFailures \in 0..MaxReadFailures

ImportInit ==
    /\ document \in [External -> {"other", "done"}]
    /\ import = "none"
    /\ ahead = {} /\ page = {} /\ found = {}
    /\ imports = 0 /\ readFailures = 0

Restart == ahead' = External /\ page' = {} /\ found' = {}

-----------------------------------------------------------------------------
(***************************************************************************)
(* ImportBackups.                                                          *)
(***************************************************************************)

\* A page ends anywhere.
NextPage ==
    /\ import = "Pending" /\ page = {}
    /\ \E keys \in SUBSET ahead \ {{}} :
          /\ ahead' = ahead \ keys
          /\ page' = {n \in keys : document[n] # "gone"}
    /\ UNCHANGED <<document, import, found, imports, readFailures>>

\* Only a backup that is done can be restored; a document that is of another
\* status, or cannot be parsed, is skipped.
parsePBM(n) == IF document[n] = "done" THEN {n} ELSE {}

getObject(n) ==
    /\ n \in page /\ document[n] # "gone"
    /\ page' = page \ {n}
    /\ found' = found \cup parsePBM(n)
    /\ UNCHANGED <<document, import, ahead, imports, readFailures>>

\* The document went after it was listed.
ObjectGone(n) ==
    /\ n \in page /\ document[n] = "gone"
    /\ Restart
    /\ UNCHANGED <<document, import, imports, readFailures>>

\* Faulty variant: what cannot be read is skipped.
CallFailsSkipped ==
    /\ import = "Pending" /\ (ahead # {} \/ page # {})
    /\ readFailures < MaxReadFailures
    /\ readFailures' = readFailures + 1
    /\ page' = {}
    /\ UNCHANGED <<document, import, ahead, found, imports>>

CallFails ==
    /\ import = "Pending" /\ (ahead # {} \/ page # {})
    /\ readFailures < MaxReadFailures
    /\ readFailures' = readFailures + 1
    /\ Restart
    /\ UNCHANGED <<document, import, imports>>

Scan == NextPage \/ \E n \in External : getObject(n) \/ ObjectGone(n)

\* The call returns the Backups, and the import has Succeeded.
Discovered == import = "Pending" /\ ahead = {} /\ page = {}

Finish ==
    /\ Discovered
    /\ import' = "Succeeded"
    /\ found' = {}
    /\ UNCHANGED <<document, ahead, page, imports, readFailures>>

-----------------------------------------------------------------------------
(***************************************************************************)
(* The user, and PBM of the cluster the backups are from.                  *)
(***************************************************************************)
CreateImport ==
    /\ import # "Pending"
    /\ imports < MaxImports
    /\ imports' = imports + 1
    /\ import' = "Pending"
    /\ Restart
    /\ UNCHANGED <<document, readFailures>>

WriteDocument(n) ==
    /\ \/ document[n] = "other" /\ document' = [document EXCEPT ![n] = "done"]
       \/ document[n] # "gone" /\ document' = [document EXCEPT ![n] = "gone"]
    /\ UNCHANGED <<import, scanVars, imports, readFailures>>
=============================================================================

-------------------------------- MODULE Backup --------------------------------
(***************************************************************************)
(* The daily backup and its restore (operations.py).  A backup runs in a   *)
(* process of its own, beside the dashboard, with no lock between them: it *)
(* copies the database, then prometheus.yml, then the trust files, one     *)
(* after another, while requests go on making identities and rows.  What   *)
(* it has copied it encrypts straight into the off-host destination.       *)
(*                                                                         *)
(* An operator X_Slip beside X is X as a slip in the code would have it,   *)
(* to show which property would notice; nothing uses it.                   *)
(***************************************************************************)
EXTENDS TrustFiles

VARIABLES
    config,  \* the servers prometheus.yml has a job for
    backup,  \* the process of the backup: where it is, and its copy so far
    archive, \* the archive the last backup to come so far wrote in the destination
    target   \* the directory restores go to

vars == <<trustVars, config, backup, archive, target>>

-----------------------------------------------------------------------------
NoFiles == [f \in FileNames |-> Absent]

NoCopy == [rows |-> {}, config |-> {}, files |-> [o \in Owners |-> NoFiles]]

Copy == [rows: SUBSET Servers, config: SUBSET Servers, files: [Owners -> [FileNames -> Content]]]

\* A slip: the files before what refers to them.
Parts_TrustFirst == <<"pki", "database", "config">>

\* The order of BACKUP_PATHS.
Parts == <<"database", "config", "pki">>

\* A backup is at one of the parts.  Of the trust files it has directories still
\* to list (pki/, which the files of the collector CA are in, or those of
\* servers, and the one these are in), and has listed files still to be copied.
Backing ==
    [part: 0..5, dirs: SUBSET Owners, clients: BOOLEAN,
     listed: SUBSET (Owners \X FileNames), copy: Copy]

NotRunning ==
    [part |-> 0, dirs |-> {}, clients |-> FALSE, listed |-> {}, copy |-> NoCopy]

Archive == [state: {"none", "begun", "whole"}, copy: Copy]
NoArchive == [state |-> "none", copy |-> NoCopy]

Target == [state: {"empty", "used", "validated"}, copy: Copy]
Empty == [state |-> "empty", copy |-> NoCopy]

\* Types, and (TrustTypeOK) that a directory is locked by whoever writes in it.
TypeOK ==
    /\ TrustTypeOK
    /\ config \subseteq Servers
    /\ backup \in Backing
    /\ archive \in Archive
    /\ target \in Target

Init ==
    /\ TrustInit
    /\ config = {}
    /\ backup = NotRunning
    /\ archive = NoArchive
    /\ target = Empty

-----------------------------------------------------------------------------
\* The servers with an active target, some of those with a row.  (That the
\* table is read before prometheus.yml is written is ObservationEngine's.)
Reconciles ==
    /\ config' \in SUBSET rows
    /\ UNCHANGED <<trustVars, backup, archive, target>>

BackupOnly == UNCHANGED <<trustVars, config, target>>

At(part) == backup.part \in DOMAIN Parts /\ Parts[backup.part] = part

\* Bounded: backups are made until one is whole.
Starts ==
    /\ backup = NotRunning
    /\ archive.state # "whole"
    /\ backup' = [NotRunning EXCEPT !.part = 1, !.dirs = {Collector}]
    /\ BackupOnly /\ UNCHANGED archive

CopiesDatabase ==
    /\ At("database")
    /\ backup' = [backup EXCEPT !.part = @ + 1, !.copy.rows = rows]
    /\ BackupOnly /\ UNCHANGED archive

CopiesConfig ==
    /\ At("config")
    /\ backup' = [backup EXCEPT !.part = @ + 1, !.copy.config = config]
    /\ BackupOnly /\ UNCHANGED archive

\* What comes into a directory once it is listed is not copied.
FilesIn(o) == {o} \X {f \in FilesOf(o) : Exists(o, f)}
WithFiles == {s \in Servers : FilesIn(s) # {}}

\* A directory may be there before the first file in it.
ListsTrust ==
    /\ At("pki")
    /\ Collector \in backup.dirs
    /\ \E there \in BOOLEAN :
          /\ WithFiles # {} => there
          /\ backup' = [backup EXCEPT !.dirs = {}, !.clients = there, !.listed = FilesIn(Collector)]
    /\ BackupOnly /\ UNCHANGED archive

\* Between two files of the collector CA, or before or after them.
ListsClients ==
    /\ At("pki")
    /\ backup.clients
    /\ \E S \in SUBSET Servers :
          /\ WithFiles \subseteq S
          /\ backup' = [backup EXCEPT !.dirs = S, !.clients = FALSE]
    /\ BackupOnly /\ UNCHANGED archive

\* The directories of the servers are copied one after another ...
BetweenServers == backup.listed \subseteq {Collector} \X FileNames

ListsServer(s) ==
    /\ At("pki")
    /\ s \in backup.dirs
    /\ BetweenServers
    /\ backup' = [backup EXCEPT !.dirs = @ \ {s}, !.listed = @ \cup FilesIn(s)]
    /\ BackupOnly /\ UNCHANGED archive

\* ... and pki/ goes on when all have been.
CopiesFile(o, f) ==
    /\ At("pki")
    /\ <<o, f>> \in backup.listed
    /\ o = Collector => backup.dirs = {} /\ BetweenServers
    /\ backup' = [backup EXCEPT !.listed = @ \ {<<o, f>>}, !.copy.files[o][f] = files[o][f]]
    /\ BackupOnly /\ UNCHANGED archive

LeavesTrust ==
    /\ At("pki")
    /\ backup.dirs = {} /\ ~backup.clients /\ backup.listed = {}
    /\ backup' = [backup EXCEPT !.part = @ + 1]
    /\ BackupOnly /\ UNCHANGED archive

\* There is no directory of trust files, and so no backup, before the first
\* request for a certificate.
IsCopied == backup.part = Len(Parts) + 1 /\ runs > 0
Encrypting == backup.part = Len(Parts) + 2

\* age writes into the destination itself.
Encrypts ==
    /\ IsCopied
    /\ archive' = [state |-> "begun", copy |-> NoCopy]
    /\ backup' = [backup EXCEPT !.part = @ + 1]
    /\ BackupOnly

Finishes ==
    /\ Encrypting
    /\ archive' = [state |-> "whole", copy |-> backup.copy]
    /\ backup' = NotRunning
    /\ BackupOnly

\* A part is missing, a file is gone between being listed and copied, age fails:
\* what is in the destination is removed.
GivesUp ==
    /\ backup # NotRunning
    /\ backup' = NotRunning
    /\ archive' = IF Encrypting THEN NoArchive ELSE archive
    /\ BackupOnly

\* The container or the host stops: what is in the destination stays.
IsKilled ==
    /\ backup # NotRunning
    /\ backup' = NotRunning
    /\ BackupOnly /\ UNCHANGED archive

-----------------------------------------------------------------------------
RestoreOnly == UNCHANGED <<trustVars, config, backup, archive>>

\* Decrypted, extracted and checked.
Restores ==
    /\ target.state = "empty"
    /\ archive.state = "whole"
    /\ target' = [state |-> "validated", copy |-> archive.copy]
    /\ RestoreOnly

\* An archive that is not whole does not decrypt; one that is may still fail to
\* be extracted, and leaves what was.
RestoreFails ==
    /\ target.state = "empty"
    /\ archive.state = "whole"
    /\ target' = [state |-> "used", copy |-> NoCopy]
    /\ RestoreOnly

Clears ==
    /\ target.state # "empty"
    /\ target' = Empty
    /\ RestoreOnly

-----------------------------------------------------------------------------
Next ==
    \/ TrustNext /\ UNCHANGED <<config, backup, archive, target>>
    \/ Reconciles
    \/ Starts \/ CopiesDatabase \/ CopiesConfig \/ LeavesTrust
    \/ ListsTrust \/ ListsClients
    \/ \E s \in Servers : ListsServer(s)
    \/ \E o \in Owners, f \in FileNames : CopiesFile(o, f)
    \/ Encrypts \/ Finishes \/ GivesUp \/ IsKilled
    \/ Restores \/ RestoreFails \/ Clears

Spec == Init /\ [][Next]_vars

-----------------------------------------------------------------------------
\* A restored dashboard scrapes every server its database or its prometheus.yml
\* refers to with the identity the collector trusts, and signs with the CA the
\* collectors have: whatever was made, staged or revoked while the backup was
\* copying (operations.py:103-119; docs/operations/stack-operations.md:64 promises
\* of the archive's database "a transactionally consistent SQLite snapshot").
RestoredIsTrusted ==
    target.state = "validated" =>
        \A s \in target.copy.rows \cup target.copy.config : \A o \in {s, Collector} :
            Complete(o) /\ target.copy.files[o] = files[o]
=============================================================================

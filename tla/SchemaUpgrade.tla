--------------------------- MODULE SchemaUpgrade ---------------------------
(***************************************************************************)
(* Opening the database (internal/store/store.go, migrate.go): a start     *)
(* backs the file up when it is older than the program, prunes old         *)
(* backups, and brings it to the program's schema one migration at a time, *)
(* each in a transaction of its own.  Any step may fail, the process may   *)
(* be killed between any two, and the program may be replaced by a newer   *)
(* or an older build between two starts.                                   *)
(*                                                                         *)
(* The instance lock keeps a second process away (package platform).  The  *)
(* clock that stamps the backups is taken to go forward.                   *)
(***************************************************************************)
EXTENDS Naturals, FiniteSets

CONSTANTS
  Builds,      \* the schema versions (SchemaVersion) of the builds in use
  BackupsKept, \* backupsKept
  MaxEdits,    \* bound on the user's changes
  MaxStarts    \* bound on starts

ASSUME SchemaUpgradeAssumption ==
  /\ Builds \subseteq Nat
  /\ BackupsKept \in Nat \ {0} /\ MaxEdits \in Nat /\ MaxStarts \in Nat

VARIABLES
  file,      \* the database: its schema version and what the user put in it
  backups,   \* the files in backups/: what each holds, whole or not, its stamp
  copy,      \* the temporary file of the backup being taken
  boot,      \* the process: where it is, its build, what file it found
  clock,     \* starts so far, which stamp the backups
  origin     \* history: the database as the last backed-up upgrade found it

upgradeVars == <<file, backups, copy, boot, clock, origin>>

NoCopy == [version |-> 0, edits |-> 0, whole |-> FALSE]
Closed == [at |-> "closed", build |-> 0, from |-> 0, existed |-> FALSE]
NoFile == [exists |-> FALSE, version |-> 0, edits |-> 0]

UpgradeInit ==
  /\ file = NoFile
  /\ backups = {}
  /\ copy = NoCopy
  /\ boot = Closed
  /\ clock = 0
  /\ origin = NoFile

Goes(at) == boot' = [boot EXCEPT !.at = at]

\* The process is gone; the temporary file of a backup is never read again.
Gone == boot' = Closed /\ copy' = NoCopy

\* Open: os.Stat, then OpenConn, which makes a missing file.  A database newer
\* than the build is refused, an older one that existed is backed up first.
Launch(build) ==
  /\ boot.at = "closed" /\ clock < MaxStarts
  /\ clock' = clock + 1
  /\ file' = [file EXCEPT !.exists = TRUE]
  /\ IF file.version > build
       THEN boot' = Closed
       ELSE boot' = [at |-> IF file.exists /\ file.version < build
                              THEN "copying" ELSE "migrating",
                     build |-> build, from |-> file.version, existed |-> file.exists]
  /\ UNCHANGED <<backups, copy, origin>>

\* copyDatabase and closing the copy: it may turn out damaged.
TakeCopy ==
  /\ boot.at = "copying"
  /\ \E whole \in BOOLEAN :
       copy' = [version |-> file.version, edits |-> file.edits, whole |-> whole]
  /\ Goes("verifying")
  /\ UNCHANGED <<file, backups, clock, origin>>

TrustCopy ==   \* mutant
  /\ boot.at = "verifying"
  /\ Goes("renaming")
  /\ UNCHANGED <<file, backups, copy, clock, origin>>

\* verifyBackup (integrity and version) and syncFile.
Verify ==
  /\ boot.at = "verifying"
  /\ IF copy.whole /\ copy.version = boot.from
       THEN Goes("renaming") /\ UNCHANGED copy
       ELSE Gone
  /\ UNCHANGED <<file, backups, clock, origin>>

\* The verified copy takes its final name, which holds its stamp.
Rename ==
  /\ boot.at = "renaming"
  /\ backups' = backups \cup {[version |-> copy.version, edits |-> copy.edits,
                               whole |-> copy.whole, stamp |-> clock]}
  /\ origin' = file
  /\ copy' = NoCopy
  /\ Goes("pruning")
  /\ UNCHANGED <<file, clock>>

Newer(b) == {x \in backups : x.stamp > b.stamp}

\* pruneBackups: of the backups sorted by stamp, those after the newest few.
Prune ==
  /\ boot.at = "pruning"
  /\ \/ \E b \in backups :
          /\ Cardinality(Newer(b)) = BackupsKept
          /\ backups' = backups \ {b}
          /\ UNCHANGED boot
     \/ /\ \A b \in backups : Cardinality(Newer(b)) < BackupsKept
        /\ Goes("migrating")
        /\ UNCHANGED backups
  /\ UNCHANGED <<file, copy, clock, origin>>

\* apply: one migration and its user_version, in one transaction.
Migrate ==
  /\ boot.at = "migrating"
  /\ IF file.version < boot.build
       THEN file' = [file EXCEPT !.version = @ + 1] /\ UNCHANGED boot
       ELSE Goes("open") /\ UNCHANGED file
  /\ UNCHANGED <<backups, copy, clock, origin>>

\* The user's work, once the database is open.
Edit ==
  /\ boot.at = "open" /\ file.edits < MaxEdits
  /\ file' = [file EXCEPT !.edits = @ + 1]
  /\ UNCHANGED <<backups, copy, boot, clock, origin>>

\* The program is closed or killed, or a step of the start fails: what was
\* committed, renamed or removed until then stays so.
Quit ==
  /\ boot.at # "closed"
  /\ Gone
  /\ UNCHANGED <<file, backups, clock, origin>>

UpgradeNext ==
  \/ \E build \in Builds : Launch(build)
  \/ TakeCopy \/ Verify \/ Rename \/ Prune \/ Migrate \/ Edit \/ Quit

UpgradeSpec == UpgradeInit /\ [][UpgradeNext]_upgradeVars

---------------------------------------------------------------------------
(* Properties.                                                             *)

Backup == [version : Nat, edits : Nat, whole : BOOLEAN, stamp : Nat]

\* The database, its backups and the start under way keep their shapes.
UpgradeTypeOK ==
  /\ file \in [exists : BOOLEAN, version : Nat, edits : Nat]
  /\ backups \subseteq Backup
  /\ copy \in [version : Nat, edits : Nat, whole : BOOLEAN]
  /\ boot \in [at : {"closed", "copying", "verifying", "renaming", "pruning",
                     "migrating", "open"},
               build : Nat, from : Nat, existed : BOOLEAN]
  /\ clock \in Nat
  /\ origin \in [exists : BOOLEAN, version : Nat, edits : Nat]

\* A whole backup of the database as it was at this version, with this content.
Kept(version, edits) ==
  \E b \in backups : b.whole /\ b.version = version /\ b.edits = edits

\* A database that existed is changed by a migration only while a whole backup
\* of it as the start found it is there (migrateWithBackup), and that backup
\* outlives failed starts, crashes and pruning until a later upgrade takes the
\* next one.  A database newer than the build is never opened.
UpgradeCanBeUndone ==
  /\ boot.at = "migrating" /\ boot.existed /\ boot.from < boot.build
       => Kept(boot.from, file.edits)
  /\ origin.exists => Kept(origin.version, origin.edits)
  /\ boot.at # "closed" => file.version <= boot.build
=============================================================================

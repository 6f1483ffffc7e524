------------------------------ MODULE MCRecovery ------------------------------
(***************************************************************************)
(* Work that must end although workers die: rows of the retry pipeline     *)
(* (RetryEvents), files of a folder (FileTransfer) and ids that are looked  *)
(* up page by page (GidSync).  They share no state, so a behaviour explores *)
(* one of them and leaves the others at an initial state in which no fair   *)
(* action of them is enabled.                                              *)
(***************************************************************************)
EXTENDS MCRetryEvents

CONSTANTS FileWorkers, Transports, MaxName, MaxUploads, MaxFileCrashes,
          MaxId, Manual, PageLimit, MaxChanges, MaxBreaks

VARIABLES part, transport, inbox, wip, archived, old, filePc, file, uploads,
          locks, reused, crashes,
          kind, listed, gidRows, gid, step, asked, cursor, got, hasNext, changes, breaks

Files == INSTANCE FileTransfer
           WITH Workers <- FileWorkers, MaxCrashes <- MaxFileCrashes, pc <- filePc

Gids == INSTANCE GidSync
          WITH MaxFaults <- MaxBreaks, rows <- gidRows, faults <- breaks

ASSUME FilesAssumption == Files!ConstantsFit
ASSUME GidsAssumption == Gids!ConstantsFit

filesPart == <<transport, inbox, wip, archived, old, filePc, file, uploads,
               locks, reused, crashes>>
gidsPart == <<kind, listed, gidRows, gid, step, asked, cursor, got, hasNext, changes, breaks>>

RecoveryInit ==
  /\ Init /\ Files!Init
  /\ \/ part \in {"rows", "files"} /\ Gids!Init /\ kind = "inventoryItem" /\ gidRows = {} /\ listed = {}
     \/ part = "gids" /\ transport = "sftp" /\ Gids!Init

RecoveryNext ==
  \/ part = "rows"  /\ Next       /\ UNCHANGED <<part, filesPart, gidsPart>>
  \/ part = "files" /\ Files!Next /\ UNCHANGED <<part, vars, gidsPart>>
  \/ part = "gids"  /\ Gids!Next  /\ UNCHANGED <<part, vars, filesPart>>

RecoverySpec ==
  /\ RecoveryInit /\ [][RecoveryNext]_<<part, vars, filesPart, gidsPart>>
  /\ Fairness /\ Files!Fairness /\ Gids!Fairness

----------------------------------------------------------------------------
\* FileTransfer: under SFTP no upload is handed out twice by the lock
\* (sftp-middleware.service.ts:256).
LockedOnce == Files!LockedOnce

\* FileTransfer: no upload disappears between the folder and the archive
\* (sftp-middleware.service.ts:294, s3-middleware.service.ts:156).
NothingLost == Files!NothingLost

\* FileTransfer: every upload ends up in the archive, also when the worker that
\* took it has died (sftp-middleware.service.ts:294).
EverythingArchived == Files!EverythingArchived

\* GidSync: rows get their global ids although the lookup breaks off and the shop
\* changes under it (shopify.service.ts:2862).
GidsArrive == Gids!GidsArrive
================================================================================

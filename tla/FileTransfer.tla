------------------------------ MODULE FileTransfer ------------------------------
(***************************************************************************)
(* Files handed over through a folder: SftpMiddlewareService and           *)
(* S3MiddlewareService implement one interface, in which a worker takes a  *)
(* file by giving it the suffix .WIP (getNextFileNameAndLock), moves it to *)
(* the archive when it is done (archive), and takes over .WIP files that   *)
(* look abandoned (getNextFileNameForWip). SFTP renames, in one step of    *)
(* the server; S3 copies and deletes, in two.                              *)
(*                                                                         *)
(* The loop around these calls and the sender are external: the handlers   *)
(* that use the interface are not in the repository.                       *)
(***************************************************************************)
EXTENDS Naturals, FiniteSets, FiniteSetsExt

CONSTANTS
  Workers,     \* processes that use the folder
  Transports,  \* subset of {"sftp", "s3"}
  MaxName,     \* bound: file names, in the order they are listed
  MaxUploads,  \* bound: files the sender uploads
  MaxCrashes   \* bound: workers that die, or whose call throws

Names   == 1..MaxName
Uploads == 1..MaxUploads   \* an uploaded content
Nothing == 0

\* Assumed by the modules that instantiate this one.
ConstantsFit ==
  /\ Transports \subseteq {"sftp", "s3"}
  /\ {MaxName, MaxUploads, MaxCrashes} \subseteq Nat

VARIABLES
  transport,  \* which service
  inbox,      \* what the folder holds under each name
  wip,        \* ... under each name with the suffix .WIP
  archived,   \* ... and the archive folder
  old,        \* uploads whose modification date is older than the limit
  pc, file,   \* the next call of each worker, and the name it is about
  uploads,    \* uploads so far
  locks,      \* ghost: how often each was handed out by getNextFileNameAndLock
  reused,     \* ghost: a name has been uploaded twice
  crashes     \* crashes so far

vars == <<transport, inbox, wip, archived, old, pc, file, uploads, locks, reused, crashes>>
store == <<inbox, wip, archived>>
ghosts == <<uploads, reused, crashes>>

Steps == {"idle", "locking", "unlisting", "reading", "archiving", "removing"}

Init ==
  /\ transport \in Transports
  /\ inbox = [n \in Names |-> Nothing]
  /\ wip = [n \in Names |-> Nothing]
  /\ archived = [n \in Names |-> Nothing]
  /\ old = {}
  /\ pc = [w \in Workers |-> "idle"]
  /\ file = [w \in Workers |-> 1]
  /\ uploads = 0
  /\ locks = [u \in Uploads |-> 0]
  /\ reused = FALSE
  /\ crashes = 0

Goto(w, step) == pc' = [pc EXCEPT ![w] = step]
Lock(u) == locks' = [locks EXCEPT ![u] = @ + 1]

----------------------------------------------------------------------------
(* getNextFileNameAndLock.                                                 *)

Listed == {n \in Names : inbox[n] # Nothing}

\* list, and the first file without the suffix.
ListFiles(w) ==
  /\ pc[w] = "idle" /\ Listed # {}
  /\ file' = [file EXCEPT ![w] = Min(Listed)]
  /\ Goto(w, "locking")
  /\ UNCHANGED <<transport, store, old, locks, ghosts>>

\* Variant: no look at the target.
NoTargetCheck(from, to, n) == from[n] # Nothing

\* exists(to) throws when the target is there; the server refuses a source that
\* has gone, and a target that came after the check.
CanRename(from, to, n) == from[n] # Nothing /\ to[n] = Nothing

\* Variant: the file is copied to its .WIP name.
Copied(n) == inbox

Renamed(n) == [inbox EXCEPT ![n] = Nothing]

SftpLock(w) ==
  LET n == file[w] IN
    /\ transport = "sftp" /\ pc[w] = "locking"
    /\ IF CanRename(inbox, wip, n)
       THEN /\ wip' = [wip EXCEPT ![n] = inbox[n]]
            /\ inbox' = Renamed(n)
            /\ Lock(inbox[n])
            /\ Goto(w, "reading")
       ELSE Goto(w, "idle") /\ UNCHANGED <<inbox, wip, locks>>
    /\ UNCHANGED <<transport, archived, old, file, ghosts>>

\* CopyObject replaces what is there; its date is the date of the copy.
S3Copy(w) ==
  LET n == file[w] IN
    /\ transport = "s3" /\ pc[w] = "locking"
    /\ IF inbox[n] # Nothing
       THEN /\ wip' = [wip EXCEPT ![n] = inbox[n]]
            /\ old' = old \ {inbox[n]}
            /\ Lock(inbox[n])
            /\ Goto(w, "unlisting")
       ELSE Goto(w, "idle") /\ UNCHANGED <<wip, old, locks>>
    /\ UNCHANGED <<transport, inbox, archived, file, ghosts>>

\* DeleteObject takes what has the name by now.
S3Delete(w) ==
  /\ pc[w] = "unlisting"
  /\ inbox' = [inbox EXCEPT ![file[w]] = Nothing]
  /\ Goto(w, "reading")
  /\ UNCHANGED <<transport, wip, archived, old, file, locks, ghosts>>

----------------------------------------------------------------------------
(* getNextFileNameForWip, readFile and archive.                            *)

\* Variant: the comparison of the dates is turned round.
NewWipFiles == {n \in Names : wip[n] # Nothing /\ wip[n] \notin old}

OldWipFiles == {n \in Names : wip[n] \in old}

Takes(w) ==
  /\ pc[w] = "idle" /\ OldWipFiles # {}
  /\ file' = [file EXCEPT ![w] = Min(OldWipFiles)]
  /\ Goto(w, "reading")
  /\ UNCHANGED <<transport, store, old, locks, ghosts>>

\* The first .WIP file older than the limit. Nothing marks it as taken; a rename
\* leaves the date of the upload, so that it can be in work.
SftpNextFileNameForWip(w) == transport = "sftp" /\ Takes(w)

\* The same; the date is that of the copy.
S3NextFileNameForWip(w) == transport = "s3" /\ Takes(w)

NextFileNameForWip(w) == SftpNextFileNameForWip(w) \/ S3NextFileNameForWip(w)

\* Throws when the file has gone.
Reads(w) ==
  /\ pc[w] = "reading"
  /\ Goto(w, IF wip[file[w]] = Nothing THEN "idle" ELSE "archiving")
  /\ UNCHANGED <<transport, store, old, file, locks, ghosts>>

SftpReadFile(w) == transport = "sftp" /\ Reads(w)
S3ReadFile(w) == transport = "s3" /\ Reads(w)

\* A name that is in the archive already makes rename throw: the .WIP stays.
SftpArchive(w) ==
  LET n == file[w] IN
    /\ transport = "sftp" /\ pc[w] = "archiving"
    /\ IF CanRename(wip, archived, n)
       THEN /\ archived' = [archived EXCEPT ![n] = wip[n]]
            /\ wip' = [wip EXCEPT ![n] = Nothing]
       ELSE UNCHANGED <<archived, wip>>
    /\ Goto(w, "idle")
    /\ UNCHANGED <<transport, inbox, old, file, locks, ghosts>>

S3Archive(w) ==
  LET n == file[w] IN
    /\ transport = "s3" /\ pc[w] = "archiving"
    /\ archived' = [archived EXCEPT ![n] = IF wip[n] = Nothing THEN @ ELSE wip[n]]
    /\ Goto(w, IF wip[n] = Nothing THEN "idle" ELSE "removing")
    /\ UNCHANGED <<transport, inbox, wip, old, file, locks, ghosts>>

S3Remove(w) ==
  /\ pc[w] = "removing"
  /\ wip' = [wip EXCEPT ![file[w]] = Nothing]
  /\ Goto(w, "idle")
  /\ UNCHANGED <<transport, inbox, archived, old, file, locks, ghosts>>

----------------------------------------------------------------------------
(* The world around.                                                       *)

\* The sender waits until its last file of the name has left the folder.
Upload(n) ==
  /\ uploads < MaxUploads /\ inbox[n] = Nothing
  /\ uploads' = uploads + 1
  /\ inbox' = [inbox EXCEPT ![n] = uploads + 1]
  /\ reused' = (reused \/ wip[n] # Nothing \/ archived[n] # Nothing)
  /\ UNCHANGED <<transport, wip, archived, old, pc, file, locks, crashes>>

GrowsOld(u) ==
  /\ u =< uploads /\ u \notin old
  /\ old' = old \union {u}
  /\ UNCHANGED <<transport, store, pc, file, locks, ghosts>>

\* The worker dies, or one of its calls throws.
Crash(w) ==
  /\ pc[w] # "idle" /\ crashes < MaxCrashes
  /\ crashes' = crashes + 1
  /\ Goto(w, "idle")
  /\ UNCHANGED <<transport, store, old, file, uploads, locks, reused>>

Work(w) ==
  \/ SftpLock(w) \/ S3Copy(w) \/ S3Delete(w)
  \/ SftpReadFile(w) \/ S3ReadFile(w) \/ SftpArchive(w) \/ S3Archive(w) \/ S3Remove(w)

Next ==
  \/ \E w \in Workers : ListFiles(w) \/ NextFileNameForWip(w) \/ Work(w) \/ Crash(w)
  \/ \E n \in Names : Upload(n)
  \/ \E u \in Uploads : GrowsOld(u)

Spec == Init /\ [][Next]_vars

\* A worker that has taken a file goes on; some worker looks for files, new and
\* abandoned; time passes.
Fairness ==
  /\ \A w \in Workers : WF_vars(Work(w)) /\ WF_vars(ListFiles(w))
                        /\ SF_vars(NextFileNameForWip(w))
  /\ \A u \in Uploads : WF_vars(GrowsOld(u))

FairSpec == Spec /\ Fairness

----------------------------------------------------------------------------
(* Properties.                                                             *)

\* The lock of the SFTP service is exclusive: list and rename are two calls
\* (sftp-middleware.service.ts:263, :273) and rename checks before it moves (:214),
\* and yet no upload is handed out twice. The S3 service gives no such guarantee:
\* two workers copy before either deletes.
LockedOnce == transport = "sftp" => \A u \in Uploads : locks[u] =< 1

\* No upload disappears, whatever workers crash or take over: it is in the folder,
\* in work or in the archive. Under S3 only while no name is used twice, since the
\* delete of a lock takes whatever has the name by then (s3-middleware.service.ts:156)
\* and a copy replaces what is archived (:203).
NothingLost ==
  transport = "sftp" \/ ~reused =>
    \A u \in 1..uploads : \E n \in Names : u \in {inbox[n], wip[n], archived[n]}

\* Every upload ends up in the archive, abandoned ones too. A name that is used
\* again is refused by the SFTP archive for good, and its .WIP file is the first
\* one every later takeover finds.
EverythingArchived ==
  \A u \in Uploads : u =< uploads ~> reused \/ \E n \in Names : archived[n] = u
=================================================================================

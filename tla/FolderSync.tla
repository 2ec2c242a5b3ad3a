----------------------------- MODULE FolderSync -----------------------------
(***************************************************************************)
(* The worker of one folder pair: the initial recursive pull, then the     *)
(* select! loop that pushes local changes and polls Drive's changes        *)
(* (gdrive-sync/engine.rs from run_folder on), with the rows and the page  *)
(* token it keeps in SQLite (state_db.rs), the watcher's event queue       *)
(* (local_watcher.rs), and around it Drive, the local tree and their users.*)
(*                                                                         *)
(* A step ends where the code awaits: there the worker can be aborted, and *)
(* there the users act.  A content is the number of the edit that made it, *)
(* so a later edit is a larger number and equal numbers are equal md5s.    *)
(* Directories lie at the root only.                                       *)
(***************************************************************************)
EXTENDS Naturals, Sequences, FiniteSets, SequencesExt

CONSTANTS
    FileNames, DirNames,  \* names used below the root and inside directories
    MaxId,                \* bound: how many items Drive ever holds
    Seed,                 \* the paths on Drive at first, with their ids
    Resumed,              \* an earlier run has synchronised Seed and kept a token
    EditsWhileOff,        \* users edit the local tree while nobody watches it
    UploadAnswersMd5,     \* the answer to an upload carries md5Checksum
    ChownNotifies,        \* chown alone raises an event (inotify's IN_ATTRIB)
    MayChown,             \* the daemon may give files to the configured owner
    Budget                \* bounds: how often each kind of edit happens, how many
                          \* edits, faults and starts there are

ASSUME NamesAssumption ==
    /\ IsFiniteSet(FileNames) /\ FileNames # {}
    /\ FileNames \cap DirNames = {}
ASSUME FlagsAssumption ==
    {Resumed, EditsWhileOff, UploadAnswersMd5, ChownNotifies, MayChown} \subseteq BOOLEAN
ASSUME BudgetAssumption ==
    Budget \in [{"write", "remove", "move", "remote write", "trash", "delete", "edit",
                 "fault", "start"} -> Nat]

VARIABLES
    local,       \* content of each local path, 0 when there is nothing
    remote,      \* Drive's items
    rows,        \* file_state: the row of each local path, id 0 when there is none
    twice,       \* history: ids that ever had rows at two paths
    hasToken,    \* sync_folder_state holds a page token
    afterToken,  \* ids that changed after the stored token
    afterNew,    \* ids that changed after the token Drive answered last
    pc,          \* where the worker is
    frames,      \* initial_pull: the listings on the recursion's stack
    job,         \* what the worker is at work on
    content,     \* the content it has read or downloaded
    batch,       \* poll_remote_changes: the changes not handled yet
    queue,       \* the watcher's channel
    errors,      \* works with an outstanding error
    clock,       \* number of the last edit
    left         \* what is left of Budget

driveVars  == <<remote, afterToken, afterNew>>
dbVars     == <<rows, twice, hasToken>>
workerVars == <<pc, frames, job, content, batch>>
userVars   == <<clock, left>>
vars == <<local, driveVars, dbVars, workerVars, queue, errors, userVars>>

Ids    == 1..MaxId
Names  == FileNames \cup DirNames
Dirs   == {<<d>> : d \in DirNames}
Files  == {<<n>> : n \in FileNames} \cup {<<d, n>> : d \in DirNames, n \in FileNames}
Paths  == Dirs \cup Files
Above(p) == Front(p)
Below(p) == {q \in Paths : Len(q) = 2 /\ Above(q) = p}
Versions == 0..(1 + Budget["write"] + Budget["remote write"])

\* Each item has one path, and lies in a folder that is there.
ASSUME SeedAssumption ==
    /\ DOMAIN Seed \subseteq Paths
    /\ \A p \in DOMAIN Seed :
         /\ Seed[p] \in Ids
         /\ Len(p) = 2 => Above(p) \in DOMAIN Seed
    /\ \A p, q \in DOMAIN Seed : Seed[p] = Seed[q] => p = q

NoRow == [id |-> 0, md5 |-> 0]
NoJob == [path |-> <<>>, id |-> 0, md5 |-> 0, parent |-> 0]
\* Works with an error: a path, or one of these, which are no paths.
InitialWork == <<"the", "initial", "sync">>
RemoteWork  == <<"the", "remote", "changes">>
\* The id of Drive's root folder.
Root  == 0

InitialPcs == {"list", "pull", "mkdir", "keep dir", "fetch", "write", "keep",
               "ask token", "store token", "watch"}
LocalPcs   == {"stat", "read", "upload", "create", "record", "erase", "forget"}
PollPcs    == {"changes", "apply", "remove", "unrow", "refetch", "rewrite", "rekeep"}
Watching   == pc \in LocalPcs \cup PollPcs \cup {"select"}

-----------------------------------------------------------------------------
(* Drive, as the code uses it.                                             *)

Live(i)    == remote[i].state = "live"
\* Trashing a folder trashes what is in it; there is one level of folders.
InTrash(i) == \/ remote[i].state = "trashed"
              \/ remote[i].parent # Root /\ remote[remote[i].parent].state = "trashed"
Exists(i)  == i = Root \/ remote[i].state \in {"live", "trashed"}
\* The id Drive gives to the next item, if the bound leaves one.
FreshIds   == {i \in Ids : /\ remote[i].state = "none"
                           /\ \A j \in Ids : j < i => remote[j].state # "none"}
Children(i) == {c \in Ids : Live(c) /\ ~InTrash(c) /\ remote[c].parent = i}
IsDir(i)   == remote[i].name \in DirNames

\* Every change to an item is listed after every token there is by then.
Changed(ids) ==
    /\ afterToken' = afterToken \cup ids
    /\ afterNew' = afterNew \cup ids

Put(i, item) == remote' = [remote EXCEPT ![i] = item]

\* DELETE on an item takes what it contains along.
DeletePermanently(i) ==
    LET gone == {i} \cup {c \in Ids : remote[c].parent = i /\ Exists(c)}
    IN  /\ remote' = [c \in Ids |-> IF c \in gone THEN [remote[c] EXCEPT !.state = "deleted"]
                                                 ELSE remote[c]]
        /\ Changed(gone)

-----------------------------------------------------------------------------
(* The watcher.  Everything but a removal is handled alike, and a run of   *)
(* equal events of one path counts once.                                   *)

Modified(p) == [path |-> p, removed |-> FALSE]
Removed(p)  == [path |-> p, removed |-> TRUE]

\* The last event of its path in the channel says the same.
Known(e) == \E k \in DOMAIN queue :
    queue[k] = e /\ \A j \in DOMAIN queue : j > k => queue[j].path # e.path

ReportOfOthers(e) == IF Watching /\ ~Known(e) /\ e.path # job.path THEN <<e>> ELSE <<>>

\* What an event adds to the channel.
Report(e) == IF Watching /\ ~Known(e) THEN <<e>> ELSE <<>>

Notify(e) == queue' = queue \o Report(e)

\* remove_dir_all and rm -r report what is inside a directory first.
LocalDelete(p) ==
    /\ local' = [q \in Paths |-> IF q \in {p} \cup Below(p) THEN 0 ELSE local[q]]
    /\ LET inside == {e \in {Removed(q) : q \in Below(p)} :
                       local[e.path] # 0 /\ Report(e) # <<>>}
       IN  queue' = queue \o SetToSeq(inside) \o Report(Removed(p))

HasPlace(p) == Len(p) = 2 => local[Above(p)] # 0

-----------------------------------------------------------------------------
(* The state database.                                                     *)

RowsOf(i) == {p \in Paths : rows[p].id = i}

\* record_state
Record(p, i, md5) ==
    /\ rows' = [rows EXCEPT ![p] = [id |-> i, md5 |-> md5]]
    /\ twice' = IF RowsOf(i) \subseteq {p} THEN twice ELSE twice \cup {i}

\* remove_file_state
RemoveRowOf(p) ==
    /\ rows' = [rows EXCEPT ![p] = NoRow]
    /\ UNCHANGED twice

\* parent_drive_folder_id: the row of the directory above, else the root.
ParentOf(p) == IF Len(p) = 1 THEN Root ELSE rows[Above(p)].id

-----------------------------------------------------------------------------
Init ==
    /\ local = [p \in Paths |-> IF Resumed /\ p \in DOMAIN Seed THEN 1 ELSE 0]
    /\ remote = [i \in Ids |->
         IF \E p \in DOMAIN Seed : Seed[p] = i
         THEN LET p == CHOOSE q \in DOMAIN Seed : Seed[q] = i
              IN  [name |-> Last(p), state |-> "live",
                   version |-> IF p \in Dirs THEN 0 ELSE 1,
                   parent |-> IF Len(p) = 1 THEN Root ELSE Seed[Above(p)]]
         ELSE [name |-> CHOOSE n \in FileNames : TRUE, state |-> "none",
               version |-> 0, parent |-> Root]]
    /\ rows = [p \in Paths |->
         IF Resumed /\ p \in DOMAIN Seed
         THEN [id |-> Seed[p], md5 |-> IF p \in Dirs THEN 0 ELSE 1]
         ELSE NoRow]
    /\ twice = {}
    /\ hasToken = Resumed
    /\ afterToken = {}
    /\ afterNew = {}
    /\ pc = "off"
    /\ frames = <<>>
    /\ job = NoJob
    /\ content = 0
    /\ batch = {}
    /\ queue = <<>>
    /\ errors = {}
    /\ clock = 1
    /\ left = Budget

Spend(kind) == left[kind] > 0 /\ left' = [left EXCEPT ![kind] = @ - 1]

Edit(kind) ==
    /\ left[kind] > 0 /\ left["edit"] > 0
    /\ left' = [left EXCEPT ![kind] = @ - 1, !["edit"] = @ - 1]

-----------------------------------------------------------------------------
(* The users of the local tree and of Drive.                               *)

EditTime == clock' = clock + 1

UserMayEdit == Watching \/ EditsWhileOff

UserWrites(p) ==
    /\ UserMayEdit /\ HasPlace(p)
    /\ p \in Dirs => local[p] = 0
    /\ Edit("write") /\ EditTime
    /\ local' = [local EXCEPT ![p] = clock + 1]
    /\ Notify(Modified(p))
    /\ UNCHANGED <<driveVars, dbVars, workerVars, errors>>

\* A rename is reported as a modification of both names; what a directory
\* contains moves along without an event of its own.
UserMoves(p, q) ==
    /\ UserMayEdit /\ HasPlace(q)
    /\ local[p] # 0 /\ local[q] = 0 /\ p # q
    /\ (p \in Dirs) = (q \in Dirs)
    /\ Edit("move")
    /\ local' = [x \in Paths |-> CASE x = q -> local[p]
                                 [] x = p -> 0
                                 [] x \in Below(q) -> local[Append(p, Last(x))]
                                 [] x \in Below(p) -> 0
                                 [] OTHER -> local[x]]
    /\ queue' = queue \o Report(Modified(p)) \o Report(Modified(q))
    /\ UNCHANGED <<driveVars, dbVars, workerVars, errors, clock>>

UserRemoves(p) ==
    /\ UserMayEdit
    /\ local[p] # 0
    /\ Edit("remove")
    /\ LocalDelete(p)
    /\ UNCHANGED <<driveVars, dbVars, workerVars, errors, clock>>

RemoteWrites(i) ==
    /\ Live(i) /\ ~IsDir(i) /\ ~InTrash(i)
    /\ Edit("remote write") /\ EditTime
    /\ Put(i, [remote[i] EXCEPT !.version = clock + 1])
    /\ Changed({i})
    /\ UNCHANGED <<local, dbVars, workerVars, queue, errors>>

\* Drive may or may not list what is in a trashed folder.
RemoteTrashes(i) ==
    /\ Live(i) /\ ~InTrash(i)
    /\ Edit("trash")
    /\ Put(i, [remote[i] EXCEPT !.state = "trashed"])
    /\ \E listed \in {{i}, {i} \cup Children(i)} : Changed(listed)
    /\ UNCHANGED <<local, dbVars, workerVars, queue, errors, clock>>

RemoteDeletes(i) ==
    /\ Exists(i)
    /\ Edit("delete")
    /\ DeletePermanently(i)
    /\ UNCHANGED <<local, dbVars, workerVars, queue, errors, clock>>

RemoteCreates(i, n, dir) ==
    /\ i \in FreshIds
    /\ dir # Root => Live(dir) /\ IsDir(dir)
    /\ Edit("remote write") /\ EditTime
    /\ Put(i, [name |-> n, parent |-> dir, version |-> clock + 1, state |-> "live"])
    /\ Changed({i})
    /\ UNCHANGED <<local, dbVars, workerVars, queue, errors>>

Users ==
    \/ \E p \in Paths : UserWrites(p) \/ UserRemoves(p)
    \/ \E p, q \in Paths : UserMoves(p, q)
    \/ \E i \in Ids : RemoteWrites(i) \/ RemoteTrashes(i) \/ RemoteDeletes(i)
    \/ \E i \in Ids, n \in FileNames, dir \in {Root} \cup Ids : RemoteCreates(i, n, dir)

-----------------------------------------------------------------------------
(* What can go wrong where the code has a `?`.                             *)

\* The operation at hand cannot succeed.
Refused ==
    \/ pc \in {"fetch", "refetch"} /\ ~Exists(job.id)
    \/ pc \in {"write", "rewrite"} /\ ~HasPlace(job.path)
    \/ pc \in {"keep", "keep dir", "rekeep", "read"} /\ (local[job.path] = 0 \/ ~MayChown)
    \/ pc = "upload" /\ job.id # 0 /\ ~Exists(job.id)
    \/ pc = "upload" /\ job.id = 0 /\ (~Exists(job.parent) \/ FreshIds = {})
    \/ pc = "create" /\ (~Exists(job.parent) \/ FreshIds = {})
    \/ pc = "erase" /\ ~Exists(job.id)
    \/ pc = "list" /\ ~Exists(job.id)

\* A request times out before or after Drive served it, or a disk operation, a
\* chown or the database fails.  A lookup that fails as an event is taken off
\* the queue ends like a failure in the next place.
Fallible == pc \notin {"off", "select"}

Failed ==
    /\ \/ Refused /\ UNCHANGED left
       \/ Fallible /\ ~Refused /\ Spend("fault")
    /\ job' = NoJob /\ content' = 0 /\ frames' = <<>> /\ batch' = {}
    /\ pc' = IF pc \in InitialPcs THEN "off" ELSE "select"
    /\ errors' = errors \cup
         {CASE pc \in InitialPcs -> InitialWork
            [] pc \in LocalPcs   -> job.path
            [] pc \in PollPcs    -> RemoteWork}
    /\ UNCHANGED <<local, driveVars, dbVars, queue, clock>>

Goes(to) == ~Refused /\ pc' = to

-----------------------------------------------------------------------------
(* run_folder and initial_pull.                                            *)

\* start_folder; the rows and the token are those of the last run.
Start ==
    /\ pc = "off"
    /\ Spend("start")
    /\ pc' = "list"
    /\ job' = [NoJob EXCEPT !.id = Root]
    /\ errors' = {}
    /\ UNCHANGED <<local, driveVars, dbVars, frames, content, batch, queue, clock>>

\* The task is aborted at an await, or the daemon dies: what was in memory is gone.
Abort ==
    /\ pc # "off"
    /\ left["start"] > 0
    /\ pc' = "off"
    /\ job' = NoJob /\ content' = 0 /\ frames' = <<>> /\ batch' = {} /\ queue' = <<>>
    /\ errors' = {}
    /\ UNCHANGED <<local, driveVars, dbVars, userVars>>

\* list_children of the folder at job.path.
PullList ==
    /\ pc = "list" /\ Goes("pull")
    /\ frames' = Append(frames,
         [at |-> job.path,
          rest |-> {[id |-> c, name |-> remote[c].name, md5 |-> remote[c].version] :
                      c \in Children(job.id)}])
    /\ job' = NoJob
    /\ UNCHANGED <<local, driveVars, dbVars, content, batch, queue, errors, userVars>>

\* Two rows may carry one id; SQLite answers with either.
NeedsDownload(p, c) ==
    IF RowsOf(c.id) = {} THEN {TRUE}
                         ELSE {q # p \/ rows[q].md5 # c.md5 : q \in RowsOf(c.id)}

\* The next child of the listing on top, or back to the one below it.
PullChild ==
    /\ pc = "pull" /\ frames # <<>>
    /\ LET top == Last(frames)
       IN  IF top.rest = {}
           THEN /\ frames' = Front(frames)
                /\ UNCHANGED <<pc, job>>
           ELSE \E c \in top.rest : \E needed \in NeedsDownload(Append(top.at, c.name), c) :
                  LET p == Append(top.at, c.name)
                  IN  /\ frames' = Append(Front(frames), [top EXCEPT !.rest = @ \ {c}])
                      /\ IF c.name \in FileNames /\ ~needed
                         THEN UNCHANGED <<pc, job>>
                         ELSE /\ job' = [path |-> p, id |-> c.id, md5 |-> c.md5, parent |-> 0]
                              /\ pc' = IF c.name \in DirNames THEN "mkdir" ELSE "fetch"
    /\ UNCHANGED <<local, driveVars, dbVars, content, batch, queue, errors, userVars>>

PullMkdir ==
    /\ pc = "mkdir" /\ Goes("keep dir")
    /\ local' = [local EXCEPT ![job.path] = IF @ = 0 THEN 1 ELSE @]
    /\ UNCHANGED <<driveVars, dbVars, frames, job, content, batch, queue, errors, userVars>>

\* chown, record_state, and the recursion into the folder.
PullKeepDir ==
    /\ pc = "keep dir" /\ Goes("list")
    /\ Record(job.path, job.id, 0)
    /\ UNCHANGED <<local, driveVars, hasToken, frames, job, content, batch, queue, errors,
                   userVars>>

DownloadAndRecord(from, to) ==
    /\ pc = from /\ Goes(to)
    /\ content' = remote[job.id].version
    /\ Record(job.path, job.id, job.md5)
    /\ UNCHANGED <<local, driveVars, hasToken, frames, job, batch, queue, errors, userVars>>

Download(from, to) ==
    /\ pc = from /\ Goes(to)
    /\ content' = remote[job.id].version
    /\ UNCHANGED <<local, driveVars, dbVars, frames, job, batch, queue, errors, userVars>>

WriteLocal(from, to) ==
    /\ pc = from /\ Goes(to)
    /\ local' = [local EXCEPT ![job.path] = content]
    /\ Notify(Modified(job.path))
    /\ content' = 0
    /\ UNCHANGED <<driveVars, dbVars, frames, job, batch, errors, userVars>>

\* chown and record_state with the md5 of the listing.
Keep(from, to) ==
    /\ pc = from /\ Goes(to)
    /\ Record(job.path, job.id, job.md5)
    /\ job' = NoJob
    /\ IF ChownNotifies THEN Notify(Modified(job.path)) ELSE UNCHANGED queue
    /\ UNCHANGED <<local, driveVars, hasToken, frames, content, batch, errors, userVars>>

\* The pull is over; a token is asked for only when none is stored.
PullDone ==
    /\ pc = "pull" /\ frames = <<>>
    /\ pc' = IF hasToken THEN "watch" ELSE "ask token"
    /\ UNCHANGED <<local, driveVars, dbVars, frames, job, content, batch, queue, errors,
                   userVars>>

AskToken ==
    /\ pc = "ask token" /\ Goes("store token")
    /\ afterNew' = {}
    /\ UNCHANGED <<local, remote, afterToken, dbVars, frames, job, content, batch, queue,
                   errors, userVars>>

StoreToken ==
    /\ pc = "store token" /\ Goes("watch")
    /\ hasToken' = TRUE
    /\ afterToken' = afterNew
    /\ UNCHANGED <<local, remote, afterNew, rows, twice, frames, job, content, batch, queue,
                   errors, userVars>>

\* LocalWatcher::watch, and finish("initial sync", Ok).
Watch ==
    /\ pc = "watch" /\ Goes("select")
    /\ errors' = errors \ {InitialWork}
    /\ UNCHANGED <<local, driveVars, dbVars, frames, job, content, batch, queue, userVars>>

InitialPull ==
    \/ PullList \/ PullChild \/ PullMkdir \/ PullKeepDir
    \/ Download("fetch", "write") \/ WriteLocal("write", "keep") \/ Keep("keep", "pull")
    \/ PullDone \/ AskToken \/ StoreToken \/ Watch

-----------------------------------------------------------------------------
(* handle_local_change.                                                    *)

\* Back to the select!, with the errors of these works cleared.
Done(works) ==
    /\ pc' = "select"
    /\ job' = NoJob
    /\ content' = 0
    /\ errors' = errors \ works

\* A Removed event: the row tells whether there is something to delete.
TakeRemoved ==
    /\ pc = "select" /\ queue # <<>> /\ Head(queue).removed
    /\ queue' = Tail(queue)
    /\ LET p == Head(queue).path
       IN  IF rows[p].id = 0
           THEN Done({p})
           ELSE /\ pc' = "erase"
                /\ job' = [NoJob EXCEPT !.path = p, !.id = rows[p].id]
                /\ UNCHANGED <<content, errors>>
    /\ UNCHANGED <<local, driveVars, dbVars, frames, batch, userVars>>

DeleteFile ==
    /\ pc = "erase" /\ Goes("forget")
    /\ DeletePermanently(job.id)
    /\ UNCHANGED <<local, dbVars, frames, job, content, batch, queue, errors, userVars>>

ForgetDeletedId ==
    /\ pc = "forget" /\ ~Refused
    /\ rows' = [rows EXCEPT ![job.path].id = 0]
    /\ Done({job.path})
    /\ UNCHANGED <<local, driveVars, twice, hasToken, frames, batch, queue, userVars>>

ForgetDeleted ==
    /\ pc = "forget" /\ ~Refused
    /\ RemoveRowOf(job.path)
    /\ Done({job.path})
    /\ UNCHANGED <<local, driveVars, hasToken, frames, batch, queue, userVars>>

TakeModified ==
    /\ pc = "select" /\ queue # <<>> /\ ~Head(queue).removed
    /\ queue' = Tail(queue)
    /\ pc' = "stat"
    /\ job' = [NoJob EXCEPT !.path = Head(queue).path]
    /\ UNCHANGED <<local, driveVars, dbVars, frames, content, batch, errors, userVars>>

\* metadata(): gone, a directory, or a file.
Stat ==
    /\ pc = "stat"
    /\ LET p == job.path
       IN  \/ /\ local[p] = 0
              /\ Done(IF rows[p].id = 0 THEN {p} ELSE {})
           \/ /\ local[p] # 0 /\ p \in Files
              /\ pc' = "read"
              /\ UNCHANGED <<job, content, errors>>
           \/ /\ local[p] # 0 /\ p \in Dirs
              /\ IF rows[p].id # 0
                 THEN Done({p})
                 ELSE /\ pc' = "create"
                      /\ job' = [job EXCEPT !.parent = ParentOf(p)]
                      /\ UNCHANGED <<content, errors>>
    /\ UNCHANGED <<local, driveVars, dbVars, frames, batch, queue, userVars>>

\* read, chown, and the lookups of the row and of the parent's row.
Read ==
    /\ pc = "read" /\ Goes("upload")
    /\ content' = local[job.path]
    /\ IF ChownNotifies THEN Notify(Modified(job.path)) ELSE UNCHANGED queue
    /\ job' = [job EXCEPT !.id = rows[job.path].id, !.parent = ParentOf(job.path)]
    /\ UNCHANGED <<local, driveVars, dbVars, frames, batch, errors, userVars>>

NewItem(i, version) ==
    /\ Put(i, [name |-> Last(job.path), parent |-> job.parent, version |-> version,
               state |-> "live"])
    /\ Changed({i})
    /\ job' = [job EXCEPT !.id = i, !.md5 = IF UploadAnswersMd5 THEN version ELSE 0]

\* upload_file: an update of the tracked item, or a new one.
Upload ==
    /\ pc = "upload" /\ Goes("record")
    /\ IF job.id # 0
       THEN /\ Put(job.id, [remote[job.id] EXCEPT !.version = content])
            /\ Changed({job.id})
            /\ job' = [job EXCEPT !.md5 = IF UploadAnswersMd5 THEN content ELSE 0]
       ELSE \E i \in FreshIds : NewItem(i, content)
    /\ UNCHANGED <<local, dbVars, frames, content, batch, queue, errors, userVars>>

CreateFolder ==
    /\ pc = "create" /\ Goes("record")
    /\ \E i \in FreshIds : NewItem(i, 0)
    /\ UNCHANGED <<local, dbVars, frames, content, batch, queue, errors, userVars>>

RecordUpload ==
    /\ pc = "record" /\ ~Refused
    /\ Record(job.path, job.id, job.md5)
    /\ Done({job.path})
    /\ UNCHANGED <<local, driveVars, hasToken, frames, batch, queue, userVars>>

LocalChange ==
    \/ TakeRemoved \/ DeleteFile \/ ForgetDeleted
    \/ TakeModified \/ Stat \/ Read \/ Upload \/ CreateFolder \/ RecordUpload

-----------------------------------------------------------------------------
(* poll_remote_changes.                                                    *)

PollTick ==
    /\ pc = "select"
    /\ pc' = "changes"
    /\ UNCHANGED <<local, driveVars, dbVars, frames, job, content, batch, queue, errors,
                   userVars>>

ListChangesAndMoveToken ==
    /\ pc = "changes" /\ Goes("apply")
    /\ batch' = {[id |-> i, gone |-> ~Live(i) \/ InTrash(i), md5 |-> remote[i].version] :
                   i \in afterToken}
    /\ afterNew' = {} /\ afterToken' = {}
    /\ UNCHANGED <<local, remote, dbVars, frames, job, content, queue, errors, userVars>>

\* list_changes: each changed item once, as it is when Drive answers.
ListChanges ==
    /\ pc = "changes" /\ Goes("apply")
    /\ batch' = {[id |-> i, gone |-> ~Live(i) \/ InTrash(i), md5 |-> remote[i].version] :
                   i \in afterToken}
    /\ afterNew' = {}
    /\ UNCHANGED <<local, remote, afterToken, dbVars, frames, job, content, queue, errors,
                   userVars>>


\* The next change: untracked, gone, unchanged, or to be downloaded.
ApplyChange ==
    /\ pc = "apply"
    /\ \E c \in batch :
         /\ batch' = batch \ {c}
         /\ IF RowsOf(c.id) = {}
            THEN UNCHANGED <<pc, job>>
            ELSE \E p \in RowsOf(c.id) :
                   IF ~c.gone /\ rows[p].md5 = c.md5
                   THEN UNCHANGED <<pc, job>>
                   ELSE /\ job' = [path |-> p, id |-> c.id, md5 |-> c.md5, parent |-> 0]
                        /\ pc' = IF c.gone THEN "remove" ELSE "refetch"
    /\ UNCHANGED <<local, driveVars, dbVars, frames, content, queue, errors, userVars>>

RemoveLocal ==
    /\ pc = "remove" /\ Goes("unrow")
    /\ IF local[job.path] # 0 THEN LocalDelete(job.path) ELSE UNCHANGED <<local, queue>>
    /\ UNCHANGED <<driveVars, dbVars, frames, job, content, batch, errors, userVars>>

\* Only the row of the removed path itself goes.
RemoveRow ==
    /\ pc = "unrow" /\ Goes("apply")
    /\ RemoveRowOf(job.path)
    /\ job' = NoJob
    /\ UNCHANGED <<local, driveVars, hasToken, frames, content, batch, queue, errors, userVars>>

\* All changes are applied: only now does the token move on.
SetToken ==
    /\ pc = "apply" /\ batch = {}
    /\ afterToken' = afterNew
    /\ Done({RemoteWork})
    /\ UNCHANGED <<local, remote, afterNew, dbVars, frames, batch, queue, userVars>>

RemoteChanges ==
    \/ PollTick \/ ListChanges \/ ApplyChange \/ RemoveLocal \/ RemoveRow
    \/ Download("refetch", "rewrite") \/ WriteLocal("rewrite", "rekeep")
    \/ Keep("rekeep", "apply") \/ SetToken

-----------------------------------------------------------------------------
Worker == InitialPull \/ LocalChange \/ RemoteChanges \/ Failed

Next == Users \/ Start \/ Abort \/ Worker

Spec == Init /\ [][Next]_vars

\* tokio::select! draws a branch at random among those that are ready, and
\* every request, disk operation and poll interval ends.
Fairness ==
    /\ WF_vars(Start)
    /\ WF_vars(InitialPull \/ Failed)
    /\ WF_vars(LocalChange \/ RemoteChanges \/ Failed)
    /\ SF_vars(TakeRemoved \/ TakeModified)
    /\ SF_vars(PollTick)

FairSpec == Spec /\ Fairness

-----------------------------------------------------------------------------
Jobs == [path : Paths \cup {<<>>}, id : Ids \cup {0}, md5 : Versions, parent : Ids \cup {Root}]

\* The types, and a row without an id holds no md5.
TypeOK ==
    /\ local \in [Paths -> Versions]
    /\ remote \in [Ids -> [name : Names, parent : Ids \cup {Root}, version : Versions,
                           state : {"none", "live", "trashed", "deleted"}]]
    /\ rows \in [Paths -> [id : Ids \cup {0}, md5 : Versions]]
    /\ \A p \in Paths : rows[p].id = 0 => rows[p] = NoRow
    /\ twice \subseteq Ids
    /\ hasToken \in BOOLEAN
    /\ afterToken \subseteq Ids /\ afterNew \subseteq Ids
    /\ pc \in InitialPcs \cup LocalPcs \cup PollPcs \cup {"off", "select"}
    /\ job \in Jobs
    /\ content \in Versions
    /\ \A c \in batch : c \in [id : Ids, gone : BOOLEAN, md5 : Versions]
    /\ \A k \in DOMAIN queue : queue[k] \in [path : Paths, removed : BOOLEAN]
    /\ \A k \in DOMAIN frames : \A c \in frames[k].rest :
         c \in [id : Ids, name : Names, md5 : Versions]
    /\ errors \subseteq Paths \cup {InitialWork, RemoteWork}
    /\ clock \in Versions

\* A row that no longer says what Drive holds.
Behind(p) == LET item == remote[rows[p].id]
             IN  rows[p].id # 0 /\ (item.state # "live" \/ item.version # rows[p].md5)

\* No change on Drive to an item the worker tracks is ever lost: as long as a
\* row is behind Drive, its item is listed after the stored token, through
\* failed polls, aborts, crashes and restarts (engine.rs, poll_remote_changes:
\* the token moves only after the whole batch).  Only an item that got rows at
\* two paths is left out: a poll brings one of them up to date.
TrackedChangesNotLost ==
    \A p \in Paths :
        hasToken /\ Behind(p) /\ rows[p].id \notin twice => rows[p].id \in afterToken

\* The files the worker answers for once it watches: those that are here, with or
\* without a row, and those with a row.  A file that is on Drive only is none of
\* them: a poll skips a change of an item without a row (engine.rs,
\* poll_remote_changes; crates/gdrive-sync/README.md, limitations), so a file
\* added on Drive while the folder is watched, or left there by an upload that
\* failed after Drive had taken it, is not looked at before the next start's
\* pull.  The two properties below say nothing of it.
Kept(p) == local[p] # 0 \/ rows[p].id # 0

\* The file has a row, and the item of that row is on Drive with its content.
InStep(p) == LET i == rows[p].id
             IN  i # 0 /\ Live(i) /\ ~InTrash(i) /\ local[p] = remote[i].version

\* Drive lists a change of the item, or of the folder it is in.
Listed(i) == {i, remote[i].parent} \cap afterToken # {}

\* While the folder is watched, a file that is here or has a row, and differs
\* from Drive, is never forgotten: an event of it waits, the worker is at it,
\* Drive lists a change of it after the stored token, or its error is shown
\* (engine.rs, the loop of run_folder: a failed change is not tried again, so
\* its error must stand).
NoSilentDivergence ==
    Watching => \A p \in Files : Kept(p) =>
        \/ InStep(p)
        \/ \E k \in DOMAIN queue : queue[k].path = p
        \/ job.path = p
        \/ rows[p].id # 0 /\ Listed(rows[p].id)
        \/ p \in errors


\* "Initial recursive pull so both sides start in a known-consistent state"
\* (engine.rs, run_folder): when the pull is over and the token is stored,
\* every file on Drive is here with Drive's content, or Drive lists a change
\* of it after the token.
KnownConsistentStart ==
    pc = "watch" => \A i \in Ids :
        Live(i) /\ ~InTrash(i) /\ ~IsDir(i) =>
            \/ Listed(i)
            \/ \E p \in RowsOf(i) : local[p] = remote[i].version

\* "conflict resolution is last writer wins based on modified time"
\* (engine.rs, module comment): the worker never replaces the content of a
\* local file by one that was written earlier.
LastWriterWins ==
    [][\A p \in Files : local[p] # 0 /\ local'[p] # 0 => local'[p] >= local[p]]_vars

\* "not being able to chown shouldn't stop files from being synced"
\* (ownership.rs, apply_ownership): when no request, disk or database operation
\* fails and no user interferes, nothing is reported as failed.
ChownNeverStopsSync ==
    (\A kind \in DOMAIN left \ {"start"} : left[kind] = Budget[kind]) => errors = {}
=============================================================================

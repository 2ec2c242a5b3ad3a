------------------------- MODULE FolderSync_proofs -------------------------
(***************************************************************************)
(* A folder that was synchronised before loses no change on Drive to a     *)
(* file it tracks, whatever users, faults, aborts and restarts do: the     *)
(* proof of TrackedChangesNotLost.                                         *)
(* And the types of the worker's state, with what each program counter     *)
(* says of the work in hand: the proof of TypeOK.                          *)
(***************************************************************************)
EXTENDS FolderSync, SequenceTheorems, FiniteSetTheorems, TLAPS

Item  == [name : Names, parent : Ids \cup {Root}, version : Nat,
          state : {"none", "live", "trashed", "deleted"}]
Child == [id : Ids, name : Names, md5 : Nat]
Frame == [at : Seq(Names), rest : SUBSET Child]
Applying == PollPcs \ {"changes"}
Pulling  == {"list", "pull", "mkdir", "keep dir", "fetch", "write", "keep"}

\* Contents and rows; the events in the queue may be about any path.
Typed ==
    /\ local \in [Paths -> Nat]
    /\ remote \in [Ids -> Item]
    /\ rows \in [Paths -> [id : Ids \cup {0}, md5 : Nat]]
    /\ hasToken /\ 0 \notin afterToken /\ 0 \notin afterNew
    /\ pc \notin {"ask token", "store token"}
    /\ frames \in Seq(Frame)
    /\ pc \in Pulling \/ frames = <<>>
    /\ job = [path |-> job.path, id |-> job.id, md5 |-> job.md5, parent |-> job.parent]
    /\ content \in Nat /\ clock \in Nat

\* What a listing or a change said of an item still holds, or there is a
\* change of it in `after`.
UpToDate(i, md5, after) ==
    i \in after \/ (remote[i].state = "live" /\ remote[i].version = md5)

\* The path of a file never stands for a folder.
OfKind(p, i) ==
    /\ i \in Ids /\ remote[i].state # "none"
    /\ p \in Files => remote[i].name \in FileNames

FoldersPlain == \A i \in Ids : remote[i].name \in DirNames => remote[i].version = 0

RowsOK ==
    /\ \A p \in Paths : rows[p].id # 0 => OfKind(p, rows[p].id)
    /\ \A p, q \in Paths :
         p # q /\ rows[p].id = rows[q].id /\ rows[p].id # 0 => rows[p].id \in twice

ListingOK(rest) ==
    \A c \in rest : /\ remote[c.id].state # "none" /\ remote[c.id].name = c.name
                    /\ UpToDate(c.id, c.md5, afterToken)

FramesOK == \A k \in 1..Len(frames) : ListingOK(frames[k].rest)

\* What the step at hand relies on since the last await.
JobOK ==
    /\ pc \in {"list", "mkdir", "keep dir"} => job.path \in Seq(Names)
    /\ pc \in {"mkdir", "keep dir"} =>
         OfKind(job.path, job.id) /\ UpToDate(job.id, 0, afterToken)
    /\ pc \in {"fetch", "write", "keep"} =>
         /\ OfKind(job.path, job.id) /\ job.md5 \in Nat
         /\ UpToDate(job.id, job.md5, afterToken)
    /\ pc = "erase" => job.id # 0
    /\ pc \in {"read", "upload"} => job.path \in Files
    /\ pc = "create" => job.path \in Dirs
    /\ pc \in {"upload", "create"} => job.parent \in Ids \cup {Root}
    /\ pc = "upload" => job.id = 0 \/ OfKind(job.path, job.id)
    /\ pc = "record" => OfKind(job.path, job.id) /\ job.md5 \in Nat /\ job.id \in afterToken
    /\ pc \in {"remove", "unrow"} => job.path \in Paths /\ rows[job.path].id = job.id
    /\ pc \in {"refetch", "rewrite", "rekeep"} =>
         /\ OfKind(job.path, job.id) /\ job.md5 \in Nat
         /\ UpToDate(job.id, job.md5, afterNew)

\* Rows that are behind are listed after the new token, in the rest of the
\* batch, or at work.
PollOK ==
    pc \in Applying =>
        /\ afterNew \subseteq afterToken
        /\ \A c \in batch : /\ c.id # 0
                            /\ c.id \in Ids =>
                                 c.md5 \in Nat /\ (c.gone \/ UpToDate(c.id, c.md5, afterNew))
        /\ \A p \in Paths : Behind(p) /\ rows[p].id \notin twice =>
             \/ rows[p].id \in afterNew
             \/ \E c \in batch : c.id = rows[p].id
             \/ pc # "apply" /\ job.id = rows[p].id

IInv ==
    /\ Typed
    /\ FoldersPlain
    /\ RowsOK
    /\ TrackedChangesNotLost
    /\ FramesOK
    /\ JobOK
    /\ PollOK

-----------------------------------------------------------------------------
(* What happens to Drive.                                                  *)

\* Items that somebody may know keep their names, and a change of one of them
\* is listed after every token.
DriveMoves ==
    /\ remote' \in [Ids -> Item]
    /\ \A i \in Ids : remote[i].state # "none" =>
         /\ remote'[i].state # "none" /\ remote'[i].name = remote[i].name
         /\ remote'[i] = remote[i] \/ i \in afterToken' \cap afterNew'
    /\ FoldersPlain'
    /\ \E ids : 0 \notin ids /\ Changed(ids)

\* Creating an item, or changing one.
LEMMA PutMoves ==
    ASSUME Typed, FoldersPlain, NEW i \in Ids, NEW item \in Item, Put(i, item),
           NEW ids \in SUBSET Ids, Changed(ids), i \in ids,
           remote[i].state # "none" => item.name = remote[i].name,
           item.state # "none",
           item.name \in DirNames => item.version = 0
    PROVE  DriveMoves
<1>1. remote'[i] = item /\ \A j \in Ids \ {i} : remote'[j] = remote[j]
  BY DEF Put, Typed
<1>2. remote' \in [Ids -> Item] /\ i \in afterToken' \cap afterNew'
  BY DEF Put, Typed, Changed
<1>3. 0 \notin ids
  BY DEF Ids
<1> QED
  BY <1>1, <1>2, <1>3 DEF DriveMoves, FoldersPlain

LEMMA DeleteMoves ==
    ASSUME Typed, FoldersPlain, NEW i, i # 0, DeletePermanently(i)
    PROVE  DriveMoves
<1> DEFINE gone == {i} \cup {c \in Ids : remote[c].parent = i /\ Exists(c)}
<1>1. /\ remote' = [c \in Ids |-> IF c \in gone THEN [remote[c] EXCEPT !.state = "deleted"]
                                               ELSE remote[c]]
      /\ Changed(gone)
  BY DEF DeletePermanently
<1>5. 0 \notin gone
  BY DEF Ids
<1> HIDE DEF gone
<1>2. \A c \in Ids : /\ remote[c] \in Item
                     /\ [remote[c] EXCEPT !.state = "deleted"] \in Item
                     /\ [remote[c] EXCEPT !.state = "deleted"].name = remote[c].name
                     /\ [remote[c] EXCEPT !.state = "deleted"].version = remote[c].version
                     /\ [remote[c] EXCEPT !.state = "deleted"].state = "deleted"
  BY DEF Typed, Item
<1>3. remote' \in [Ids -> Item]
  BY <1>1, <1>2
<1>4. \A c \in gone : c \in afterToken' \cap afterNew'
  BY <1>1 DEF Changed
<1> QED
  BY <1>1, <1>2, <1>3, <1>4, <1>5 DEF DriveMoves, FoldersPlain

\* What is known of an item stays true, or a change of it is listed.
LEMMA KnowledgeStays ==
    ASSUME Typed, DriveMoves
    PROVE  /\ \A p, i : OfKind(p, i) =>
                i \in Ids /\ remote'[i].state # "none"
                /\ (p \in Files => remote'[i].name \in FileNames)
           /\ \A i \in Ids : \A md5 : remote[i].state # "none" =>
                /\ UpToDate(i, md5, afterToken) =>
                     \/ i \in afterToken'
                     \/ remote'[i].state = "live" /\ remote'[i].version = md5
                /\ UpToDate(i, md5, afterNew) =>
                     \/ i \in afterNew'
                     \/ remote'[i].state = "live" /\ remote'[i].version = md5
           /\ afterToken \subseteq afterToken' /\ afterNew \subseteq afterNew'
           /\ afterNew \subseteq afterToken => afterNew' \subseteq afterToken'
BY DEF DriveMoves, OfKind, UpToDate, Changed

LEMMA BoardStays ==
    ASSUME IInv, DriveMoves, UNCHANGED dbVars
    PROVE  FoldersPlain' /\ RowsOK' /\ TrackedChangesNotLost'
<1>1. FoldersPlain'
  BY DEF DriveMoves
<1>2. \A p \in Paths : rows[p].id # 0 => rows[p].id \in Ids
  BY DEF IInv, RowsOK, OfKind
<1>3. RowsOK'
  BY KnowledgeStays DEF IInv, RowsOK, OfKind, dbVars
<1>4. TrackedChangesNotLost'
  BY <1>2, KnowledgeStays DEF IInv, RowsOK, OfKind, TrackedChangesNotLost, Behind, UpToDate,
     dbVars, Typed
<1> QED
  BY <1>1, <1>3, <1>4

LEMMA ListingsStay ==
    ASSUME IInv, DriveMoves, UNCHANGED frames
    PROVE  FramesOK'
<1> SUFFICES ASSUME NEW k \in 1..Len(frames), NEW c \in frames[k].rest
             PROVE  /\ remote'[c.id].state # "none" /\ remote'[c.id].name = c.name
                    /\ UpToDate(c.id, c.md5, afterToken)'
  BY DEF FramesOK, ListingOK, UpToDate
<1>1. frames[k] \in Frame
  BY ElementOfSeq DEF IInv, Typed
<1>2. c \in Child
  BY <1>1 DEF Frame
<1>3. c.id \in Ids /\ remote[c.id].state # "none" /\ remote[c.id].name = c.name
      /\ UpToDate(c.id, c.md5, afterToken)
  BY <1>2 DEF IInv, FramesOK, ListingOK, Child
<1> QED
  BY <1>3, KnowledgeStays DEF IInv, UpToDate, DriveMoves

LEMMA PollStays ==
    ASSUME IInv, DriveMoves, UNCHANGED <<dbVars, pc, job, batch>>
    PROVE  PollOK'
<1> SUFFICES ASSUME pc \in Applying
             PROVE  /\ afterNew' \subseteq afterToken'
                    /\ \A c \in batch :
                         /\ c.id # 0
                         /\ c.id \in Ids =>
                              c.md5 \in Nat /\ (c.gone \/ UpToDate(c.id, c.md5, afterNew)')
                    /\ \A p \in Paths : Behind(p)' /\ rows[p].id \notin twice =>
                         \/ rows[p].id \in afterNew'
                         \/ \E c \in batch : c.id = rows[p].id
                         \/ pc # "apply" /\ job.id = rows[p].id
  BY DEF PollOK, UpToDate, Behind, dbVars
<1>1. afterNew' \subseteq afterToken'
  BY KnowledgeStays DEF IInv, PollOK
<1>2. ASSUME NEW c \in batch
      PROVE  /\ c.id # 0
             /\ c.id \in Ids =>
                  c.md5 \in Nat /\ (c.gone \/ UpToDate(c.id, c.md5, afterNew)')
  BY KnowledgeStays DEF IInv, PollOK, UpToDate
<1>3. ASSUME NEW p \in Paths, Behind(p)', rows[p].id \notin twice
      PROVE  \/ rows[p].id \in afterNew'
             \/ \E c \in batch : c.id = rows[p].id
             \/ pc # "apply" /\ job.id = rows[p].id
  <2>1. rows[p].id # 0 /\ rows[p].id \in Ids /\ remote[rows[p].id].state # "none"
    BY <1>3 DEF IInv, RowsOK, OfKind, Behind, dbVars
  <2>2. rows[p].id \in afterNew' \/ Behind(p)
    BY <1>3, <2>1 DEF DriveMoves, Behind, dbVars
  <2> QED
    BY <1>3, <2>2, KnowledgeStays DEF IInv, PollOK
<1> QED
  BY <1>1, <1>2, <1>3

LEMMA JobStays ==
    ASSUME IInv, DriveMoves, UNCHANGED <<dbVars, pc, job>>
    PROVE  JobOK'
<1>1. job.id \in Ids => (remote[job.id].state # "none" =>
        /\ UpToDate(job.id, 0, afterToken) => UpToDate(job.id, 0, afterToken)'
        /\ UpToDate(job.id, job.md5, afterToken) => UpToDate(job.id, job.md5, afterToken)'
        /\ UpToDate(job.id, job.md5, afterNew) => UpToDate(job.id, job.md5, afterNew)')
  BY KnowledgeStays DEF IInv, UpToDate
<1>2. OfKind(job.path, job.id) => OfKind(job.path, job.id)'
  BY KnowledgeStays DEF IInv, OfKind
<1>3. OfKind(job.path, job.id) => job.id \in Ids /\ remote[job.id].state # "none"
  BY DEF OfKind
<1>4. afterToken \subseteq afterToken'
  BY KnowledgeStays DEF IInv
<1> QED
  BY <1>1, <1>2, <1>3, <1>4 DEF IInv, JobOK, dbVars

-----------------------------------------------------------------------------
(* The users.                                                              *)

\* Whoever leaves Drive, rows and tokens alone leaves alone what is said of them.
LEMMA BoardSame ==
    ASSUME IInv, UNCHANGED <<driveVars, dbVars>>
    PROVE  FoldersPlain' /\ RowsOK' /\ TrackedChangesNotLost'
BY DEF IInv, FoldersPlain, RowsOK, OfKind, TrackedChangesNotLost, Behind, driveVars, dbVars

LEMMA ListingsSame ==
    ASSUME IInv, UNCHANGED <<frames, remote, afterToken>>
    PROVE  FramesOK'
BY DEF IInv, FramesOK, ListingOK, UpToDate

LEMMA LocalEditKeepsIInv ==
    ASSUME IInv, local' \in [Paths -> Nat], clock' \in Nat,
           UNCHANGED <<driveVars, dbVars, workerVars>>
    PROVE  IInv'
<1>1. Typed'
  BY DEF IInv, Typed, driveVars, dbVars, workerVars
<1>2. JobOK'
  BY DEF IInv, JobOK, OfKind, UpToDate, driveVars, dbVars, workerVars
<1>3. PollOK'
  BY DEF IInv, PollOK, UpToDate, Behind, driveVars, dbVars, workerVars
<1>4. FramesOK'
  BY ListingsSame DEF driveVars, workerVars
<1> QED
  BY <1>1, <1>2, <1>3, <1>4, BoardSame DEF IInv

LEMMA RemoteEditKeepsIInv ==
    ASSUME IInv, DriveMoves, clock' \in Nat, UNCHANGED <<local, dbVars, workerVars>>
    PROVE  IInv'
<1>1. Typed'
  BY DEF IInv, Typed, DriveMoves, Changed, dbVars, workerVars
<1>2. JobOK' /\ PollOK' /\ FoldersPlain' /\ RowsOK' /\ TrackedChangesNotLost'
  BY JobStays, PollStays, BoardStays DEF workerVars
<1>3. FramesOK'
  BY ListingsStay DEF workerVars
<1> QED
  BY <1>1, <1>2, <1>3 DEF IInv

LEMMA TimeGoesOn ==
    ASSUME IInv
    PROVE  clock + 1 \in Nat
<1>1. clock \in Nat
  BY DEF IInv, Typed
<1> QED
  BY <1>1

LEMMA PairParts ==
    ASSUME NEW S, NEW d \in S, NEW n \in S
    PROVE  Front(<<d, n>>) = <<d>> /\ Last(<<d, n>>) = n
<1> DEFINE s == SubSeq(<<d, n>>, 1, 1)
<1>1. Len(<<d, n>>) = 2 /\ <<d, n>>[1] = d /\ <<d, n>>[2] = n
  OBVIOUS
<1>2. /\ s \in Seq(S) /\ Len(s) = 1 /\ s[1] = d
  <2>1. \A i \in 1..1 : <<d, n>>[i] \in S
    BY <1>1
  <2> QED
    BY <1>1, <2>1, SubSeqProperties
<1>3. <<d>> \in Seq(S) /\ Len(<<d>>) = 1 /\ <<d>>[1] = d
  OBVIOUS
<1> HIDE DEF s
<1>4. s = <<d>>
  BY <1>2, <1>3, SeqEqual
<1> QED
  BY <1>1, <1>4 DEF Front, Last, s

LEMMA AppendToOne ==
    ASSUME NEW d, NEW n
    PROVE  Append(<<d>>, n) = <<d, n>>
<1> DEFINE S == {d, n}
<1>1. <<d>> \in Seq(S) /\ Len(<<d>>) = 1 /\ <<d>>[1] = d
  OBVIOUS
<1>2. <<d, n>> \in Seq(S) /\ Len(<<d, n>>) = 2 /\ <<d, n>>[1] = d /\ <<d, n>>[2] = n
  OBVIOUS
<1>3. n \in S
  OBVIOUS
<1> HIDE DEF S
<1>4. /\ Append(<<d>>, n) \in Seq(S) /\ Len(Append(<<d>>, n)) = 2
      /\ Append(<<d>>, n)[1] = d /\ Append(<<d>>, n)[2] = n
  BY <1>1, <1>3, AppendProperties
<1>5. \A k \in 1..2 : k = 1 \/ k = 2
  OBVIOUS
<1> QED
  BY <1>2, <1>4, <1>5, SeqEqual

\* What is in a folder lies at a path of its own, and moves with the folder.
LEMMA PathsBelow ==
    ASSUME NEW p \in Paths, NEW x \in Below(p)
    PROVE  p \in Dirs /\ \A q \in Dirs : Append(q, Last(x)) \in Paths
<1>1. PICK d \in DirNames, n \in FileNames : x = <<d, n>>
  BY DEF Below, Paths, Dirs, Files
<1>2. Above(x) = <<d>> /\ Last(x) = n
  <2>1. d \in Names /\ n \in Names
    BY DEF Names
  <2> QED
    BY <1>1, <2>1, PairParts DEF Above
<1>3. p = <<d>>
  BY <1>2 DEF Below
<1>4. ASSUME NEW q \in Dirs PROVE Append(q, n) \in Files
  <2>1. PICK e \in DirNames : q = <<e>>
    BY DEF Dirs
  <2>2. <<e, n>> \in Files
    BY DEF Files
  <2> QED
    BY <2>1, <2>2, AppendToOne
<1> QED
  BY <1>1, <1>2, <1>3, <1>4 DEF Paths, Dirs

LEMMA UsersKeepIInv ==
    ASSUME IInv, Users
    PROVE  IInv'
<1>1. ASSUME NEW p \in Paths, UserWrites(p) PROVE IInv'
  <2>1. local' \in [Paths -> Nat] /\ clock' \in Nat
    BY <1>1, TimeGoesOn DEF UserWrites, EditTime, IInv, Typed
  <2> QED
    BY <1>1, <2>1, LocalEditKeepsIInv DEF UserWrites
<1>2. ASSUME NEW p \in Paths, UserRemoves(p) PROVE IInv'
  <2>1. local' \in [Paths -> Nat] /\ clock' \in Nat
    BY <1>2 DEF UserRemoves, LocalDelete, IInv, Typed
  <2> QED
    BY <1>2, <2>1, LocalEditKeepsIInv DEF UserRemoves
<1>3. ASSUME NEW p \in Paths, NEW q \in Paths, UserMoves(p, q) PROVE IInv'
  <2>1. \A x \in Below(q) : Append(p, Last(x)) \in Paths
    BY <1>3, PathsBelow DEF UserMoves
  <2>2. local' \in [Paths -> Nat] /\ clock' \in Nat
    BY <1>3, <2>1 DEF UserMoves, IInv, Typed
  <2> QED
    BY <1>3, <2>2, LocalEditKeepsIInv DEF UserMoves
<1>4. ASSUME NEW i \in Ids, RemoteWrites(i) PROVE IInv'
  <2> DEFINE item == [remote[i] EXCEPT !.version = clock + 1]
  <2>1. /\ item \in Item /\ item.name = remote[i].name /\ item.state = "live"
        /\ item.name \notin DirNames
    BY <1>4, TimeGoesOn DEF RemoteWrites, Live, IsDir, IInv, Typed, Item
  <2>2. Put(i, item) /\ Changed({i})
    BY <1>4 DEF RemoteWrites
  <2> HIDE DEF item
  <2>3. DriveMoves
    BY <2>1, <2>2, PutMoves DEF IInv
  <2> QED
    BY <1>4, <2>3, TimeGoesOn, RemoteEditKeepsIInv DEF RemoteWrites, EditTime
<1>5. ASSUME NEW i \in Ids, RemoteTrashes(i) PROVE IInv'
  <2> DEFINE item == [remote[i] EXCEPT !.state = "trashed"]
  <2>1. /\ item \in Item /\ item.name = remote[i].name /\ item.state = "trashed"
        /\ item.version = remote[i].version
    BY <1>5 DEF IInv, Typed, Item
  <2>2. PICK listed \in {{i}, {i} \cup Children(i)} : Changed(listed)
    BY <1>5 DEF RemoteTrashes
  <2>3. Put(i, item) /\ i \in listed /\ listed \in SUBSET Ids
        /\ (item.name \in DirNames => item.version = 0)
    BY <1>5, <2>1, <2>2 DEF RemoteTrashes, IInv, FoldersPlain, Children
  <2> HIDE DEF item
  <2>4. DriveMoves
    BY <2>1, <2>2, <2>3, PutMoves DEF IInv
  <2> QED
    BY <1>5, <2>4, RemoteEditKeepsIInv DEF RemoteTrashes, IInv, Typed
<1>6. ASSUME NEW i \in Ids, RemoteDeletes(i) PROVE IInv'
  <2>1. DriveMoves
    BY <1>6, DeleteMoves DEF RemoteDeletes, Ids, IInv
  <2> QED
    BY <1>6, <2>1, RemoteEditKeepsIInv DEF RemoteDeletes, IInv, Typed
<1>7. ASSUME NEW i \in Ids, NEW n \in FileNames, NEW dir \in {Root} \cup Ids,
             RemoteCreates(i, n, dir)
      PROVE  IInv'
  <2> DEFINE item == [name |-> n, parent |-> dir, version |-> clock + 1, state |-> "live"]
  <2>1. /\ item \in Item /\ item.name \notin DirNames /\ item.state # "none"
        /\ remote[i].state = "none"
    BY <1>7, NamesAssumption, TimeGoesOn DEF RemoteCreates, FreshIds, Names, IInv, Typed, Item
  <2>2. Put(i, item) /\ Changed({i})
    BY <1>7 DEF RemoteCreates
  <2> HIDE DEF item
  <2>3. DriveMoves
    BY <2>1, <2>2, PutMoves DEF IInv
  <2> QED
    BY <1>7, <2>3, TimeGoesOn, RemoteEditKeepsIInv DEF RemoteCreates, EditTime
<1> QED
  BY <1>1, <1>2, <1>3, <1>4, <1>5, <1>6, <1>7 DEF Users

-----------------------------------------------------------------------------
(* The worker: starting, ending, and the initial pull.                     *)

\* A step that neither Drive nor the database sees.
LEMMA QuietKeepsIInv ==
    ASSUME IInv, UNCHANGED <<driveVars, dbVars>>, Typed', JobOK', PollOK',
           FramesOK'
    PROVE  IInv'
BY BoardSame DEF IInv

\* A step that ends all that was under way.
LEMMA EndKeepsIInv ==
    ASSUME IInv, UNCHANGED <<driveVars, dbVars, local, clock>>,
           pc' \in {"off", "select", "list"}, job' \in {NoJob, [NoJob EXCEPT !.id = Root]},
           content' \in Nat, frames' = <<>>
    PROVE  IInv'
<1>1. job'.path = <<>> /\ Len(frames') = 0
  BY DEF NoJob
<1>2. job' = [path |-> job'.path, id |-> job'.id, md5 |-> job'.md5, parent |-> job'.parent]
  BY DEF NoJob
<1>3. Typed'
  BY <1>2, EmptySeq DEF IInv, Typed, Pulling, driveVars, dbVars
<1>4. JobOK'
  <2>1. <<>> \in Seq(Names)
    OBVIOUS
  <2> QED
    BY <1>1, <2>1 DEF JobOK
<1>5. PollOK' /\ FramesOK'
  BY <1>1 DEF PollOK, FramesOK, Applying, PollPcs
<1> QED
  BY <1>3, <1>4, <1>5, QuietKeepsIInv

LEMMA ListKeepsIInv ==
    ASSUME IInv, PullList
    PROVE  IInv'
<1> DEFINE rest == {[id |-> c, name |-> remote[c].name, md5 |-> remote[c].version] :
                      c \in Children(job.id)}
           frame == [at |-> job.path, rest |-> rest]
<1>1. /\ pc = "list" /\ pc' = "pull" /\ frames' = Append(frames, frame) /\ job' = NoJob
      /\ UNCHANGED <<local, driveVars, dbVars, content, clock>>
  BY DEF PullList, Goes, userVars
<1>2. \A c \in Children(job.id) : c \in Ids /\ remote[c].state = "live" /\ remote[c] \in Item
  BY DEF Children, Live, IInv, Typed
<1>3. rest \subseteq Child /\ ListingOK(rest)
  BY <1>2 DEF Child, Item, ListingOK, UpToDate
<1> HIDE DEF rest
<1>4. frame \in Frame
  BY <1>1, <1>3 DEF Frame, IInv, JobOK
<1>5. frame.rest = rest
  OBVIOUS
<1> HIDE DEF frame
<1>6. frames \in Seq(Frame) /\ Len(frames) \in Nat
  BY LenProperties DEF IInv, Typed
<1>7. /\ frames' \in Seq(Frame) /\ Len(frames') = Len(frames) + 1
      /\ \A k \in 1..Len(frames) : frames'[k] = frames[k]
      /\ frames'[Len(frames) + 1] = frame
  BY <1>1, <1>4, <1>6, AppendProperties
<1>8. \A k \in 1..Len(frames') : k \in 1..Len(frames) \/ k = Len(frames) + 1
  BY <1>6, <1>7
<1>9. \A k \in 1..Len(frames') : ListingOK(frames'[k].rest)
  BY <1>3, <1>5, <1>7, <1>8 DEF IInv, FramesOK
<1>10. FramesOK'
  BY <1>1, <1>9 DEF FramesOK, ListingOK, UpToDate, driveVars
<1>11. Typed'
  BY <1>1, <1>7 DEF IInv, Typed, Pulling, driveVars, dbVars, NoJob
<1>12. JobOK' /\ PollOK'
  BY <1>1 DEF JobOK, PollOK, Applying, PollPcs
<1> QED
  BY <1>1, <1>10, <1>11, <1>12, QuietKeepsIInv

LEMMA FrontProperties ==
    ASSUME NEW S, NEW s \in Seq(S), s # <<>>
    PROVE  /\ Front(s) \in Seq(S) /\ Len(Front(s)) = Len(s) - 1
           /\ \A k \in 1..(Len(s) - 1) : Front(s)[k] = s[k]
           /\ Len(s) \in Nat \ {0} /\ Last(s) = s[Len(s)] /\ Last(s) \in S
<1>1. Len(s) \in Nat \ {0} /\ \A k \in 1..Len(s) : s[k] \in S
  BY EmptySeq, ElementOfSeq
<1> DEFINE n == Len(s) - 1
<1>2. n \in Nat /\ 1..n \subseteq 1..Len(s)
  BY <1>1
<1> HIDE DEF n
<1>3. /\ SubSeq(s, 1, n) \in Seq(S) /\ Len(SubSeq(s, 1, n)) = n
      /\ \A k \in 1..n : SubSeq(s, 1, n)[k] = s[k]
  <2>1. n \in Int /\ 1 \in Int /\ \A k \in 1..n : s[k] \in S
    BY <1>1, <1>2
  <2>2. /\ SubSeq(s, 1, n) \in Seq(S)
        /\ Len(SubSeq(s, 1, n)) = IF 1 <= n THEN n - 1 + 1 ELSE 0
        /\ \A k \in 1..(n - 1 + 1) : SubSeq(s, 1, n)[k] = s[1 + k - 1]
    BY <2>1, SubSeqProperties
  <2>3. /\ (IF 1 <= n THEN n - 1 + 1 ELSE 0) = n /\ n - 1 + 1 = n
        /\ \A k \in 1..n : 1 + k - 1 = k
    BY <1>2
  <2> QED
    BY <2>2, <2>3
<1> QED
  BY <1>1, <1>3 DEF Front, Last, n

LEMMA LastOfFile ==
    ASSUME NEW f \in Files
    PROVE  Last(f) \in FileNames
<1>1. /\ \A m \in FileNames : Last(<<m>>) = m
      /\ \A d \in DirNames, m \in FileNames : Last(<<d, m>>) = m
  BY DEF Last
<1>2. CASE \E m \in FileNames : f = <<m>>
  BY <1>1, <1>2
<1>3. CASE \E d \in DirNames, m \in FileNames : f = <<d, m>>
  BY <1>1, <1>3
<1> QED
  BY <1>2, <1>3 DEF Files

\* The path of a child in a listing is a file's only if its name is.
LEMMA ChildPath ==
    ASSUME NEW at \in Seq(Names), NEW n \in Names
    PROVE  /\ Append(at, n) \in Seq(Names)
           /\ Append(at, n) \in Files => n \in FileNames
<1>1. /\ Append(at, n) \in Seq(Names) /\ Len(at) \in Nat
      /\ Len(Append(at, n)) = Len(at) + 1 /\ Append(at, n)[Len(at) + 1] = n
  BY AppendProperties, LenProperties
<1> QED
  BY <1>1, LastOfFile DEF Last

LEMMA PullChildKeepsIInv ==
    ASSUME IInv, PullChild
    PROVE  IInv'
<1>1. /\ pc = "pull" /\ frames # <<>> /\ frames \in Seq(Frame)
      /\ UNCHANGED <<local, driveVars, dbVars, content, clock>>
  BY DEF PullChild, userVars, IInv, Typed
<1> DEFINE top == Last(frames)
           n == Len(frames)
<1>2. /\ Front(frames) \in Seq(Frame) /\ Len(Front(frames)) = n - 1
      /\ \A k \in 1..(n - 1) : Front(frames)[k] = frames[k]
      /\ n \in Nat \ {0} /\ top = frames[n] /\ top \in Frame
  BY <1>1, FrontProperties
<1>3. ListingOK(top.rest) /\ \A k \in 1..n : ListingOK(frames[k].rest)
  BY <1>2 DEF IInv, FramesOK
<1>4. \A k \in 1..(n - 1) : ListingOK(Front(frames)[k].rest)
  BY <1>2, <1>3
<1>5. CASE frames' = Front(frames) /\ UNCHANGED <<pc, job>>
  <2>1. FramesOK'
    BY <1>1, <1>2, <1>4, <1>5 DEF FramesOK, ListingOK, UpToDate, driveVars
  <2>2. Typed'
    BY <1>1, <1>2, <1>5 DEF IInv, Typed, Pulling, driveVars, dbVars
  <2>3. JobOK' /\ PollOK'
    BY <1>1, <1>5 DEF JobOK, PollOK, Applying, PollPcs
  <2> QED
    BY <1>1, <2>1, <2>2, <2>3, QuietKeepsIInv
<1>6. ASSUME NEW c \in top.rest,
             frames' = Append(Front(frames), [top EXCEPT !.rest = @ \ {c}]),
             \/ UNCHANGED <<pc, job>>
             \/ /\ job' = [path |-> Append(top.at, c.name), id |-> c.id, md5 |-> c.md5,
                           parent |-> 0]
                /\ pc' = IF c.name \in DirNames THEN "mkdir" ELSE "fetch"
      PROVE  IInv'
  <2> DEFINE rest == top.rest \ {c}
             frame == [top EXCEPT !.rest = @ \ {c}]
  <2>1. frame \in Frame /\ frame.rest = rest /\ ListingOK(frame.rest)
    BY <1>2, <1>3 DEF Frame, ListingOK
  <2>2. frames' = Append(Front(frames), frame)
    BY <1>6
  <2> HIDE DEF frame
  <2>3. /\ frames' \in Seq(Frame) /\ Len(frames') = n
        /\ \A k \in 1..(n - 1) : frames'[k] = frames[k]
        /\ frames'[n] = frame
    BY <1>2, <2>1, <2>2, AppendProperties
  <2>4. \A k \in 1..n : ListingOK(frames'[k].rest)
    <3>1. \A k \in 1..n : k \in 1..(n - 1) \/ k = n
      BY <1>2
    <3> QED
      BY <1>3, <2>1, <2>3, <3>1
  <2>5. FramesOK'
    BY <1>1, <2>3, <2>4 DEF FramesOK, ListingOK, UpToDate, driveVars
  <2>6. c \in Child /\ top.at \in Seq(Names)
    BY <1>2 DEF Frame
  <2>7. Typed'
    BY <1>1, <1>6, <2>3 DEF IInv, Typed, Pulling, driveVars, dbVars
  <2>8. /\ remote[c.id].state # "none" /\ remote[c.id].name = c.name
        /\ UpToDate(c.id, c.md5, afterToken) /\ c.id \in Ids /\ c.md5 \in Nat
    BY <1>3, <2>6 DEF ListingOK, Child
  <2>9. /\ Append(top.at, c.name) \in Seq(Names)
        /\ OfKind(Append(top.at, c.name), c.id)
    BY <2>6, <2>8, ChildPath DEF OfKind, Child
  <2>10. c.name \in DirNames => UpToDate(c.id, 0, afterToken)
    BY <2>8 DEF UpToDate, IInv, FoldersPlain
  <2>11. PollOK'
    BY <1>1, <1>6 DEF PollOK, Applying, PollPcs
  <2>12. JobOK'
    <3>1. CASE UNCHANGED <<pc, job>>
      BY <1>1, <3>1 DEF JobOK
    <3>2. CASE /\ job' = [path |-> Append(top.at, c.name), id |-> c.id, md5 |-> c.md5,
                          parent |-> 0]
               /\ pc' = IF c.name \in DirNames THEN "mkdir" ELSE "fetch"
      <4>1. /\ job'.path \in Seq(Names) /\ job'.id = c.id /\ job'.md5 = c.md5
            /\ job'.path = Append(top.at, c.name)
        BY <2>9, <3>2
      <4>2. /\ OfKind(job.path, job.id)' /\ job'.md5 \in Nat
            /\ UpToDate(job.id, job.md5, afterToken)'
            /\ c.name \in DirNames => UpToDate(job.id, 0, afterToken)'
        BY <1>1, <2>8, <2>9, <2>10, <4>1 DEF OfKind, UpToDate, driveVars
      <4> QED
        BY <3>2, <4>1, <4>2 DEF JobOK
    <3> QED
      BY <1>6, <3>1, <3>2
  <2> QED
    BY <1>1, <2>5, <2>7, <2>11, <2>12, QuietKeepsIInv
<1> QED
  BY <1>5, <1>6 DEF PullChild

\* A step between two awaits that leaves the listings alone.
LEMMA MoveKeepsIInv ==
    ASSUME IInv, UNCHANGED <<driveVars, dbVars, frames>>, Typed', JobOK', PollOK'
    PROVE  IInv'
BY QuietKeepsIInv, ListingsSame DEF driveVars

\* A row that is written with what was up to date is not behind, or listed.
LEMMA RecordKeepsBoard ==
    ASSUME IInv, NEW md5 \in Nat, OfKind(job.path, job.id),
           UpToDate(job.id, md5, afterToken),
           Record(job.path, job.id, md5), UNCHANGED <<driveVars, hasToken>>
    PROVE  /\ rows' \in [Paths -> [id : Ids \cup {0}, md5 : Nat]]
           /\ FoldersPlain' /\ RowsOK' /\ TrackedChangesNotLost'
<1>1. /\ rows' = [rows EXCEPT ![job.path] = [id |-> job.id, md5 |-> md5]]
      /\ rows \in [Paths -> [id : Ids \cup {0}, md5 : Nat]]
      /\ job.id \in Ids
  BY DEF Record, IInv, Typed, OfKind
<1>2. rows' \in [Paths -> [id : Ids \cup {0}, md5 : Nat]]
  BY <1>1
<1>3. \A p \in Paths : rows'[p] = IF p = job.path THEN [id |-> job.id, md5 |-> md5]
                                                  ELSE rows[p]
  BY <1>1
<1>4. twice \subseteq twice' /\ (\E p \in Paths : p # job.path /\ rows[p].id = job.id)
                                   => job.id \in twice'
  <2>1. (\E p \in Paths : p # job.path /\ rows[p].id = job.id)
          => ~(RowsOf(job.id) \subseteq {job.path})
    BY DEF RowsOf
  <2> QED
    BY <2>1 DEF Record
<1>5. twice \subseteq twice'
  BY DEF Record
<1>6. FoldersPlain'
  BY DEF IInv, FoldersPlain, driveVars
<1>7. \A p \in Paths : rows'[p].id # 0 => OfKind(p, rows[p].id)'
  BY <1>3 DEF IInv, RowsOK, OfKind, driveVars
<1>8. ASSUME NEW p \in Paths, NEW q \in Paths, p # q, rows'[p].id = rows'[q].id,
             rows'[p].id # 0
      PROVE  rows'[p].id \in twice'
  <2>1. CASE p = job.path \/ q = job.path
    BY <1>3, <1>4, <1>5, <1>8, <2>1
  <2>2. CASE p # job.path /\ q # job.path
    BY <1>3, <1>5, <1>8, <2>2 DEF IInv, RowsOK
  <2> QED
    BY <2>1, <2>2
<1>9. TrackedChangesNotLost'
  <2> SUFFICES ASSUME NEW p \in Paths, Behind(p)', rows'[p].id \notin twice'
               PROVE  rows'[p].id \in afterToken
    BY DEF TrackedChangesNotLost, driveVars
  <2>1. CASE p = job.path
    BY <1>3, <2>1 DEF Behind, UpToDate, driveVars
  <2>2. CASE p # job.path
    BY <1>3, <1>5, <2>2 DEF Behind, IInv, Typed, TrackedChangesNotLost, driveVars
  <2> QED
    BY <2>1, <2>2
<1> QED
  BY <1>2, <1>6, <1>7, <1>8, <1>9 DEF RowsOK

\* The place the worker goes to after a pull's step outside any listing.
LEMMA PullStepsKeepIInv ==
    ASSUME IInv, PullMkdir \/ PullDone \/ Watch
    PROVE  IInv'
<1>1. /\ pc \notin Applying /\ pc' \in {"keep dir", "watch", "select"}
      /\ pc' = "keep dir" => pc = "mkdir" /\ UNCHANGED job
      /\ pc' \in {"watch", "select"} => frames = <<>>
      /\ UNCHANGED <<driveVars, dbVars, frames, job, content, clock>>
      /\ local' = local \/ local' = [local EXCEPT ![job.path] = IF @ = 0 THEN 1 ELSE @]
  BY DEF PullMkdir, PullDone, Watch, Goes, Applying, Pulling, PollPcs, userVars, IInv, Typed
<1>2. local' \in [Paths -> Nat]
  <2> DEFINE v == IF local[job.path] = 0 THEN 1 ELSE local[job.path]
  <2>1. local \in [Paths -> Nat]
    BY DEF IInv, Typed
  <2>2. (job.path \in Paths => v \in Nat)
        /\ (local' = local \/ local' = [local EXCEPT ![job.path] = v])
    BY <1>1, <2>1
  <2> HIDE DEF v
  <2> QED
    BY <2>1, <2>2
<1>3. Typed'
  BY <1>1, <1>2 DEF IInv, Typed, Pulling, driveVars, dbVars
<1>4. JobOK'
  BY <1>1 DEF IInv, JobOK, OfKind, UpToDate, driveVars
<1>5. PollOK'
  BY <1>1 DEF PollOK, Applying, PollPcs
<1> QED
  BY <1>1, <1>3, <1>4, <1>5, MoveKeepsIInv

LEMMA KeepDirKeepsIInv ==
    ASSUME IInv, PullKeepDir
    PROVE  IInv'
<1>1. /\ pc = "keep dir" /\ pc' = "list" /\ Record(job.path, job.id, 0)
      /\ UNCHANGED <<local, driveVars, hasToken, frames, job, content, clock>>
  BY DEF PullKeepDir, Goes, userVars
<1>2. OfKind(job.path, job.id) /\ UpToDate(job.id, 0, afterToken) /\ job.path \in Seq(Names)
  BY <1>1 DEF IInv, JobOK
<1>3. /\ rows' \in [Paths -> [id : Ids \cup {0}, md5 : Nat]]
      /\ FoldersPlain' /\ RowsOK' /\ TrackedChangesNotLost'
  BY <1>1, <1>2, RecordKeepsBoard
<1>4. Typed'
  BY <1>1, <1>3 DEF IInv, Typed, Pulling, driveVars
<1>5. JobOK' /\ PollOK'
  BY <1>1, <1>2 DEF JobOK, PollOK, Applying, PollPcs
<1> QED
  BY <1>1, <1>3, <1>4, <1>5, ListingsSame DEF IInv, driveVars

\* Downloading to a place on the local tree, for the pull and for a poll.
LEMMA DownloadKeepsIInv ==
    ASSUME IInv, Download("fetch", "write") \/ Download("refetch", "rewrite")
                 \/ WriteLocal("write", "keep") \/ WriteLocal("rewrite", "rekeep")
    PROVE  IInv'
<1>1. /\ <<pc, pc'>> \in {<<"fetch", "write">>, <<"refetch", "rewrite">>,
                         <<"write", "keep">>, <<"rewrite", "rekeep">>}
      /\ UNCHANGED <<driveVars, dbVars, frames, job, batch, clock>>
  BY DEF Download, WriteLocal, Goes, userVars
<1>2. local' \in [Paths -> Nat] /\ content' \in Nat
  <2>1. CASE Download("fetch", "write") \/ Download("refetch", "rewrite")
    <3>1. job.id \in Ids
      BY <2>1 DEF Download, IInv, JobOK, OfKind
    <3>2. remote[job.id].version \in Nat
      BY <3>1 DEF IInv, Typed, Item
    <3> QED
      BY <2>1, <3>2 DEF Download, IInv, Typed
  <2>2. CASE WriteLocal("write", "keep") \/ WriteLocal("rewrite", "rekeep")
    <3>1. local' = [local EXCEPT ![job.path] = content] /\ content' = 0
      BY <2>2 DEF WriteLocal
    <3>2. local \in [Paths -> Nat] /\ content \in Nat
      BY DEF IInv, Typed
    <3> QED
      BY <3>1, <3>2
  <2> QED
    BY <2>1, <2>2
<1>3. Typed'
  BY <1>1, <1>2 DEF IInv, Typed, Pulling, driveVars, dbVars
<1>4. JobOK'
  BY <1>1 DEF IInv, JobOK, OfKind, UpToDate, driveVars
<1>5. PollOK'
  BY <1>1 DEF IInv, PollOK, Applying, PollPcs, UpToDate, Behind, driveVars, dbVars
<1> QED
  BY <1>1, <1>3, <1>4, <1>5, MoveKeepsIInv

LEMMA KeepKeepsIInv ==
    ASSUME IInv, Keep("keep", "pull")
    PROVE  IInv'
<1>1. /\ pc = "keep" /\ pc' = "pull" /\ Record(job.path, job.id, job.md5) /\ job' = NoJob
      /\ UNCHANGED <<local, driveVars, hasToken, frames, content, clock>>
  BY DEF Keep, Goes, userVars
<1>2. OfKind(job.path, job.id) /\ job.md5 \in Nat /\ UpToDate(job.id, job.md5, afterToken)
  BY <1>1 DEF IInv, JobOK
<1>3. /\ rows' \in [Paths -> [id : Ids \cup {0}, md5 : Nat]]
      /\ FoldersPlain' /\ RowsOK' /\ TrackedChangesNotLost'
  BY <1>1, <1>2, RecordKeepsBoard
<1>4. Typed'
  BY <1>1, <1>3 DEF IInv, Typed, Pulling, driveVars, NoJob
<1>5. JobOK' /\ PollOK'
  BY <1>1 DEF JobOK, PollOK, Applying, PollPcs
<1> QED
  BY <1>1, <1>3, <1>4, <1>5, ListingsSame DEF IInv, driveVars

-----------------------------------------------------------------------------
(* The worker: local changes.                                              *)

LEMMA FolderAbove ==
    ASSUME IInv, NEW p \in Paths
    PROVE  ParentOf(p) \in Ids \cup {Root}
<1>1. CASE p \in Files
  <2>1. CASE \E n \in FileNames : p = <<n>>
    BY <2>1 DEF ParentOf
  <2>2. CASE \E d \in DirNames, n \in FileNames : p = <<d, n>>
    <3>1. PICK d \in DirNames, n \in FileNames : p = <<d, n>>
      BY <2>2
    <3>2. d \in Names /\ n \in Names
      BY DEF Names
    <3>3. Above(p) = <<d>> /\ Len(p) = 2
      BY <3>1, <3>2, PairParts DEF Above
    <3>4. Above(p) \in Paths
      BY <3>3 DEF Paths, Dirs
    <3>5. rows[Above(p)].id \in Ids \cup {0}
      BY <3>4 DEF IInv, Typed
    <3> QED
      BY <3>3, <3>5 DEF ParentOf, Root
  <2> QED
    BY <1>1, <2>1, <2>2 DEF Files
<1>2. CASE p \in Dirs
  BY <1>2 DEF Dirs, ParentOf
<1> QED
  BY <1>1, <1>2 DEF Paths

\* Looking at an event, or at the file it is about.
LEMMA LookKeepsIInv ==
    ASSUME IInv, TakeRemoved \/ TakeModified \/ Stat \/ PollTick
    PROVE  IInv'
<1>1. /\ pc' \in {"select", "erase", "stat", "read", "create", "changes"}
      /\ pc \in {"select", "stat"}
      /\ UNCHANGED <<local, driveVars, dbVars, frames, clock>>
  BY DEF TakeRemoved, TakeModified, Stat, PollTick, Done, userVars
<1>2. /\ job' = [path |-> job'.path, id |-> job'.id, md5 |-> job'.md5,
                 parent |-> job'.parent]
      /\ content' \in Nat
  <2>1. /\ job = [path |-> job.path, id |-> job.id, md5 |-> job.md5, parent |-> job.parent]
        /\ content \in Nat /\ 0 \in Nat
    BY DEF IInv, Typed
  <2>2. /\ job' \in {job, NoJob, [NoJob EXCEPT !.path = Head(queue).path],
                    [job EXCEPT !.parent = ParentOf(job.path)],
                    [NoJob EXCEPT !.path = Head(queue).path,
                                  !.id = rows[Head(queue).path].id]}
        /\ content' \in {0, content}
    BY DEF TakeRemoved, TakeModified, Stat, PollTick, Done
  <2> QED
    BY <2>1, <2>2 DEF NoJob
<1>3. pc' = "erase" => job'.id # 0
  BY <1>1 DEF TakeRemoved, TakeModified, Stat, PollTick, Done, NoJob
<1>4. /\ pc' = "read" => job'.path \in Files
      /\ pc' = "create" => job'.path \in Dirs /\ job'.parent \in Ids \cup {Root}
  <2>1. CASE pc' \in {"read", "create"}
    <3>1. Stat /\ job.path \in Paths
      BY <2>1 DEF TakeRemoved, TakeModified, Stat, PollTick, Done, Paths
    <3>2. /\ pc' = "read" => job.path \in Files /\ job' = job
          /\ pc' = "create" => /\ job.path \in Dirs
                               /\ job' = [job EXCEPT !.parent = ParentOf(job.path)]
      BY <2>1, <3>1 DEF Stat, Done
    <3>3. [job EXCEPT !.parent = ParentOf(job.path)].path = job.path
          /\ [job EXCEPT !.parent = ParentOf(job.path)].parent = ParentOf(job.path)
      BY DEF IInv, Typed
    <3> QED
      BY <3>1, <3>2, <3>3, FolderAbove
  <2> QED
    BY <2>1
<1>5. Typed'
  BY <1>1, <1>2 DEF IInv, Typed, Pulling, driveVars, dbVars
<1>6. JobOK'
  BY <1>1, <1>4, <1>3 DEF JobOK
<1>7. PollOK'
  BY <1>1 DEF PollOK, Applying, PollPcs
<1> QED
  BY <1>1, <1>5, <1>6, <1>7, MoveKeepsIInv

LEMMA ReadKeepsIInv ==
    ASSUME IInv, Read
    PROVE  IInv'
<1>1. /\ pc = "read" /\ pc' = "upload" /\ content' = local[job.path]
      /\ job' = [job EXCEPT !.id = rows[job.path].id, !.parent = ParentOf(job.path)]
      /\ UNCHANGED <<local, driveVars, dbVars, frames, clock>>
  BY DEF Read, Goes, userVars
<1>2. job.path \in Files /\ job.path \in Paths
  BY <1>1 DEF IInv, JobOK, Paths
<1>3. /\ job' = [path |-> job'.path, id |-> job'.id, md5 |-> job'.md5,
                 parent |-> job'.parent]
      /\ job'.path = job.path /\ job'.id = rows[job.path].id
      /\ job'.parent = ParentOf(job.path)
  BY <1>1 DEF IInv, Typed
<1>4. content' \in Nat
  BY <1>1, <1>2 DEF IInv, Typed
<1>5. Typed'
  BY <1>1, <1>3, <1>4 DEF IInv, Typed, Pulling, driveVars, dbVars
<1>6. ParentOf(job.path) \in Ids \cup {Root}
  BY <1>2, FolderAbove
<1>7. job'.id = 0 \/ OfKind(job.path, job.id)'
  BY <1>1, <1>2, <1>3 DEF IInv, RowsOK, OfKind, driveVars
<1>8. JobOK' /\ PollOK'
  BY <1>1, <1>2, <1>3, <1>6, <1>7 DEF JobOK, PollOK, Applying, PollPcs
<1> QED
  BY <1>1, <1>5, <1>8, MoveKeepsIInv

\* What the worker does to Drive is listed like anybody's change.
LEMMA OwnChangeKeepsIInv ==
    ASSUME IInv, DriveMoves, UNCHANGED <<local, dbVars, frames, content, clock>>,
           pc' \in {"record", "forget"}, frames = <<>>,
           job' = [path |-> job'.path, id |-> job'.id, md5 |-> job'.md5,
                   parent |-> job'.parent],
           pc' = "record" => /\ OfKind(job.path, job.id)' /\ job'.md5 \in Nat
                             /\ job'.id \in afterToken'
    PROVE  IInv'
<1>1. Typed'
  BY DEF IInv, Typed, DriveMoves, Changed, dbVars
<1>2. JobOK' /\ PollOK'
  BY DEF JobOK, PollOK, Applying, PollPcs
<1> QED
  BY <1>1, <1>2, BoardStays, ListingsStay DEF IInv

LEMMA DeleteKeepsIInv ==
    ASSUME IInv, DeleteFile
    PROVE  IInv'
<1>1. /\ pc = "erase" /\ pc' = "forget" /\ DeletePermanently(job.id)
      /\ UNCHANGED <<local, dbVars, frames, job, content, clock>>
  BY DEF DeleteFile, Goes, userVars
<1>2. DriveMoves
  BY <1>1, DeleteMoves DEF IInv, JobOK
<1>3. frames = <<>> /\ job = [path |-> job.path, id |-> job.id, md5 |-> job.md5,
                              parent |-> job.parent]
  BY <1>1 DEF IInv, Typed, Pulling
<1> QED
  BY <1>1, <1>2, <1>3, OwnChangeKeepsIInv

\* A new item, of a file's content or a folder.
LEMMA NewItemMoves ==
    ASSUME IInv, NEW i \in FreshIds, NEW version \in Nat, NewItem(i, version),
           job.path \in Paths, job.parent \in Ids \cup {Root},
           job.path \in Dirs => version = 0
    PROVE  /\ DriveMoves /\ OfKind(job.path, i)'
           /\ job'.path = job.path /\ job'.id = i /\ job'.md5 \in Nat
           /\ job' = [path |-> job'.path, id |-> job'.id, md5 |-> job'.md5,
                      parent |-> job'.parent]
           /\ i \in afterToken'
<1> DEFINE item == [name |-> Last(job.path), parent |-> job.parent, version |-> version,
                    state |-> "live"]
<1>1. Put(i, item) /\ Changed({i})
      /\ job' = [job EXCEPT !.id = i, !.md5 = IF UploadAnswersMd5 THEN version ELSE 0]
  BY DEF NewItem
<1>2. i \in Ids /\ remote[i].state = "none"
  BY DEF FreshIds
<1>3. \/ job.path \in Files /\ Last(job.path) \in FileNames
      \/ job.path \in Dirs /\ Last(job.path) \in DirNames
  <2>1. CASE \E n \in FileNames : job.path = <<n>>
    BY <2>1 DEF Last, Files
  <2>2. CASE \E d \in DirNames, n \in FileNames : job.path = <<d, n>>
    <3>1. PICK d \in DirNames, n \in FileNames : job.path = <<d, n>>
      BY <2>2
    <3>2. d \in Names /\ n \in Names
      BY DEF Names
    <3> QED
      BY <3>1, <3>2, PairParts DEF Files
  <2>3. CASE \E d \in DirNames : job.path = <<d>>
    BY <2>3 DEF Last, Dirs
  <2> QED
    BY <2>1, <2>2, <2>3 DEF Paths, Dirs, Files
<1>4. item \in Item /\ item.state = "live" /\ item.name = Last(job.path)
      /\ item.version = version
  BY <1>3 DEF Item, Names
<1>5. item.name \in DirNames => item.version = 0
  BY <1>3, <1>4, NamesAssumption
<1> HIDE DEF item
<1>6. DriveMoves
  BY <1>1, <1>2, <1>4, <1>5, PutMoves DEF IInv
<1>7. remote'[i] = item
  BY <1>1, <1>2 DEF Put, IInv, Typed
<1>8. job.path \in Files => Last(job.path) \in FileNames
  BY LastOfFile
<1>9. /\ job'.path = job.path /\ job'.id = i /\ job'.md5 \in Nat
      /\ job' = [path |-> job'.path, id |-> job'.id, md5 |-> job'.md5,
                 parent |-> job'.parent]
  BY <1>1 DEF IInv, Typed
<1>10. OfKind(job.path, i)' /\ i \in afterToken'
  BY <1>1, <1>2, <1>4, <1>7, <1>8, <1>9 DEF OfKind, Changed
<1> QED
  BY <1>6, <1>9, <1>10

LEMMA UploadKeepsIInv ==
    ASSUME IInv, Upload \/ CreateFolder
    PROVE  IInv'
<1>1. /\ pc \in {"upload", "create"} /\ pc' = "record"
      /\ UNCHANGED <<local, dbVars, frames, content, clock>>
  BY DEF Upload, CreateFolder, Goes, userVars
<1>2. frames = <<>> /\ content \in Nat
      /\ job = [path |-> job.path, id |-> job.id, md5 |-> job.md5, parent |-> job.parent]
  BY <1>1 DEF IInv, Typed, Pulling
<1>3. CASE \E i \in FreshIds : \E version \in Nat :
             NewItem(i, version) /\ (job.path \in Dirs => version = 0)
  <2>1. job.path \in Paths /\ job.parent \in Ids \cup {Root}
    BY <1>1 DEF IInv, JobOK, Paths
  <2>2. PICK i \in FreshIds : \E version \in Nat :
             NewItem(i, version) /\ (job.path \in Dirs => version = 0)
    BY <1>3
  <2>3. PICK version \in Nat : NewItem(i, version) /\ (job.path \in Dirs => version = 0)
    BY <2>2
  <2>4. /\ DriveMoves /\ OfKind(job.path, i)' /\ i \in afterToken'
        /\ job'.path = job.path /\ job'.id = i /\ job'.md5 \in Nat
        /\ job' = [path |-> job'.path, id |-> job'.id, md5 |-> job'.md5,
                   parent |-> job'.parent]
    BY <2>1, <2>3, NewItemMoves
  <2>5. OfKind(job.path, job.id)'
    BY <2>4 DEF OfKind
  <2> QED
    BY <1>1, <1>2, <2>4, <2>5, OwnChangeKeepsIInv
<1>4. CASE pc = "upload" /\ job.id # 0 /\ Upload
  <2> DEFINE i == job.id
             item == [remote[i] EXCEPT !.version = content]
  <2>1. /\ Put(i, item) /\ Changed({i})
        /\ job' = [job EXCEPT !.md5 = IF UploadAnswersMd5 THEN content ELSE 0]
    BY <1>4 DEF Upload
  <2>2. /\ i \in Ids /\ remote[i].state # "none" /\ remote[i].name \in FileNames
        /\ job.path \in Files
    BY <1>4 DEF IInv, JobOK, OfKind
  <2>3. item \in Item /\ item.state = remote[i].state /\ item.name = remote[i].name
    BY <1>2, <2>2 DEF IInv, Typed, Item
  <2>4. item.name \notin DirNames
    BY <2>2, <2>3, NamesAssumption
  <2>5. remote'[i] = item
    BY <2>1, <2>2 DEF Put, IInv, Typed
  <2>6. /\ job'.path = job.path /\ job'.id = i /\ job'.md5 \in Nat
        /\ job' = [path |-> job'.path, id |-> job'.id, md5 |-> job'.md5,
                   parent |-> job'.parent]
    BY <1>2, <2>1
  <2> HIDE DEF item
  <2>7. DriveMoves
    BY <2>1, <2>2, <2>3, <2>4, PutMoves DEF IInv
  <2>8. OfKind(job.path, job.id)' /\ job'.id \in afterToken'
    BY <2>1, <2>2, <2>3, <2>5, <2>6 DEF OfKind, Changed
  <2> QED
    BY <1>1, <1>2, <2>6, <2>7, <2>8, OwnChangeKeepsIInv
<1>5. \/ pc = "upload" /\ job.id # 0 /\ Upload
      \/ \E i \in FreshIds : \E version \in Nat :
           NewItem(i, version) /\ (job.path \in Dirs => version = 0)
  <2>1. pc = "upload" => job.path \notin Dirs
    <3>1. \A d \in DirNames, n \in FileNames : <<d>> # <<n>>
      BY NamesAssumption
    <3> QED
      BY <3>1 DEF IInv, JobOK, Dirs, Files
  <2> QED
    BY <1>2, <2>1 DEF Upload, CreateFolder
<1> QED
  BY <1>3, <1>4, <1>5

\* A row that goes is no longer behind.
LEMMA RemovalKeepsBoard ==
    ASSUME IInv, RemoveRowOf(job.path), UNCHANGED <<driveVars, hasToken>>
    PROVE  /\ rows' \in [Paths -> [id : Ids \cup {0}, md5 : Nat]]
           /\ FoldersPlain' /\ RowsOK' /\ TrackedChangesNotLost'
           /\ \A p \in Paths : rows'[p] = IF p = job.path THEN NoRow ELSE rows[p]
           /\ twice' = twice
<1>1. /\ rows' = [rows EXCEPT ![job.path] = NoRow] /\ twice' = twice
      /\ rows \in [Paths -> [id : Ids \cup {0}, md5 : Nat]]
  BY DEF RemoveRowOf, IInv, Typed
<1>2. NoRow \in [id : Ids \cup {0}, md5 : Nat] /\ NoRow.id = 0
  BY DEF NoRow
<1>3. /\ \A p \in Paths : rows'[p] = IF p = job.path THEN NoRow ELSE rows[p]
      /\ rows' \in [Paths -> [id : Ids \cup {0}, md5 : Nat]]
  BY <1>1, <1>2
<1>4. FoldersPlain'
  BY DEF IInv, FoldersPlain, driveVars
<1>5. RowsOK'
  BY <1>1, <1>2, <1>3 DEF IInv, RowsOK, OfKind, driveVars
<1>6. TrackedChangesNotLost'
  BY <1>1, <1>2, <1>3 DEF IInv, Typed, TrackedChangesNotLost, Behind, driveVars
<1> QED
  BY <1>1, <1>3, <1>4, <1>5, <1>6

LEMMA LocalRowsKeepIInv ==
    ASSUME IInv, RecordUpload \/ ForgetDeleted
    PROVE  IInv'
<1>1. /\ pc \in {"record", "forget"} /\ pc' = "select" /\ job' = NoJob /\ content' = 0
      /\ UNCHANGED <<local, driveVars, hasToken, frames, clock>>
  BY DEF RecordUpload, ForgetDeleted, Done, userVars
<1>2. /\ rows' \in [Paths -> [id : Ids \cup {0}, md5 : Nat]]
      /\ FoldersPlain' /\ RowsOK' /\ TrackedChangesNotLost'
  <2>1. CASE RecordUpload
    <3>1. /\ OfKind(job.path, job.id) /\ job.md5 \in Nat
          /\ UpToDate(job.id, job.md5, afterToken) /\ Record(job.path, job.id, job.md5)
      BY <2>1 DEF RecordUpload, IInv, JobOK, UpToDate
    <3> QED
      BY <1>1, <3>1, RecordKeepsBoard
  <2>2. CASE ForgetDeleted
    BY <1>1, <2>2, RemovalKeepsBoard DEF ForgetDeleted
  <2> QED
    BY <2>1, <2>2
<1>3. Typed'
  BY <1>1, <1>2 DEF IInv, Typed, Pulling, driveVars, NoJob
<1>4. JobOK' /\ PollOK'
  BY <1>1 DEF JobOK, PollOK, Applying, PollPcs
<1> QED
  BY <1>1, <1>2, <1>3, <1>4, ListingsSame DEF IInv, driveVars

-----------------------------------------------------------------------------
(* The worker: remote changes.                                             *)

\* Drive's answer has every row that is behind.
LEMMA ListChangesKeepsIInv ==
    ASSUME IInv, ListChanges
    PROVE  IInv'
<1>1. /\ pc = "changes" /\ pc' = "apply" /\ afterNew' = {}
      /\ batch' = {[id |-> i, gone |-> ~Live(i) \/ InTrash(i), md5 |-> remote[i].version] :
                     i \in afterToken}
      /\ UNCHANGED <<local, remote, afterToken, dbVars, frames, job, content, clock>>
  BY DEF ListChanges, Goes, userVars
<1>2. Typed'
  BY <1>1 DEF IInv, Typed, Pulling, dbVars
<1>3. FoldersPlain' /\ RowsOK' /\ TrackedChangesNotLost'
  BY <1>1 DEF IInv, FoldersPlain, RowsOK, OfKind, TrackedChangesNotLost, Behind, dbVars
<1>4. JobOK'
  BY <1>1 DEF JobOK
<1>5. ASSUME NEW c \in batch'
      PROVE  /\ c.id # 0
             /\ c.id \in Ids =>
                  c.md5 \in Nat /\ (c.gone \/ UpToDate(c.id, c.md5, afterNew)')
  <2>1. PICK i \in afterToken :
          c = [id |-> i, gone |-> ~Live(i) \/ InTrash(i), md5 |-> remote[i].version]
    BY <1>1
  <2>2. c.id = i /\ i # 0 /\ c.md5 = remote[i].version /\ (~c.gone => Live(i))
    BY <2>1 DEF IInv, Typed
  <2>3. i \in Ids => remote[i].version \in Nat
    BY DEF IInv, Typed, Item
  <2> QED
    BY <1>1, <2>2, <2>3 DEF UpToDate, Live
<1>6. ASSUME NEW p \in Paths, Behind(p)', rows'[p].id \notin twice'
      PROVE  \E c \in batch' : c.id = rows'[p].id
  <2>1. rows'[p] = rows[p] /\ rows[p].id \in afterToken
    BY <1>1, <1>6 DEF IInv, Typed, TrackedChangesNotLost, Behind, dbVars
  <2> DEFINE i == rows[p].id
             c == [id |-> i, gone |-> ~Live(i) \/ InTrash(i), md5 |-> remote[i].version]
  <2>2. c \in batch' /\ c.id = i
    BY <1>1, <2>1
  <2> QED
    BY <2>1, <2>2
<1>7. PollOK'
  BY <1>1, <1>5, <1>6 DEF PollOK
<1> QED
  BY <1>1, <1>2, <1>3, <1>4, <1>7, ListingsSame DEF IInv

\* A change is taken up, or its row turns out to be up to date.
LEMMA ApplyChangeKeepsIInv ==
    ASSUME IInv, ApplyChange
    PROVE  IInv'
<1>1. /\ pc = "apply" /\ UNCHANGED <<local, driveVars, dbVars, frames, content, clock>>
  BY DEF ApplyChange, userVars
<1>2. PICK c \in batch :
        /\ batch' = batch \ {c}
        /\ IF RowsOf(c.id) = {}
           THEN UNCHANGED <<pc, job>>
           ELSE \E p \in RowsOf(c.id) :
                  IF ~c.gone /\ rows[p].md5 = c.md5
                  THEN UNCHANGED <<pc, job>>
                  ELSE /\ job' = [path |-> p, id |-> c.id, md5 |-> c.md5, parent |-> 0]
                       /\ pc' = IF c.gone THEN "remove" ELSE "refetch"
  BY DEF ApplyChange
<1>3. afterNew \subseteq afterToken
      /\ \A b \in batch : /\ b.id # 0
                          /\ b.id \in Ids =>
                               b.md5 \in Nat /\ (b.gone \/ UpToDate(b.id, b.md5, afterNew))
  BY <1>1 DEF IInv, PollOK, Applying, PollPcs
<1>4. ASSUME NEW p \in Paths, Behind(p), rows[p].id \notin twice, rows[p].id # c.id
      PROVE  rows[p].id \in afterNew \/ \E b \in batch' : b.id = rows[p].id
  BY <1>1, <1>2, <1>4 DEF IInv, PollOK, Applying, PollPcs
<1>5. CASE UNCHANGED <<pc, job>>
  <2>1. ASSUME NEW p \in Paths, Behind(p), rows[p].id \notin twice, rows[p].id = c.id
        PROVE  c.id \in afterNew
    <3>1. p \in RowsOf(c.id) /\ c.id # 0
      BY <2>1 DEF RowsOf, Behind
    <3>2. RowsOf(c.id) = {p} /\ c.id \in Ids
      BY <2>1, <3>1 DEF RowsOf, IInv, RowsOK, OfKind
    <3>3. ~c.gone /\ rows[p].md5 = c.md5
      BY <1>1, <1>2, <1>5, <3>2
    <3> QED
      BY <1>3, <2>1, <3>2, <3>3 DEF UpToDate, Behind
  <2>2. PollOK'
    BY <1>1, <1>2, <1>3, <1>4, <1>5, <2>1 DEF PollOK, Behind, UpToDate, driveVars, dbVars
  <2>3. Typed' /\ JobOK'
    BY <1>1, <1>5 DEF IInv, Typed, JobOK, driveVars, dbVars
  <2> QED
    BY <1>1, <2>2, <2>3, MoveKeepsIInv
<1>6. ASSUME NEW p \in RowsOf(c.id),
             job' = [path |-> p, id |-> c.id, md5 |-> c.md5, parent |-> 0],
             pc' = IF c.gone THEN "remove" ELSE "refetch"
      PROVE  IInv'
  <2>1. p \in Paths /\ rows[p].id = c.id
    BY DEF RowsOf
  <2>2. pc' = "refetch" \/ pc' = "remove"
    BY <1>6
  <2>3. PollOK'
    BY <1>1, <1>2, <1>3, <1>4, <1>6, <2>2
       DEF PollOK, Behind, UpToDate, driveVars, dbVars
  <2>4. Typed'
    BY <1>1, <1>6, <2>2 DEF IInv, Typed, Pulling, driveVars, dbVars
  <2>5. c.id # 0 => OfKind(p, c.id)
    BY <2>1 DEF IInv, RowsOK
  <2>6. CASE c.gone
    <3>1. JobOK'
      BY <1>1, <1>6, <2>1, <2>6 DEF JobOK, dbVars
    <3> QED
      BY <1>1, <2>3, <2>4, <3>1, MoveKeepsIInv
  <2>7. CASE ~c.gone
    <3>1. c.id # 0 /\ c.md5 \in Nat /\ UpToDate(c.id, c.md5, afterNew)
      BY <1>3, <2>5, <2>7 DEF OfKind
    <3>2. JobOK'
      BY <1>1, <1>6, <2>5, <2>7, <3>1 DEF JobOK, OfKind, UpToDate, driveVars
    <3> QED
      BY <1>1, <2>3, <2>4, <3>2, MoveKeepsIInv
  <2> QED
    BY <2>6, <2>7
<1> QED
  BY <1>2, <1>5, <1>6

\* The row that goes has the id of the change at work: another row with that
\* id would make it one of `twice`.
LEMMA RemovalKeepsIInv ==
    ASSUME IInv, RemoveLocal \/ RemoveRow
    PROVE  IInv'
<1>1. CASE RemoveLocal
  <2>1. /\ pc = "remove" /\ pc' = "unrow"
        /\ UNCHANGED <<driveVars, dbVars, frames, job, content, batch, clock>>
    BY <1>1 DEF RemoveLocal, Goes, userVars
  <2>2. local' \in [Paths -> Nat]
    BY <1>1 DEF RemoveLocal, LocalDelete, IInv, Typed
  <2>3. Typed'
    BY <2>1, <2>2 DEF IInv, Typed, Pulling, driveVars, dbVars
  <2>4. JobOK'
    BY <2>1 DEF IInv, JobOK, dbVars
  <2>5. PollOK'
    BY <2>1 DEF IInv, PollOK, Applying, PollPcs, UpToDate, Behind, driveVars, dbVars
  <2> QED
    BY <2>1, <2>3, <2>4, <2>5, MoveKeepsIInv
<1>2. CASE RemoveRow
  <2>1. /\ pc = "unrow" /\ pc' = "apply" /\ RemoveRowOf(job.path) /\ job' = NoJob
        /\ UNCHANGED <<local, driveVars, hasToken, frames, content, batch, clock>>
    BY <1>2 DEF RemoveRow, Goes, userVars
  <2>2. /\ rows' \in [Paths -> [id : Ids \cup {0}, md5 : Nat]]
        /\ FoldersPlain' /\ RowsOK' /\ TrackedChangesNotLost'
        /\ \A p \in Paths : rows'[p] = IF p = job.path THEN NoRow ELSE rows[p]
        /\ twice' = twice
    BY <2>1, RemovalKeepsBoard
  <2>3. Typed'
    BY <2>1, <2>2 DEF IInv, Typed, Pulling, driveVars, NoJob
  <2>4. JobOK'
    BY <2>1 DEF JobOK
  <2>5. ASSUME NEW p \in Paths, Behind(p)', rows'[p].id \notin twice'
        PROVE  rows'[p].id \in afterNew \/ \E c \in batch : c.id = rows'[p].id
    <3>1. p # job.path /\ rows'[p] = rows[p] /\ Behind(p)
      BY <2>1, <2>2, <2>5 DEF Behind, NoRow, driveVars
    <3>2. job.path \in Paths /\ rows[job.path].id = job.id
      BY <2>1 DEF IInv, JobOK
    <3>3. rows[p].id # job.id
      BY <2>2, <2>5, <3>1, <3>2 DEF IInv, RowsOK, Behind
    <3> QED
      BY <2>1, <2>2, <2>5, <3>1, <3>3 DEF IInv, PollOK, Applying, PollPcs
  <2>6. PollOK'
    BY <2>1, <2>5 DEF IInv, PollOK, Applying, PollPcs, UpToDate, driveVars
  <2> QED
    BY <2>1, <2>2, <2>3, <2>4, <2>6, ListingsSame DEF IInv, driveVars
<1> QED
  BY <1>1, <1>2

\* The row is up to date with the change, or Drive has listed a newer one.
LEMMA RekeepKeepsIInv ==
    ASSUME IInv, Keep("rekeep", "apply")
    PROVE  IInv'
<1>1. /\ pc = "rekeep" /\ pc' = "apply" /\ Record(job.path, job.id, job.md5)
      /\ job' = NoJob
      /\ UNCHANGED <<local, driveVars, hasToken, frames, content, batch, clock>>
  BY DEF Keep, Goes, userVars
<1>2. /\ OfKind(job.path, job.id) /\ job.md5 \in Nat
      /\ UpToDate(job.id, job.md5, afterNew) /\ afterNew \subseteq afterToken
  BY <1>1 DEF IInv, JobOK, PollOK, Applying, PollPcs
<1>3. UpToDate(job.id, job.md5, afterToken)
  BY <1>2 DEF UpToDate
<1>4. /\ rows' \in [Paths -> [id : Ids \cup {0}, md5 : Nat]]
      /\ FoldersPlain' /\ RowsOK' /\ TrackedChangesNotLost'
  BY <1>1, <1>2, <1>3, RecordKeepsBoard
<1>5. Typed'
  BY <1>1, <1>4 DEF IInv, Typed, Pulling, driveVars, NoJob
<1>6. JobOK'
  BY <1>1 DEF JobOK
<1>7. /\ twice \subseteq twice'
      /\ \A p \in Paths :
           /\ rows'[p] = IF p = job.path THEN [id |-> job.id, md5 |-> job.md5] ELSE rows[p]
           /\ p # job.path /\ rows[p].id = job.id => job.id \in twice'
  <2>1. \A p \in Paths : p # job.path /\ rows[p].id = job.id
                           => ~(RowsOf(job.id) \subseteq {job.path})
    BY DEF RowsOf
  <2> QED
    BY <1>1, <2>1 DEF Record, IInv, Typed
<1>8. ASSUME NEW p \in Paths, Behind(p)', rows'[p].id \notin twice'
      PROVE  rows'[p].id \in afterNew \/ \E c \in batch : c.id = rows'[p].id
  <2>1. CASE p = job.path
    BY <1>1, <1>2, <1>7, <1>8, <2>1 DEF Behind, UpToDate, driveVars
  <2>2. CASE p # job.path
    <3>1. rows'[p] = rows[p] /\ Behind(p) /\ rows[p].id # job.id /\ rows[p].id \notin twice
      BY <1>1, <1>7, <1>8, <2>2 DEF Behind, driveVars
    <3> QED
      BY <1>1, <3>1 DEF IInv, PollOK, Applying, PollPcs
  <2> QED
    BY <2>1, <2>2
<1>9. PollOK'
  BY <1>1, <1>8 DEF IInv, PollOK, Applying, PollPcs, UpToDate, driveVars
<1> QED
  BY <1>1, <1>4, <1>5, <1>6, <1>9, ListingsSame DEF IInv, driveVars

\* The batch is done, so whatever is still behind is listed after the new token.
LEMMA SetTokenKeepsIInv ==
    ASSUME IInv, SetToken
    PROVE  IInv'
<1>1. /\ pc = "apply" /\ batch = {} /\ pc' = "select" /\ job' = NoJob /\ content' = 0
      /\ afterToken' = afterNew
      /\ UNCHANGED <<local, remote, afterNew, dbVars, frames, clock>>
  BY DEF SetToken, Done, userVars
<1>2. frames = <<>> /\ Len(frames) = 0
  BY <1>1 DEF IInv, Typed, Pulling
<1>3. Typed'
  BY <1>1, <1>2 DEF IInv, Typed, dbVars, NoJob
<1>4. FoldersPlain' /\ RowsOK'
  BY <1>1 DEF IInv, FoldersPlain, RowsOK, OfKind, dbVars
<1>5. TrackedChangesNotLost'
  BY <1>1 DEF IInv, PollOK, Applying, PollPcs, TrackedChangesNotLost, Behind, dbVars
<1>6. FramesOK' /\ JobOK' /\ PollOK'
  BY <1>1, <1>2 DEF FramesOK, JobOK, PollOK, Applying, PollPcs
<1> QED
  BY <1>3, <1>4, <1>5, <1>6 DEF IInv

-----------------------------------------------------------------------------
(* The system.                                                             *)

LEMMA WorkerKeepsIInv ==
    ASSUME IInv, Worker
    PROVE  IInv'
<1>1. ASSUME InitialPull PROVE IInv'
  <2>1. ~AskToken /\ ~StoreToken
    BY DEF AskToken, StoreToken, IInv, Typed
  <2> QED
    BY <1>1, <2>1, ListKeepsIInv, PullChildKeepsIInv, PullStepsKeepIInv, KeepDirKeepsIInv,
       DownloadKeepsIInv, KeepKeepsIInv DEF InitialPull
<1>2. ASSUME LocalChange PROVE IInv'
  BY <1>2, LookKeepsIInv, DeleteKeepsIInv, LocalRowsKeepIInv, ReadKeepsIInv, UploadKeepsIInv
     DEF LocalChange
<1>3. ASSUME RemoteChanges PROVE IInv'
  BY <1>3, LookKeepsIInv, ListChangesKeepsIInv, ApplyChangeKeepsIInv, RemovalKeepsIInv,
     DownloadKeepsIInv, RekeepKeepsIInv, SetTokenKeepsIInv DEF RemoteChanges
<1>4. ASSUME Failed PROVE IInv'
  <2>1. /\ UNCHANGED <<driveVars, dbVars, local, clock>> /\ pc' \in {"off", "select"}
        /\ job' = NoJob /\ content' = 0 /\ frames' = <<>>
    BY <1>4 DEF Failed
  <2> QED
    BY <2>1, EndKeepsIInv
<1> QED
  BY <1>1, <1>2, <1>3, <1>4 DEF Worker

LEMMA NextKeepsIInv ==
    ASSUME IInv, [Next]_vars
    PROVE  IInv'
<1>1. CASE Users
  BY <1>1, UsersKeepIInv
<1>2. CASE Start
  <2>1. /\ UNCHANGED <<driveVars, dbVars, local, clock, content, frames>>
        /\ pc = "off" /\ pc' = "list" /\ job' = [NoJob EXCEPT !.id = Root]
    BY <1>2 DEF Start
  <2>2. frames = <<>> /\ content \in Nat
    BY <2>1 DEF IInv, Typed, Pulling
  <2> QED
    BY <2>1, <2>2, EndKeepsIInv
<1>3. CASE Abort
  <2>1. /\ UNCHANGED <<driveVars, dbVars, local, clock>> /\ pc' = "off"
        /\ job' = NoJob /\ content' = 0 /\ frames' = <<>>
    BY <1>3 DEF Abort, userVars
  <2> QED
    BY <2>1, EndKeepsIInv
<1>4. CASE Worker
  BY <1>4, WorkerKeepsIInv
<1>5. CASE UNCHANGED vars
  BY <1>5, LocalEditKeepsIInv DEF vars, userVars, IInv, Typed
<1> QED
  BY <1>1, <1>2, <1>3, <1>4, <1>5 DEF Next

\* Nothing has changed since the last run: every row says what Drive holds.
LEMMA InitEstablishesIInv ==
    ASSUME Resumed, Init
    PROVE  IInv
<1> DEFINE seeded(i) == \E p \in DOMAIN Seed : Seed[p] = i
           at(i) == CHOOSE q \in DOMAIN Seed : Seed[q] = i
           any == CHOOSE n \in FileNames : TRUE
           seed(p) == [name |-> Last(p), state |-> "live",
                       version |-> IF p \in Dirs THEN 0 ELSE 1,
                       parent |-> IF Len(p) = 1 THEN Root ELSE Seed[Above(p)]]
           none == [name |-> any, state |-> "none", version |-> 0, parent |-> Root]
<1>1. /\ local = [p \in Paths |-> IF p \in DOMAIN Seed THEN 1 ELSE 0]
      /\ remote = [i \in Ids |-> IF seeded(i) THEN seed(at(i)) ELSE none]
      /\ rows = [p \in Paths |-> IF p \in DOMAIN Seed
                                 THEN [id |-> Seed[p], md5 |-> IF p \in Dirs THEN 0 ELSE 1]
                                 ELSE NoRow]
      /\ hasToken /\ afterToken = {} /\ afterNew = {} /\ pc = "off" /\ frames = <<>>
      /\ job = NoJob /\ content = 0 /\ clock = 1
  BY DEF Init
<1>2. any \in FileNames
  BY NamesAssumption
<1>3. ASSUME NEW p \in DOMAIN Seed PROVE at(Seed[p]) = p
  BY SeedAssumption
<1>4. ASSUME NEW p \in Paths
      PROVE  /\ Len(p) \in {1, 2}
             /\ p \in Files => p \notin Dirs /\ Last(p) \in FileNames
             /\ p \in Dirs => Last(p) \in DirNames
  <2>1. CASE \E n \in FileNames : p = <<n>>
    BY <2>1, NamesAssumption DEF Dirs, Files, Last
  <2>2. CASE \E d \in DirNames, n \in FileNames : p = <<d, n>>
    <3>1. p \notin Dirs
      BY <2>2 DEF Dirs
    <3> QED
      BY <2>2, <3>1, LastOfFile
  <2>3. CASE \E d \in DirNames : p = <<d>>
    BY <2>3, NamesAssumption DEF Dirs, Files, Last
  <2> QED
    BY <2>1, <2>2, <2>3 DEF Paths, Dirs, Files
<1>5. ASSUME NEW p \in DOMAIN Seed
      PROVE  /\ seed(p) \in Item /\ seed(p).state = "live" /\ seed(p).name = Last(p)
             /\ seed(p).version = IF p \in Dirs THEN 0 ELSE 1
             /\ p \in Paths /\ Seed[p] \in Ids
  <2>1. /\ p \in Paths /\ Seed[p] \in Ids
        /\ Len(p) = 2 => Above(p) \in DOMAIN Seed /\ Seed[Above(p)] \in Ids
    BY SeedAssumption
  <2>2. Last(p) \in Names
    BY <1>4, <2>1 DEF Names, Paths
  <2>3. (IF Len(p) = 1 THEN Root ELSE Seed[Above(p)]) \in Ids \cup {Root}
    BY <1>4, <2>1
  <2> QED
    BY <2>1, <2>2, <2>3 DEF Item
<1>6. none \in Item /\ none.state = "none" /\ none.name = any /\ none.version = 0
  BY <1>2 DEF Item, Names
<1>7. ASSUME NEW i \in Ids, seeded(i) PROVE at(i) \in DOMAIN Seed
  BY <1>7
<1> HIDE DEF seed, none, at, any
<1>8. ASSUME NEW i \in Ids
      PROVE  /\ remote[i] \in Item
             /\ remote[i].name \in DirNames => remote[i].version = 0
  <2>1. CASE seeded(i)
    <3>1. remote[i] = seed(at(i)) /\ at(i) \in DOMAIN Seed
      BY <1>1, <1>7, <2>1
    <3>2. at(i) \in Files => Last(at(i)) \notin DirNames
      BY <1>4, <1>5, <3>1, NamesAssumption
    <3> QED
      BY <1>5, <3>1, <3>2 DEF Paths
  <2>2. CASE ~seeded(i)
    BY <1>1, <1>2, <1>6, <2>2, NamesAssumption
  <2> QED
    BY <2>1, <2>2
<1>9. ASSUME NEW p \in Paths, rows[p].id # 0
      PROVE  /\ p \in DOMAIN Seed /\ rows[p].id = Seed[p]
             /\ OfKind(p, rows[p].id) /\ ~Behind(p)
  <2>1. p \in DOMAIN Seed
    BY <1>1, <1>9 DEF NoRow
  <2>2. rows[p].id = Seed[p] /\ rows[p].md5 = IF p \in Dirs THEN 0 ELSE 1
    BY <1>1, <2>1
  <2>3. Seed[p] \in Ids /\ remote[Seed[p]] = seed(p)
    BY <1>1, <1>3, <1>5, <2>1
  <2> QED
    BY <1>4, <1>5, <2>1, <2>2, <2>3 DEF OfKind, Behind
<1>10. Typed
  <2>1. local \in [Paths -> Nat] /\ remote \in [Ids -> Item]
    BY <1>1, <1>8
  <2>2. rows \in [Paths -> [id : Ids \cup {0}, md5 : Nat]]
    BY <1>1, <1>5 DEF NoRow
  <2>3. job = [path |-> job.path, id |-> job.id, md5 |-> job.md5, parent |-> job.parent]
    BY <1>1 DEF NoJob
  <2> QED
    BY <1>1, <2>1, <2>2, <2>3, EmptySeq DEF Typed, Pulling
<1>11. FoldersPlain
  BY <1>8 DEF FoldersPlain
<1>12. RowsOK /\ TrackedChangesNotLost
  BY <1>9, SeedAssumption DEF RowsOK, TrackedChangesNotLost, Behind
<1>13. FramesOK /\ JobOK /\ PollOK
  BY <1>1 DEF FramesOK, JobOK, PollOK, Applying, PollPcs
<1> QED
  BY <1>10, <1>11, <1>12, <1>13 DEF IInv

\* Whatever users, faults, aborts and restarts do to a folder that was
\* synchronised before (run_folder with rows and a token in the database).
THEOREM Invariance == Resumed /\ Spec => []IInv
<1>1. Resumed /\ Init => IInv
  BY InitEstablishesIInv
<1>2. IInv /\ [Next]_vars => IInv'
  BY NextKeepsIInv
<1> QED
  BY <1>1, <1>2, PTL DEF Spec

\* No change on Drive to an item that has a row is lost: its row is up to date
\* or Drive lists the change after the stored token (poll_remote_changes moves
\* the token only after the whole batch).
THEOREM ResumedLosesNothing == Resumed /\ Spec => []TrackedChangesNotLost
<1>1. IInv => TrackedChangesNotLost
  BY DEF IInv
<1> QED
  BY <1>1, Invariance, PTL

-----------------------------------------------------------------------------
(* Types.  Every content is of an edit that has happened, and the edits to *)
(* come are within the budget.                                             *)

Happened  == 0..clock
States    == {"none", "live", "trashed", "deleted"}
Kinds     == {"write", "remove", "move", "remote write", "trash", "delete", "edit",
              "fault", "start"}
Event     == [path : Paths, removed : BOOLEAN]
\* Directories lie at the root only.
Places    == Dirs \cup {<<>>}
FilePcs   == {"fetch", "write", "keep"}
RowPcs    == PollPcs \ {"changes", "apply"}

BudgetTyped ==
    /\ left \in [Kinds -> Nat] /\ clock \in Nat \ {0}
    /\ clock + left["write"] + left["remote write"]
         = 1 + Budget["write"] + Budget["remote write"]

DriveTyped ==
    /\ remote \in [Ids -> [name : Names, parent : Ids \cup {Root}, version : Happened,
                           state : States]]
    /\ afterToken \subseteq Ids /\ afterNew \subseteq Ids
    /\ \A i \in Ids : remote[i].name \in DirNames => remote[i].parent = Root

RowsTyped ==
    /\ rows \in [Paths -> [id : Ids \cup {0}, md5 : Happened]]
    /\ \A p \in Paths : rows[p].id = 0 => rows[p] = NoRow
    /\ twice \subseteq Ids
    /\ hasToken \in BOOLEAN

LocalTyped == local \in [Paths -> Happened] /\ queue \in Seq(Event)

Listing(at, rest) ==
    /\ at \in Places
    /\ rest \subseteq [id : Ids, name : Names, md5 : Happened]
    /\ at \in Dirs => \A c \in rest : c.name \in FileNames

FramesTyped ==
    /\ frames \in Seq([at : Places, rest : SUBSET [id : Ids, name : Names, md5 : Nat]])
    /\ \A k \in 1..Len(frames) : Listing(frames[k].at, frames[k].rest)

JobTyped ==
    /\ job \in [path : Paths \cup {<<>>}, id : Ids \cup {0}, md5 : Happened,
                parent : Ids \cup {Root}]
    /\ pc = "list" => job.path \in Places /\ (job.path \in Dirs => job.id # 0)
    /\ pc \in {"mkdir", "keep dir"} => job.path \in Dirs /\ job.id # 0
    /\ pc \in FilePcs => job.path \in Files /\ job.id # 0
    /\ pc \in RowPcs => job.path \in Paths /\ job.id # 0
    /\ pc \in LocalPcs => job.path \in Paths
    /\ pc \in {"read", "upload"} => job.path \in Files
    /\ pc = "create" => job.path \in Dirs /\ job.parent = Root
    /\ pc \in {"record", "erase"} => job.id # 0

WorkTyped ==
    /\ pc \in InitialPcs \cup LocalPcs \cup PollPcs \cup {"off", "select"}
    /\ content \in Happened
    /\ batch \subseteq [id : Ids, gone : BOOLEAN, md5 : Happened]
    /\ errors \subseteq Paths \cup {InitialWork, RemoteWork}

TInv ==
    /\ BudgetTyped
    /\ DriveTyped
    /\ RowsTyped
    /\ LocalTyped
    /\ FramesTyped
    /\ JobTyped
    /\ WorkTyped

-----------------------------------------------------------------------------
(* Time, and what a step leaves alone.                                     *)

LEMMA TimePasses ==
    ASSUME BudgetTyped, clock' \in {clock, clock + 1}
    PROVE  /\ clock' \in Nat /\ Happened \subseteq Happened'
           /\ 0 \in Happened' /\ 1 \in Happened'
           /\ EditTime => clock + 1 \in Happened'
<1>1. clock \in Nat \ {0}
  BY DEF BudgetTyped
<1> QED
  BY <1>1 DEF Happened, EditTime

LEMMA UntouchedDrive ==
    ASSUME DriveTyped, Happened \subseteq Happened', UNCHANGED driveVars
    PROVE  DriveTyped'
<1>1. /\ DriveTyped /\ remote' = remote /\ afterToken' = afterToken /\ afterNew' = afterNew
  BY DEF driveVars
<1>2. \A i \in Ids : remote[i] \in [name : Names, parent : Ids \cup {Root},
                                    version : Happened', state : States]
  BY DEF DriveTyped
<1>3. remote \in [Ids -> [name : Names, parent : Ids \cup {Root},
                          version : Happened', state : States]]
  BY <1>2 DEF DriveTyped
<1> QED
  BY <1>1, <1>3 DEF DriveTyped

LEMMA UntouchedRows ==
    ASSUME RowsTyped, Happened \subseteq Happened', UNCHANGED dbVars
    PROVE  RowsTyped'
<1>1. rows' = rows /\ twice' = twice /\ hasToken' = hasToken
  BY DEF dbVars
<1>2. \A p \in Paths : rows[p] \in [id : Ids \cup {0}, md5 : Happened']
  BY DEF RowsTyped
<1>3. rows \in [Paths -> [id : Ids \cup {0}, md5 : Happened']]
  BY <1>2 DEF RowsTyped
<1> QED
  BY <1>1, <1>3 DEF RowsTyped, NoRow

LEMMA UntouchedLocal ==
    ASSUME LocalTyped, Happened \subseteq Happened', UNCHANGED <<local, queue>>
    PROVE  LocalTyped'
BY DEF LocalTyped

LEMMA UntouchedFrames ==
    ASSUME FramesTyped, Happened \subseteq Happened', UNCHANGED frames
    PROVE  FramesTyped'
<1>1. \A at, rest : Listing(at, rest) => Listing(at, rest)'
  <2> SUFFICES ASSUME NEW at, NEW rest, Listing(at, rest)
               PROVE  rest \subseteq [id : Ids, name : Names, md5 : Happened']
    BY DEF Listing
  <2> QED
    BY DEF Listing
<1> QED
  BY <1>1 DEF FramesTyped

LEMMA UntouchedJob ==
    ASSUME JobTyped, Happened \subseteq Happened', UNCHANGED <<pc, job>>
    PROVE  JobTyped'
<1>1. job \in [path : Paths \cup {<<>>}, id : Ids \cup {0}, md5 : Happened',
               parent : Ids \cup {Root}]
  BY DEF JobTyped
<1> QED
  BY <1>1 DEF JobTyped

LEMMA UntouchedWork ==
    ASSUME WorkTyped, Happened \subseteq Happened', UNCHANGED <<pc, content, batch, errors>>
    PROVE  WorkTyped'
<1>1. batch \subseteq [id : Ids, gone : BOOLEAN, md5 : Happened']
  BY DEF WorkTyped
<1> QED
  BY <1>1 DEF WorkTyped

LEMMA OneLess ==
    ASSUME NEW a \in Nat, a > 0
    PROVE  a - 1 \in Nat /\ (a - 1) + 1 = a
OBVIOUS

LEMMA SumStays ==
    ASSUME NEW c \in Nat \ {0}, NEW w \in Nat, NEW r \in Nat
    PROVE  /\ c + 1 \in Nat \ {0}
           /\ (c + 1) + (w - 1) + r = c + w + r
           /\ (c + 1) + w + (r - 1) = c + w + r
OBVIOUS

LEMMA SpendKeepsTypes ==
    ASSUME BudgetTyped, NEW kind \in {"fault", "start"}, Spend(kind), UNCHANGED clock
    PROVE  BudgetTyped'
<1>1. left \in [Kinds -> Nat] /\ kind \in Kinds
  BY DEF BudgetTyped, Kinds
<1>2. left[kind] \in Nat \ {0} /\ left' = [left EXCEPT ![kind] = left[kind] - 1]
  BY <1>1 DEF Spend
<1>3. left[kind] - 1 \in Nat
  BY <1>2
<1>4. left' \in [Kinds -> Nat]
  BY <1>1, <1>2, <1>3
<1>5. left'["write"] = left["write"] /\ left'["remote write"] = left["remote write"]
  BY <1>1, <1>2 DEF Kinds
<1> QED
  BY <1>4, <1>5 DEF BudgetTyped

LEMMA EditKeepsTypes ==
    ASSUME BudgetTyped, NEW kind \in Kinds \ {"edit"}, Edit(kind),
           \/ kind \in {"write", "remote write"} /\ EditTime
           \/ kind \notin {"write", "remote write"} /\ UNCHANGED clock
    PROVE  BudgetTyped'
<1> DEFINE mid == [left EXCEPT ![kind] = left[kind] - 1]
<1>1. left \in [Kinds -> Nat] /\ kind \in Kinds /\ "edit" \in Kinds /\ kind # "edit"
  BY DEF BudgetTyped, Kinds
<1>2. left[kind] \in Nat /\ left["edit"] \in Nat /\ left[kind] > 0 /\ left["edit"] > 0
  <2>1. left[kind] > 0 /\ left["edit"] > 0
    BY DEF Edit
  <2> QED
    BY <1>1, <2>1
<1>3. left[kind] - 1 \in Nat /\ left["edit"] - 1 \in Nat
  BY <1>2, OneLess
<1>4. mid \in [Kinds -> Nat] /\ mid["edit"] = left["edit"]
  BY <1>1, <1>3
<1>5. left' = [mid EXCEPT !["edit"] = left["edit"] - 1]
  BY <1>1, <1>4 DEF Edit
<1>6. left' \in [Kinds -> Nat]
  BY <1>3, <1>4, <1>5
<1>7. \A k \in Kinds \ {"edit"} : left'[k] = IF k = kind THEN left[kind] - 1 ELSE left[k]
  BY <1>1, <1>4, <1>5
<1> HIDE DEF mid
<1>8. /\ left["write"] \in Nat /\ left["remote write"] \in Nat /\ clock \in Nat \ {0}
      /\ clock + left["write"] + left["remote write"]
           = 1 + Budget["write"] + Budget["remote write"]
      /\ "write" \in Kinds \ {"edit"} /\ "remote write" \in Kinds \ {"edit"}
  BY DEF BudgetTyped, Kinds
<1>9. CASE kind = "write"
  <2>1. left'["write"] = left["write"] - 1 /\ left'["remote write"] = left["remote write"]
    BY <1>7, <1>8, <1>9
  <2>2. clock' = clock + 1
    BY <1>9 DEF EditTime
  <2>3. clock' \in Nat \ {0} /\ clock' + left'["write"] + left'["remote write"]
           = 1 + Budget["write"] + Budget["remote write"]
    <3>1. /\ clock + 1 \in Nat \ {0}
          /\ (clock + 1) + (left["write"] - 1) + left["remote write"]
               = clock + left["write"] + left["remote write"]
      BY <1>8, SumStays
    <3> QED
      BY <1>8, <2>1, <2>2, <3>1
  <2> QED
    BY <1>6, <2>3 DEF BudgetTyped
<1>10. CASE kind = "remote write"
  <2>1. left'["write"] = left["write"] /\ left'["remote write"] = left["remote write"] - 1
    BY <1>7, <1>8, <1>10
  <2>2. clock' = clock + 1
    BY <1>10 DEF EditTime
  <2>3. clock' \in Nat \ {0} /\ clock' + left'["write"] + left'["remote write"]
           = 1 + Budget["write"] + Budget["remote write"]
    <3>1. /\ clock + 1 \in Nat \ {0}
          /\ (clock + 1) + left["write"] + (left["remote write"] - 1)
               = clock + left["write"] + left["remote write"]
      BY <1>8, SumStays
    <3> QED
      BY <1>8, <2>1, <2>2, <3>1
  <2> QED
    BY <1>6, <2>3 DEF BudgetTyped
<1>11. CASE kind \notin {"write", "remote write"}
  <2>1. left'["write"] = left["write"] /\ left'["remote write"] = left["remote write"]
    BY <1>7, <1>8, <1>11
  <2>2. clock' = clock
    BY <1>11
  <2> QED
    BY <1>6, <1>8, <2>1, <2>2 DEF BudgetTyped
<1> QED
  BY <1>9, <1>10, <1>11

-----------------------------------------------------------------------------
(* Sequences of the elements of a finite set, and the watcher's channel.   *)

\* SetToSeq lists the elements of a finite set.
LEMMA SeqOfSet ==
    ASSUME NEW S, IsFiniteSet(S)
    PROVE  /\ SetToSeq(S) \in Seq(S)
           /\ \A s \in S : \E k \in 1..Len(SetToSeq(S)) : SetToSeq(S)[k] = s
<1> DEFINE n == Cardinality(S)
           f == SetToSeq(S)
<1>1. n \in Nat /\ IsFiniteSet(1..n) /\ Cardinality(1..n) = n
  <2>1. n \in Nat
    BY FS_CardinalityType
  <2>2. 1 \in Int /\ n \in Int
    BY <2>1
  <2>3. /\ IsFiniteSet(1..n)
        /\ Cardinality(1..n) = IF 1 > n THEN 0 ELSE n - 1 + 1
    BY <2>2, FS_Interval
  <2>4. (IF 1 > n THEN 0 ELSE n - 1 + 1) = n
    BY <2>1
  <2> QED
    BY <2>1, <2>3, <2>4
<1>2. f \in [1..n -> S] /\ IsInjective(f)
  <2>1. \E g \in [1..n -> S] : IsInjective(g)
    BY FS_CardinalityType DEF ExistsBijection, Bijection, Injection
  <2> QED
    BY <2>1 DEF SetToSeq
<1>3. f \in Injection(1..n, S)
  BY <1>2 DEF Injection
<1>4. f \in Surjection(1..n, S)
  BY <1>1, <1>3, FS_Injection
<1>5. f \in Seq(S) /\ Len(f) = n
  <2> HIDE DEF f
  <2> QED
    BY <1>1, <1>2
<1> QED
  BY <1>4, <1>5 DEF Surjection

\* A folder holds finitely many files.
LEMMA BelowFinite ==
    ASSUME NEW p \in Paths
    PROVE  IsFiniteSet({Removed(q) : q \in Below(p)})
<1>1. CASE Below(p) = {}
  BY <1>1, FS_EmptySet
<1>2. CASE Below(p) # {}
  <2>1. p \in Dirs
    BY <1>2, PathsBelow
  <2>2. PICK d \in DirNames : p = <<d>>
    BY <2>1 DEF Dirs
  <2> DEFINE all == {Removed(<<d, n>>) : n \in FileNames}
             f == [n \in FileNames |-> Removed(<<d, n>>)]
  <2>3. f \in Surjection(FileNames, all)
    BY DEF Surjection
  <2>4. IsFiniteSet(all)
    BY <2>3, NamesAssumption, FS_Surjection
  <2>5. {Removed(q) : q \in Below(p)} \subseteq all
    <3> SUFFICES ASSUME NEW q \in Below(p) PROVE \E n \in FileNames : q = <<d, n>>
      OBVIOUS
    <3>1. PICK e \in DirNames, n \in FileNames : q = <<e, n>>
      BY DEF Below, Paths, Dirs, Files
    <3>2. Above(q) = <<e>>
      <4>1. e \in Names /\ n \in Names
        BY DEF Names
      <4> QED
        BY <3>1, <4>1, PairParts DEF Above
    <3>3. <<e>> = <<d>>
      BY <2>2, <3>2 DEF Below
    <3> QED
      BY <3>1, <3>3
  <2> QED
    BY <2>4, <2>5, FS_Subset
<1> QED
  BY <1>1, <1>2

LEMMA ReportTyped ==
    ASSUME NEW e \in Event
    PROVE  Report(e) \in Seq(Event)
BY DEF Report

LEMMA EventsTyped ==
    ASSUME NEW p \in Paths
    PROVE  Modified(p) \in Event /\ Removed(p) \in Event
BY DEF Modified, Removed, Event

LEMMA BelowPaths ==
    ASSUME NEW p \in Paths
    PROVE  Below(p) \subseteq Paths
BY DEF Below

LEMMA NotifyTyped ==
    ASSUME queue \in Seq(Event), NEW e \in Event
    PROVE  queue \o Report(e) \in Seq(Event)
BY ReportTyped, ConcatProperties

LEMMA LocalDeleteTyped ==
    ASSUME LocalTyped, Happened \subseteq Happened', 0 \in Happened',
           NEW p \in Paths, LocalDelete(p)
    PROVE  LocalTyped'
<1> DEFINE inside == {e \in {Removed(q) : q \in Below(p)} :
                        local[e.path] # 0 /\ Report(e) # <<>>}
<1>1. IsFiniteSet(inside)
  BY BelowFinite, FS_Subset
<1>2. inside \subseteq Event
  BY BelowPaths, EventsTyped
<1>3. queue' = queue \o SetToSeq(inside) \o Report(Removed(p))
  BY DEF LocalDelete
<1> HIDE DEF inside
<1>4. SetToSeq(inside) \in Seq(Event)
  BY <1>1, <1>2, SeqOfSet, SeqMonotonic
<1>5. queue' \in Seq(Event)
  <2>1. queue \in Seq(Event)
    BY DEF LocalTyped
  <2>2. queue \o SetToSeq(inside) \in Seq(Event)
    BY <1>4, <2>1, ConcatProperties
  <2>3. Report(Removed(p)) \in Seq(Event)
    BY EventsTyped, ReportTyped
  <2> QED
    BY <1>3, <2>2, <2>3, ConcatProperties
<1>6. local' = [q \in Paths |-> IF q \in {p} \cup Below(p) THEN 0 ELSE local[q]]
  BY DEF LocalDelete
<1>7. \A q \in Paths : local[q] \in Happened'
  BY DEF LocalTyped
<1>8. local' \in [Paths -> Happened']
  BY <1>6, <1>7
<1> QED
  BY <1>5, <1>8 DEF LocalTyped, Event

-----------------------------------------------------------------------------
(* The users keep the types.                                               *)

LEMMA OldItem ==
    ASSUME DriveTyped, Happened \subseteq Happened', NEW i \in Ids
    PROVE  /\ remote[i] \in [name : Names, parent : Ids \cup {Root}, version : Happened',
                             state : States]
           /\ remote[i].name \in DirNames => remote[i].parent = Root
BY DEF DriveTyped

LEMMA PutTyped ==
    ASSUME DriveTyped, Happened \subseteq Happened', NEW i \in Ids,
           NEW item \in [name : Names, parent : Ids \cup {Root}, version : Happened',
                         state : States],
           item.name \in DirNames => item.parent = Root,
           Put(i, item), NEW ids \in SUBSET Ids, Changed(ids)
    PROVE  DriveTyped'
<1>1. \A j \in Ids : remote'[j] = IF j = i THEN item ELSE remote[j]
  BY DEF Put, DriveTyped
<1>2. \A j \in Ids :
         /\ remote'[j] \in [name : Names, parent : Ids \cup {Root}, version : Happened',
                            state : States]
         /\ remote'[j].name \in DirNames => remote'[j].parent = Root
  BY <1>1, OldItem
<1>3. DOMAIN remote' = Ids /\ remote' = [j \in Ids |-> remote'[j]]
  BY DEF Put, DriveTyped
<1>4. remote' \in [Ids -> [name : Names, parent : Ids \cup {Root}, version : Happened',
                           state : States]]
  BY <1>2, <1>3
<1>5. afterToken' \subseteq Ids /\ afterNew' \subseteq Ids
  BY DEF DriveTyped, Changed
<1> QED
  BY <1>2, <1>4, <1>5 DEF DriveTyped

LEMMA DeleteTyped ==
    ASSUME DriveTyped, UNCHANGED clock, NEW i \in Ids, DeletePermanently(i)
    PROVE  DriveTyped'
<1> DEFINE gone == {i} \cup {c \in Ids : remote[c].parent = i /\ Exists(c)}
<1>1. /\ remote' = [c \in Ids |-> IF c \in gone THEN [remote[c] EXCEPT !.state = "deleted"]
                                               ELSE remote[c]]
      /\ Changed(gone) /\ gone \in SUBSET Ids
  BY DEF DeletePermanently
<1> HIDE DEF gone
<1>2. \A c \in Ids :
         /\ remote[c] \in [name : Names, parent : Ids \cup {Root}, version : Happened,
                           state : States]
         /\ [remote[c] EXCEPT !.state = "deleted"]
              \in [name : Names, parent : Ids \cup {Root}, version : Happened, state : States]
         /\ [remote[c] EXCEPT !.state = "deleted"].name = remote[c].name
         /\ [remote[c] EXCEPT !.state = "deleted"].parent = remote[c].parent
  BY DEF DriveTyped, States
<1>3. /\ remote' \in [Ids -> [name : Names, parent : Ids \cup {Root}, version : Happened,
                              state : States]]
      /\ \A c \in Ids : remote'[c].name \in DirNames => remote'[c].parent = Root
  BY <1>1, <1>2 DEF DriveTyped
<1>4. Happened' = Happened
  BY DEF Happened
<1> QED
  BY <1>1, <1>3, <1>4 DEF DriveTyped, Changed

\* Someone edits the local tree.
LEMMA LocalEditTyped ==
    ASSUME TInv, BudgetTyped', clock' \in {clock, clock + 1}, LocalTyped',
           UNCHANGED <<driveVars, dbVars, workerVars, errors>>
    PROVE  TInv'
<1>1. Happened \subseteq Happened'
  BY TimePasses DEF TInv
<1>2. DriveTyped' /\ RowsTyped'
  BY <1>1, UntouchedDrive, UntouchedRows DEF TInv
<1>3. FramesTyped' /\ JobTyped' /\ WorkTyped'
  BY <1>1, UntouchedFrames, UntouchedJob, UntouchedWork DEF TInv, workerVars
<1> QED
  BY <1>2, <1>3 DEF TInv

\* Someone edits on Drive.
LEMMA RemoteEditTyped ==
    ASSUME TInv, BudgetTyped', clock' \in {clock, clock + 1}, DriveTyped',
           UNCHANGED <<local, dbVars, workerVars, queue, errors>>
    PROVE  TInv'
<1>1. Happened \subseteq Happened'
  BY TimePasses DEF TInv
<1>2. LocalTyped' /\ RowsTyped'
  BY <1>1, UntouchedLocal, UntouchedRows DEF TInv
<1>3. FramesTyped' /\ JobTyped' /\ WorkTyped'
  BY <1>1, UntouchedFrames, UntouchedJob, UntouchedWork DEF TInv, workerVars
<1> QED
  BY <1>2, <1>3 DEF TInv

LEMMA UserWritesTyped ==
    ASSUME TInv, NEW p \in Paths, UserWrites(p)
    PROVE  TInv'
<1>1. BudgetTyped' /\ clock' = clock + 1 /\ EditTime
  BY EditKeepsTypes DEF TInv, UserWrites, EditTime, Kinds
<1>2. Happened \subseteq Happened' /\ clock + 1 \in Happened'
  BY <1>1, TimePasses DEF TInv
<1>3. queue' \in Seq(Event)
  BY EventsTyped, NotifyTyped DEF TInv, LocalTyped, UserWrites, Notify
<1>4. \A q \in Paths : local[q] \in Happened'
  BY <1>2 DEF TInv, LocalTyped
<1>5. local' = [local EXCEPT ![p] = clock + 1] /\ local \in [Paths -> Happened]
  BY DEF UserWrites, TInv, LocalTyped
<1>6. local' \in [Paths -> Happened']
  BY <1>2, <1>4, <1>5
<1>7. LocalTyped'
  BY <1>3, <1>6 DEF LocalTyped, Event
<1> QED
  BY <1>1, <1>7, LocalEditTyped DEF UserWrites

LEMMA UserMovesTyped ==
    ASSUME TInv, NEW p \in Paths, NEW q \in Paths, UserMoves(p, q)
    PROVE  TInv'
<1>1. BudgetTyped' /\ clock' = clock
  BY EditKeepsTypes DEF TInv, UserMoves, Kinds
<1>2. Happened' = Happened /\ 0 \in Happened
  BY <1>1, TimePasses DEF TInv, Happened, BudgetTyped
<1>3. \A x \in Below(q) : Append(p, Last(x)) \in Paths
  BY PathsBelow DEF UserMoves
<1>4. local \in [Paths -> Happened]
  BY DEF TInv, LocalTyped
<1>5. local' \in [Paths -> Happened]
  BY <1>2, <1>3, <1>4 DEF UserMoves
<1>6. queue' \in Seq(Event)
  <2>1. queue \in Seq(Event)
    BY DEF TInv, LocalTyped
  <2>2. queue \o Report(Modified(p)) \in Seq(Event)
    BY <2>1, EventsTyped, NotifyTyped
  <2>3. Report(Modified(q)) \in Seq(Event)
    BY EventsTyped, ReportTyped
  <2> QED
    BY <2>2, <2>3, ConcatProperties DEF UserMoves
<1>7. LocalTyped'
  BY <1>2, <1>5, <1>6 DEF LocalTyped, Event
<1> QED
  BY <1>1, <1>7, LocalEditTyped DEF UserMoves

LEMMA UserRemovesTyped ==
    ASSUME TInv, NEW p \in Paths, UserRemoves(p)
    PROVE  TInv'
<1>1. BudgetTyped' /\ clock' = clock
  BY EditKeepsTypes DEF TInv, UserRemoves, Kinds
<1>2. LocalTyped'
  BY <1>1, TimePasses, LocalDeleteTyped DEF TInv, UserRemoves
<1> QED
  BY <1>1, <1>2, LocalEditTyped DEF UserRemoves

LEMMA RemoteWritesTyped ==
    ASSUME TInv, NEW i \in Ids, RemoteWrites(i)
    PROVE  TInv'
<1>1. BudgetTyped' /\ clock' = clock + 1 /\ EditTime
  BY EditKeepsTypes DEF TInv, RemoteWrites, EditTime, Kinds
<1>2. Happened \subseteq Happened' /\ clock + 1 \in Happened'
  BY <1>1, TimePasses DEF TInv
<1> DEFINE item == [remote[i] EXCEPT !.version = clock + 1]
<1>3. /\ item \in [name : Names, parent : Ids \cup {Root}, version : Happened', state : States]
      /\ item.name = remote[i].name /\ item.parent = remote[i].parent
  BY <1>2, OldItem DEF TInv
<1>4. Put(i, item) /\ Changed({i}) /\ ~IsDir(i)
  BY DEF RemoteWrites
<1> HIDE DEF item
<1>5. DriveTyped'
  BY <1>2, <1>3, <1>4, PutTyped DEF TInv, IsDir
<1> QED
  BY <1>1, <1>5, RemoteEditTyped DEF RemoteWrites

LEMMA RemoteTrashesTyped ==
    ASSUME TInv, NEW i \in Ids, RemoteTrashes(i)
    PROVE  TInv'
<1>1. BudgetTyped' /\ clock' = clock
  BY EditKeepsTypes DEF TInv, RemoteTrashes, Kinds
<1>2. Happened \subseteq Happened'
  BY <1>1, TimePasses DEF TInv
<1> DEFINE item == [remote[i] EXCEPT !.state = "trashed"]
<1>3. /\ item \in [name : Names, parent : Ids \cup {Root}, version : Happened', state : States]
      /\ item.name = remote[i].name /\ item.parent = remote[i].parent
  BY <1>2, OldItem DEF TInv, States
<1>4. PICK listed \in {{i}, {i} \cup Children(i)} : Changed(listed)
  BY DEF RemoteTrashes
<1>5. Put(i, item) /\ listed \in SUBSET Ids
  BY <1>4 DEF RemoteTrashes, Children
<1> HIDE DEF item
<1>6. DriveTyped'
  BY <1>2, <1>3, <1>4, <1>5, OldItem, PutTyped DEF TInv
<1> QED
  BY <1>1, <1>6, RemoteEditTyped DEF RemoteTrashes

LEMMA RemoteDeletesTyped ==
    ASSUME TInv, NEW i \in Ids, RemoteDeletes(i)
    PROVE  TInv'
<1>1. BudgetTyped' /\ clock' = clock
  BY EditKeepsTypes DEF TInv, RemoteDeletes, Kinds
<1>2. DriveTyped'
  BY <1>1, DeleteTyped DEF TInv, RemoteDeletes
<1> QED
  BY <1>1, <1>2, RemoteEditTyped DEF RemoteDeletes

LEMMA RemoteCreatesTyped ==
    ASSUME TInv, NEW i \in Ids, NEW n \in FileNames, NEW dir \in {Root} \cup Ids,
           RemoteCreates(i, n, dir)
    PROVE  TInv'
<1>1. BudgetTyped' /\ clock' = clock + 1 /\ EditTime
  BY EditKeepsTypes DEF TInv, RemoteCreates, EditTime, Kinds
<1>2. Happened \subseteq Happened' /\ clock + 1 \in Happened'
  BY <1>1, TimePasses DEF TInv
<1> DEFINE item == [name |-> n, parent |-> dir, version |-> clock + 1, state |-> "live"]
<1>3. /\ item \in [name : Names, parent : Ids \cup {Root}, version : Happened', state : States]
      /\ item.name \notin DirNames
  BY <1>2, NamesAssumption DEF Names, States
<1>4. Put(i, item) /\ Changed({i})
  BY DEF RemoteCreates
<1> HIDE DEF item
<1>5. DriveTyped'
  BY <1>2, <1>3, <1>4, PutTyped DEF TInv
<1> QED
  BY <1>1, <1>5, RemoteEditTyped DEF RemoteCreates

LEMMA UsersTyped ==
    ASSUME TInv, Users
    PROVE  TInv'
BY UserWritesTyped, UserMovesTyped, UserRemovesTyped, RemoteWritesTyped, RemoteTrashesTyped,
   RemoteDeletesTyped, RemoteCreatesTyped DEF Users

-----------------------------------------------------------------------------
(* The worker keeps the types: the initial pull.                           *)

LEMMA TimeStands ==
    ASSUME TInv, UNCHANGED clock
    PROVE  /\ Happened' = Happened /\ Happened \subseteq Happened'
           /\ 0 \in Happened /\ 1 \in Happened
<1>1. clock \in Nat \ {0}
  BY DEF TInv, BudgetTyped
<1>2. 0 \in 0..clock /\ 1 \in 0..clock
  BY <1>1
<1> QED
  BY <1>2 DEF Happened

LEMMA WorkStepTyped ==
    ASSUME TInv, UNCHANGED userVars,
           UNCHANGED driveVars \/ DriveTyped', UNCHANGED dbVars \/ RowsTyped',
           UNCHANGED <<local, queue>> \/ LocalTyped', UNCHANGED frames \/ FramesTyped',
           JobTyped', WorkTyped'
    PROVE  TInv'
<1>1. Happened \subseteq Happened'
  BY TimeStands DEF userVars
<1>2. BudgetTyped'
  BY DEF TInv, BudgetTyped, userVars
<1> QED
  BY <1>1, <1>2, UntouchedDrive, UntouchedRows, UntouchedLocal, UntouchedFrames DEF TInv

LEMMA NoJobTyped ==
    ASSUME TInv, UNCHANGED clock, job' = NoJob,
           pc' \in {"off", "select", "pull", "watch", "ask token", "store token", "apply",
                    "changes"}
    PROVE  JobTyped'
<1>1. job' \in [path : Paths \cup {<<>>}, id : Ids \cup {0}, md5 : Happened,
                parent : Ids \cup {Root}]
  BY TimeStands DEF NoJob, Root
<1> QED
  BY <1>1, TimeStands DEF JobTyped, FilePcs, RowPcs, LocalPcs, PollPcs

\* The recursion goes into a folder.
LEMMA PullListTyped ==
    ASSUME TInv, PullList
    PROVE  TInv'
<1> DEFINE rest == {[id |-> c, name |-> remote[c].name, md5 |-> remote[c].version] :
                      c \in Children(job.id)}
           frame == [at |-> job.path, rest |-> rest]
<1>1. /\ pc = "list" /\ pc' = "pull" /\ frames' = Append(frames, frame) /\ job' = NoJob
      /\ UNCHANGED <<local, driveVars, dbVars, content, batch, queue, errors, userVars>>
  BY DEF PullList, Goes
<1>2. \A c \in Children(job.id) :
        /\ c \in Ids /\ remote[c].parent = job.id /\ remote[c].name \in Names
        /\ remote[c].version \in Happened /\ remote[c].version \in Nat
        /\ remote[c].name \in DirNames => remote[c].parent = Root
  <2>1. \A v \in Happened : v \in Nat
    <3>1. clock \in Nat
      BY DEF TInv, BudgetTyped
    <3> QED
      BY <3>1 DEF Happened
  <2> QED
    BY <2>1 DEF Children, TInv, DriveTyped
<1>3. job.path \in Places /\ (job.path \in Dirs => job.id # Root)
  BY <1>1 DEF TInv, JobTyped, Root
<1>4. Listing(job.path, rest) /\ rest \subseteq [id : Ids, name : Names, md5 : Nat]
  BY <1>2, <1>3 DEF Listing, Names
<1> HIDE DEF rest
<1>5. frame \in [at : Places, rest : SUBSET [id : Ids, name : Names, md5 : Nat]]
      /\ frame.at = job.path /\ frame.rest = rest
  BY <1>3, <1>4
<1> HIDE DEF frame
<1>6. frames \in Seq([at : Places, rest : SUBSET [id : Ids, name : Names, md5 : Nat]])
      /\ Len(frames) \in Nat
  BY LenProperties DEF TInv, FramesTyped
<1>7. /\ frames' \in Seq([at : Places, rest : SUBSET [id : Ids, name : Names, md5 : Nat]])
      /\ Len(frames') = Len(frames) + 1
      /\ \A k \in 1..Len(frames) : frames'[k] = frames[k]
      /\ frames'[Len(frames) + 1] = frame
  BY <1>1, <1>5, <1>6, AppendProperties
<1>8. \A k \in 1..Len(frames') : k \in 1..Len(frames) \/ k = Len(frames) + 1
  BY <1>6, <1>7
<1>9. \A k \in 1..Len(frames') : Listing(frames'[k].at, frames'[k].rest)
  BY <1>4, <1>5, <1>7, <1>8 DEF TInv, FramesTyped
<1>10. FramesTyped'
  BY <1>1, <1>7, <1>9, TimeStands DEF FramesTyped, Listing, userVars
<1>11. JobTyped'
  BY <1>1, NoJobTyped DEF userVars
<1>12. WorkTyped'
  BY <1>1, TimeStands DEF TInv, WorkTyped, InitialPcs, userVars
<1> QED
  BY <1>1, <1>10, <1>11, <1>12, WorkStepTyped

\* The path of what a listing names.
LEMMA ListedPath ==
    ASSUME NEW at \in Places, NEW n \in Names, at \in Dirs => n \in FileNames
    PROVE  /\ Append(at, n) \in Paths
           /\ n \in FileNames => Append(at, n) \in Files
           /\ n \in DirNames => Append(at, n) \in Dirs
<1>1. CASE at = <<>>
  <2>1. Append(at, n) = <<n>>
    BY <1>1
  <2> QED
    BY <2>1 DEF Names, Paths, Dirs, Files
<1>2. CASE at \in Dirs
  <2>1. PICK d \in DirNames : at = <<d>>
    BY <1>2 DEF Dirs
  <2>2. Append(at, n) = <<d, n>>
    BY <2>1, AppendToOne
  <2>3. <<d, n>> \in Files
    BY <1>2 DEF Files
  <2> QED
    BY <1>2, <2>2, <2>3, NamesAssumption DEF Paths
<1> QED
  BY <1>1, <1>2 DEF Places

LEMMA PullChildTyped ==
    ASSUME TInv, PullChild
    PROVE  TInv'
<1> DEFINE Type == [at : Places, rest : SUBSET [id : Ids, name : Names, md5 : Nat]]
<1>1. /\ pc = "pull" /\ frames # <<>> /\ frames \in Seq(Type)
      /\ UNCHANGED <<local, driveVars, dbVars, content, batch, queue, errors, userVars>>
  BY DEF PullChild, TInv, FramesTyped
<1> HIDE DEF Type
<1> DEFINE top == Last(frames)
           n == Len(frames)
<1>2. /\ Front(frames) \in Seq(Type) /\ Len(Front(frames)) = n - 1
      /\ \A k \in 1..(n - 1) : Front(frames)[k] = frames[k]
      /\ n \in Nat \ {0} /\ top = frames[n] /\ top \in Type
  BY <1>1, FrontProperties
<1>3. /\ \A k \in 1..n : Listing(frames[k].at, frames[k].rest)
      /\ Listing(top.at, top.rest)
  BY <1>2 DEF TInv, FramesTyped
<1>4. \A k \in 1..(n - 1) : Listing(Front(frames)[k].at, Front(frames)[k].rest)
  BY <1>2, <1>3
<1>5. CASE frames' = Front(frames) /\ UNCHANGED <<pc, job>>
  <2>1. FramesTyped'
    BY <1>1, <1>2, <1>4, <1>5, TimeStands DEF FramesTyped, Listing, userVars, Type
  <2>2. JobTyped' /\ WorkTyped'
    BY <1>1, <1>5, TimeStands, UntouchedJob, UntouchedWork DEF TInv, userVars
  <2> QED
    BY <1>1, <2>1, <2>2, WorkStepTyped
<1>6. ASSUME NEW c \in top.rest,
             frames' = Append(Front(frames), [top EXCEPT !.rest = @ \ {c}]),
             \/ UNCHANGED <<pc, job>>
             \/ /\ job' = [path |-> Append(top.at, c.name), id |-> c.id, md5 |-> c.md5,
                           parent |-> 0]
                /\ pc' = IF c.name \in DirNames THEN "mkdir" ELSE "fetch"
      PROVE  TInv'
  <2> DEFINE frame == [top EXCEPT !.rest = @ \ {c}]
  <2>1. frame \in Type /\ frame.rest = top.rest \ {c} /\ frame.at = top.at
    BY <1>2 DEF Type
  <2>2. Listing(frame.at, frame.rest)
    BY <1>3, <2>1 DEF Listing
  <2>3. frames' = Append(Front(frames), frame)
    BY <1>6
  <2> HIDE DEF frame
  <2>4. /\ frames' \in Seq(Type) /\ Len(frames') = n
        /\ \A k \in 1..(n - 1) : frames'[k] = frames[k]
        /\ frames'[n] = frame
    BY <1>2, <2>1, <2>3, AppendProperties
  <2>5. \A k \in 1..n : Listing(frames'[k].at, frames'[k].rest)
    <3>1. \A k \in 1..n : k \in 1..(n - 1) \/ k = n
      BY <1>2
    <3> QED
      BY <1>3, <2>2, <2>4, <3>1
  <2>6. FramesTyped'
    BY <1>1, <2>4, <2>5, TimeStands DEF FramesTyped, Listing, userVars, Type
  <2>7. /\ c \in [id : Ids, name : Names, md5 : Happened]
        /\ top.at \in Places /\ (top.at \in Dirs => c.name \in FileNames)
    BY <1>3 DEF Listing
  <2> DEFINE path == Append(top.at, c.name)
  <2>8. /\ path \in Paths
        /\ c.name \in FileNames => path \in Files
        /\ c.name \in DirNames => path \in Dirs
    BY <2>7, ListedPath
  <2> HIDE DEF path
  <2>9. CASE UNCHANGED <<pc, job>>
    <3>1. JobTyped' /\ WorkTyped'
      BY <1>1, <2>9, TimeStands, UntouchedJob, UntouchedWork DEF TInv, userVars
    <3> QED
      BY <1>1, <2>6, <3>1, WorkStepTyped
  <2>10. CASE /\ job' = [path |-> path, id |-> c.id, md5 |-> c.md5, parent |-> 0]
              /\ pc' = IF c.name \in DirNames THEN "mkdir" ELSE "fetch"
    <3>1. /\ job' \in [path : Paths \cup {<<>>}, id : Ids \cup {0}, md5 : Happened,
                       parent : Ids \cup {Root}]
          /\ job'.path = path /\ job'.id # 0
      BY <2>7, <2>8, <2>10 DEF Root, Ids
    <3>2. JobTyped'
      <4>1. c.name \in FileNames \/ c.name \in DirNames
        BY <2>7 DEF Names
      <4>2. CASE c.name \in DirNames
        BY <1>1, <2>8, <2>10, <3>1, <4>2, TimeStands
           DEF JobTyped, FilePcs, RowPcs, LocalPcs, PollPcs, userVars
      <4>3. CASE c.name \notin DirNames
        BY <1>1, <2>8, <2>10, <3>1, <4>1, <4>3, TimeStands
           DEF JobTyped, FilePcs, RowPcs, LocalPcs, PollPcs, userVars
      <4> QED
        BY <4>2, <4>3
    <3>3. WorkTyped'
      BY <1>1, <2>10, TimeStands DEF TInv, WorkTyped, InitialPcs, userVars
    <3> QED
      BY <1>1, <2>6, <3>2, <3>3, WorkStepTyped
  <2> QED
    BY <1>6, <2>9, <2>10 DEF path
<1> QED
  BY <1>5, <1>6 DEF PullChild

\* record_state with a typed md5.
LEMMA RecordTyped ==
    ASSUME TInv, UNCHANGED <<clock, hasToken>>, job.path \in Paths, job.id \in Ids,
           NEW md5 \in Happened, Record(job.path, job.id, md5)
    PROVE  RowsTyped'
<1>1. /\ rows \in [Paths -> [id : Ids \cup {0}, md5 : Happened]]
      /\ rows' = [rows EXCEPT ![job.path] = [id |-> job.id, md5 |-> md5]]
      /\ 0 \notin Ids
  BY DEF TInv, RowsTyped, Record, Ids
<1>2. rows' \in [Paths -> [id : Ids \cup {0}, md5 : Happened]]
  BY <1>1
<1>3. \A p \in Paths : rows'[p] = IF p = job.path THEN [id |-> job.id, md5 |-> md5]
                                                  ELSE rows[p]
  BY <1>1
<1>4. \A p \in Paths : rows'[p].id = 0 => rows'[p] = NoRow
  BY <1>1, <1>3 DEF TInv, RowsTyped
<1>5. twice' \subseteq Ids
  BY DEF TInv, RowsTyped, Record
<1> QED
  BY <1>2, <1>4, <1>5, TimeStands DEF RowsTyped, TInv

LEMMA PullFolderTyped ==
    ASSUME TInv, PullMkdir \/ PullKeepDir
    PROVE  TInv'
<1>1. /\ job.path \in Dirs /\ job.path \in Paths /\ job.id \in Ids /\ job.id # 0
      /\ UNCHANGED <<driveVars, frames, job, content, batch, queue, errors, userVars>>
      /\ pc \in {"mkdir", "keep dir"} /\ pc' \in {"keep dir", "list"}
  BY DEF PullMkdir, PullKeepDir, TInv, JobTyped, Paths, Goes
<1>2. JobTyped'
  BY <1>1, TimeStands
     DEF TInv, JobTyped, FilePcs, RowPcs, LocalPcs, PollPcs, userVars, Places
<1>3. WorkTyped'
  BY <1>1, TimeStands DEF TInv, WorkTyped, InitialPcs, userVars
<1>4. CASE PullMkdir
  <2> DEFINE v == IF local[job.path] = 0 THEN 1 ELSE local[job.path]
  <2>1. local \in [Paths -> Happened] /\ v \in Happened
    BY <1>1, TimeStands DEF TInv, LocalTyped, userVars
  <2>2. local' = [local EXCEPT ![job.path] = v]
    BY <1>4, <2>1 DEF PullMkdir
  <2> HIDE DEF v
  <2>3. local' \in [Paths -> Happened]
    BY <2>1, <2>2
  <2>4. LocalTyped'
    BY <1>1, <2>3, TimeStands DEF TInv, LocalTyped, userVars, Event
  <2> QED
    BY <1>1, <1>2, <1>3, <1>4, <2>4, WorkStepTyped DEF PullMkdir
<1>5. CASE PullKeepDir
  <2>1. RowsTyped'
    BY <1>1, <1>5, RecordTyped, TimeStands DEF PullKeepDir, userVars
  <2> QED
    BY <1>1, <1>2, <1>3, <1>5, <2>1, WorkStepTyped DEF PullKeepDir
<1> QED
  BY <1>4, <1>5

\* Downloads, for the pull and for a poll.
LEMMA DownloadTyped ==
    ASSUME TInv, Download("fetch", "write") \/ Download("refetch", "rewrite")
    PROVE  TInv'
<1>1. /\ <<pc, pc'>> \in {<<"fetch", "write">>, <<"refetch", "rewrite">>}
      /\ content' = remote[job.id].version
      /\ UNCHANGED <<local, driveVars, dbVars, frames, job, batch, queue, errors, userVars>>
  BY DEF Download, Goes
<1>2. job.id \in Ids
  BY <1>1 DEF TInv, JobTyped, FilePcs, RowPcs, PollPcs
<1>3. content' \in Happened
  BY <1>1, <1>2 DEF TInv, DriveTyped
<1>4. JobTyped'
  BY <1>1, TimeStands
     DEF TInv, JobTyped, FilePcs, RowPcs, LocalPcs, PollPcs, userVars
<1>5. WorkTyped'
  BY <1>1, <1>3, TimeStands DEF TInv, WorkTyped, InitialPcs, PollPcs, userVars
<1> QED
  BY <1>1, <1>4, <1>5, WorkStepTyped

LEMMA WriteLocalTyped ==
    ASSUME TInv, WriteLocal("write", "keep") \/ WriteLocal("rewrite", "rekeep")
    PROVE  TInv'
<1>1. /\ <<pc, pc'>> \in {<<"write", "keep">>, <<"rewrite", "rekeep">>}
      /\ local' = [local EXCEPT ![job.path] = content] /\ content' = 0
      /\ Notify(Modified(job.path))
      /\ UNCHANGED <<driveVars, dbVars, frames, job, batch, errors, userVars>>
  BY DEF WriteLocal, Goes
<1>2. job.path \in Paths
  BY <1>1 DEF TInv, JobTyped, FilePcs, RowPcs, PollPcs, Paths
<1>3. local' \in [Paths -> Happened] /\ queue' \in Seq(Event)
  <2>1. local \in [Paths -> Happened] /\ content \in Happened
    BY DEF TInv, LocalTyped, WorkTyped
  <2> QED
    BY <1>1, <1>2, <2>1, EventsTyped, NotifyTyped DEF TInv, LocalTyped, Notify
<1>4. LocalTyped'
  BY <1>1, <1>3, TimeStands DEF LocalTyped, userVars, Event
<1>5. JobTyped'
  BY <1>1, TimeStands
     DEF TInv, JobTyped, FilePcs, RowPcs, LocalPcs, PollPcs, userVars
<1>6. WorkTyped'
  BY <1>1, TimeStands DEF TInv, WorkTyped, InitialPcs, PollPcs, userVars
<1> QED
  BY <1>1, <1>4, <1>5, <1>6, WorkStepTyped

LEMMA KeepTyped ==
    ASSUME TInv, Keep("keep", "pull") \/ Keep("rekeep", "apply")
    PROVE  TInv'
<1>1. /\ <<pc, pc'>> \in {<<"keep", "pull">>, <<"rekeep", "apply">>}
      /\ Record(job.path, job.id, job.md5) /\ job' = NoJob
      /\ queue' = queue \/ queue' = queue \o Report(Modified(job.path))
      /\ UNCHANGED <<local, driveVars, hasToken, frames, content, batch, errors, userVars>>
  BY DEF Keep, Goes, Notify
<1>2. job.path \in Paths /\ job.id \in Ids /\ job.md5 \in Happened
  BY <1>1 DEF TInv, JobTyped, FilePcs, RowPcs, PollPcs, Paths
<1>3. RowsTyped'
  BY <1>1, <1>2, RecordTyped DEF userVars
<1>4. LocalTyped'
  BY <1>1, <1>2, EventsTyped, NotifyTyped, TimeStands DEF TInv, LocalTyped, userVars, Event
<1>5. JobTyped'
  BY <1>1, NoJobTyped DEF userVars
<1>6. WorkTyped'
  BY <1>1, TimeStands DEF TInv, WorkTyped, InitialPcs, PollPcs, userVars
<1> QED
  BY <1>1, <1>3, <1>4, <1>5, <1>6, WorkStepTyped

\* The end of the pull, and the token.
LEMMA PullEndTyped ==
    ASSUME TInv, PullDone \/ AskToken \/ StoreToken \/ Watch
    PROVE  TInv'
<1>1. /\ pc \in {"pull", "ask token", "store token", "watch"}
      /\ pc' \in {"ask token", "store token", "watch", "select"}
      /\ UNCHANGED <<local, remote, rows, twice, frames, job, content, batch, queue, userVars>>
      /\ errors' \subseteq errors
  BY DEF PullDone, AskToken, StoreToken, Watch, Goes, dbVars, driveVars
<1>2. RowsTyped'
  BY <1>1, TimeStands DEF PullDone, AskToken, StoreToken, Watch, TInv, RowsTyped, userVars, dbVars
<1>3. DriveTyped'
  BY <1>1, TimeStands
     DEF PullDone, AskToken, StoreToken, Watch, TInv, DriveTyped, driveVars, userVars
<1>4. JobTyped'
  BY <1>1, TimeStands
     DEF TInv, JobTyped, FilePcs, RowPcs, LocalPcs, PollPcs, userVars
<1>5. WorkTyped'
  BY <1>1, TimeStands DEF TInv, WorkTyped, InitialPcs, PollPcs, userVars
<1> QED
  BY <1>1, <1>2, <1>3, <1>4, <1>5, WorkStepTyped

-----------------------------------------------------------------------------
(* The worker keeps the types: local changes.                              *)

\* What Done leaves behind.
LEMMA DoneTyped ==
    ASSUME TInv, UNCHANGED <<clock, batch>>, NEW works, Done(works)
    PROVE  JobTyped' /\ WorkTyped'
<1>1. job' = NoJob /\ pc' = "select" /\ content' = 0 /\ errors' \subseteq errors
  BY DEF Done
<1>2. JobTyped'
  BY <1>1, NoJobTyped
<1> QED
  BY <1>1, <1>2, TimeStands DEF TInv, WorkTyped

LEMMA TakeTyped ==
    ASSUME TInv, TakeRemoved \/ TakeModified
    PROVE  TInv'
<1>1. /\ pc = "select" /\ queue # <<>> /\ queue' = Tail(queue)
      /\ UNCHANGED <<local, driveVars, dbVars, frames, batch, userVars>>
  BY DEF TakeRemoved, TakeModified
<1>2. Head(queue) \in Event /\ Tail(queue) \in Seq(Event)
  BY <1>1, HeadTailProperties DEF TInv, LocalTyped
<1>3. LocalTyped'
  BY <1>1, <1>2, TimeStands DEF TInv, LocalTyped, userVars, Event
<1> DEFINE p == Head(queue).path
<1>4. p \in Paths /\ rows[p].id \in Ids \cup {0}
  BY <1>2 DEF Event, TInv, RowsTyped
<1> HIDE DEF p
<1>5. JobTyped' /\ WorkTyped'
  <2>1. CASE Done({p})
    BY <1>1, <2>1, DoneTyped DEF userVars
  <2>2. CASE /\ pc' = "erase" /\ job' = [NoJob EXCEPT !.path = p, !.id = rows[p].id]
             /\ rows[p].id # 0 /\ UNCHANGED <<content, errors>>
    <3>1. /\ job' \in [path : Paths \cup {<<>>}, id : Ids \cup {0}, md5 : Happened,
                       parent : Ids \cup {Root}]
          /\ job'.path = p /\ job'.id # 0
      BY <1>1, <1>4, <2>2, TimeStands DEF NoJob, Root, userVars
    <3>2. JobTyped'
      BY <1>1, <1>4, <2>2, <3>1, TimeStands DEF JobTyped, FilePcs, RowPcs, PollPcs, userVars
    <3>3. WorkTyped'
      BY <1>1, <2>2, TimeStands DEF TInv, WorkTyped, LocalPcs, userVars
    <3> QED
      BY <3>2, <3>3
  <2>3. CASE /\ pc' = "stat" /\ job' = [NoJob EXCEPT !.path = p]
             /\ UNCHANGED <<content, errors>>
    <3>1. /\ job' \in [path : Paths \cup {<<>>}, id : Ids \cup {0}, md5 : Happened,
                       parent : Ids \cup {Root}]
          /\ job'.path = p
      BY <1>1, <1>4, <2>3, TimeStands DEF NoJob, Root, userVars
    <3>2. JobTyped'
      BY <1>1, <1>4, <2>3, <3>1, TimeStands DEF JobTyped, FilePcs, RowPcs, PollPcs, userVars
    <3>3. WorkTyped'
      BY <1>1, <2>3, TimeStands DEF TInv, WorkTyped, LocalPcs, userVars
    <3> QED
      BY <3>2, <3>3
  <2>4. TakeModified => <2>3!1
    BY DEF TakeModified, p
  <2>5. TakeRemoved => <2>1!1 \/ <2>2!1
    BY DEF TakeRemoved, p
  <2> QED
    BY <2>1, <2>2, <2>3, <2>4, <2>5
<1> QED
  BY <1>1, <1>3, <1>5, WorkStepTyped

LEMMA DeleteFileTyped ==
    ASSUME TInv, DeleteFile
    PROVE  TInv'
<1>1. /\ pc = "erase" /\ pc' = "forget" /\ DeletePermanently(job.id)
      /\ UNCHANGED <<local, dbVars, frames, job, content, batch, queue, errors, userVars>>
  BY DEF DeleteFile, Goes
<1>2. job.id \in Ids
  BY <1>1 DEF TInv, JobTyped
<1>3. DriveTyped'
  BY <1>1, <1>2, DeleteTyped DEF TInv, userVars
<1>4. JobTyped'
  BY <1>1, TimeStands DEF TInv, JobTyped, FilePcs, RowPcs, LocalPcs, PollPcs, userVars
<1>5. WorkTyped'
  BY <1>1, TimeStands DEF TInv, WorkTyped, LocalPcs, userVars
<1> QED
  BY <1>1, <1>3, <1>4, <1>5, WorkStepTyped

LEMMA RemoveRowTyped ==
    ASSUME TInv, UNCHANGED <<clock, hasToken>>, NEW p \in Paths, RemoveRowOf(p)
    PROVE  RowsTyped'
<1>1. rows' = [rows EXCEPT ![p] = NoRow] /\ twice' = twice /\ hasToken' = hasToken
  BY DEF RemoveRowOf
<1>2. rows \in [Paths -> [id : Ids \cup {0}, md5 : Happened]]
      /\ NoRow \in [id : Ids \cup {0}, md5 : Happened]
  BY TimeStands DEF TInv, RowsTyped, NoRow
<1>3. rows' \in [Paths -> [id : Ids \cup {0}, md5 : Happened]]
  BY <1>1, <1>2
<1>4. \A q \in Paths : rows'[q].id = 0 => rows'[q] = NoRow
  BY <1>1, <1>2 DEF TInv, RowsTyped
<1> QED
  BY <1>1, <1>3, <1>4, TimeStands DEF TInv, RowsTyped

LEMMA LocalRowsTyped ==
    ASSUME TInv, ForgetDeleted \/ RecordUpload
    PROVE  TInv'
<1>1. /\ pc \in {"forget", "record"}
      /\ Done({job.path})
      /\ UNCHANGED <<local, driveVars, hasToken, frames, batch, queue, userVars>>
  BY DEF ForgetDeleted, RecordUpload
<1>2. job.path \in Paths /\ job.md5 \in Happened /\ (pc = "record" => job.id \in Ids)
  BY <1>1 DEF TInv, JobTyped, LocalPcs
<1>3. RowsTyped'
  BY <1>1, <1>2, RemoveRowTyped, RecordTyped DEF ForgetDeleted, RecordUpload, userVars
<1>4. JobTyped' /\ WorkTyped'
  BY <1>1, DoneTyped DEF userVars
<1> QED
  BY <1>1, <1>3, <1>4, WorkStepTyped

\* The folder in which an item is created.
LEMMA ParentTyped ==
    ASSUME TInv, NEW p \in Paths
    PROVE  /\ ParentOf(p) \in Ids \cup {Root}
           /\ p \in Dirs => ParentOf(p) = Root
<1>1. CASE \E d, n \in Names : p = <<d, n>> /\ d \in DirNames
  <2>1. PICK d \in Names, n \in Names : p = <<d, n>> /\ d \in DirNames
    BY <1>1
  <2>2. Len(p) = 2 /\ Above(p) = <<d>> /\ <<d>> \in Paths
    BY <2>1, PairParts DEF Above, Paths, Dirs
  <2>3. p \notin Dirs
    BY <2>1 DEF Dirs
  <2> QED
    BY <2>2, <2>3 DEF ParentOf, TInv, RowsTyped, Root
<1>2. CASE \E n : p = <<n>>
  BY <1>2 DEF ParentOf
<1> QED
  BY <1>1, <1>2 DEF Paths, Dirs, Files, Names

LEMMA StatTyped ==
    ASSUME TInv, Stat
    PROVE  TInv'
<1>1. /\ pc = "stat" /\ UNCHANGED <<local, driveVars, dbVars, frames, batch, queue, userVars>>
      /\ job.path \in Paths
  BY DEF Stat, TInv, JobTyped, LocalPcs
<1> DEFINE p == job.path
<1>2. JobTyped' /\ WorkTyped'
  <2>1. ASSUME NEW works, Done(works) PROVE JobTyped' /\ WorkTyped'
    BY <1>1, <2>1, DoneTyped DEF userVars
  <2>2. CASE p \in Files /\ pc' = "read" /\ UNCHANGED <<job, content, errors>>
    <3>1. JobTyped'
      BY <1>1, <2>2, TimeStands DEF TInv, JobTyped, FilePcs, RowPcs, PollPcs, userVars
    <3> QED
      BY <1>1, <2>2, <3>1, TimeStands DEF TInv, WorkTyped, LocalPcs, userVars
  <2>3. CASE /\ p \in Dirs /\ pc' = "create" /\ job' = [job EXCEPT !.parent = ParentOf(p)]
             /\ UNCHANGED <<content, errors>>
    <3>1. ParentOf(p) = Root
      BY <1>1, <2>3, ParentTyped
    <3>2. /\ job' \in [path : Paths \cup {<<>>}, id : Ids \cup {0}, md5 : Happened,
                       parent : Ids \cup {Root}]
          /\ job'.path = p /\ job'.parent = Root
      BY <2>3, <3>1 DEF TInv, JobTyped
    <3>3. JobTyped'
      BY <1>1, <2>3, <3>2, TimeStands DEF JobTyped, FilePcs, RowPcs, PollPcs, userVars
    <3> QED
      BY <1>1, <2>3, <3>3, TimeStands DEF TInv, WorkTyped, LocalPcs, userVars
  <2>4. \/ Done(IF rows[p].id = 0 THEN {p} ELSE {}) \/ Done({p})
        \/ <2>2!1 \/ <2>3!1
    BY DEF Stat
  <2> QED
    BY <2>1, <2>2, <2>3, <2>4
<1> QED
  BY <1>1, <1>2, WorkStepTyped

LEMMA ReadTyped ==
    ASSUME TInv, Read
    PROVE  TInv'
<1>1. /\ pc = "read" /\ pc' = "upload" /\ content' = local[job.path]
      /\ queue' = queue \/ queue' = queue \o Report(Modified(job.path))
      /\ job' = [job EXCEPT !.id = rows[job.path].id, !.parent = ParentOf(job.path)]
      /\ UNCHANGED <<local, driveVars, dbVars, frames, batch, errors, userVars>>
      /\ job.path \in Files /\ job.path \in Paths
  BY DEF Read, Goes, Notify, TInv, JobTyped, Paths
<1>2. LocalTyped'
  BY <1>1, EventsTyped, NotifyTyped, TimeStands DEF TInv, LocalTyped, userVars, Event
<1>3. rows[job.path].id \in Ids \cup {0} /\ ParentOf(job.path) \in Ids \cup {Root}
      /\ local[job.path] \in Happened
  BY <1>1, ParentTyped DEF TInv, RowsTyped, LocalTyped
<1>4. /\ job' \in [path : Paths \cup {<<>>}, id : Ids \cup {0}, md5 : Happened,
                   parent : Ids \cup {Root}]
      /\ job'.path = job.path
  BY <1>1, <1>3 DEF TInv, JobTyped
<1>5. JobTyped'
  BY <1>1, <1>4, TimeStands DEF JobTyped, FilePcs, RowPcs, PollPcs, userVars
<1>6. WorkTyped'
  BY <1>1, <1>3, TimeStands DEF TInv, WorkTyped, LocalPcs, userVars
<1> QED
  BY <1>1, <1>2, <1>5, <1>6, WorkStepTyped

LEMMA LastName ==
    ASSUME NEW p \in Paths
    PROVE  /\ Last(p) \in Names
           /\ p \in Files => Last(p) \in FileNames
           /\ p \in Dirs => Last(p) \in DirNames
<1>1. ASSUME p \in Dirs PROVE Last(p) \in DirNames
  BY <1>1 DEF Dirs, Last
<1> QED
  BY <1>1, LastOfFile DEF Paths, Names

LEMMA NewItemTyped ==
    ASSUME TInv, UNCHANGED clock, NEW i \in FreshIds, NEW version \in Happened,
           job.path \in Paths, job.path \in Dirs => job.parent = Root,
           NewItem(i, version)
    PROVE  /\ DriveTyped'
           /\ job' \in [path : Paths \cup {<<>>}, id : Ids \cup {0}, md5 : Happened,
                        parent : Ids \cup {Root}]
           /\ job'.path = job.path /\ job'.id # 0
<1> DEFINE item == [name |-> Last(job.path), parent |-> job.parent, version |-> version,
                    state |-> "live"]
<1>1. i \in Ids /\ i # 0 /\ Put(i, item) /\ Changed({i})
      /\ job' = [job EXCEPT !.id = i, !.md5 = IF UploadAnswersMd5 THEN version ELSE 0]
  BY DEF FreshIds, Ids, NewItem
<1>2. /\ item \in [name : Names, parent : Ids \cup {Root}, version : Happened,
                   state : States]
      /\ item.name = Last(job.path) /\ item.parent = job.parent
  BY LastName DEF TInv, JobTyped, States
<1> HIDE DEF item
<1>3. item.name \in DirNames => item.parent = Root
  BY <1>2, LastName, NamesAssumption DEF Paths
<1>4. DriveTyped'
  BY <1>1, <1>2, <1>3, PutTyped, TimeStands DEF TInv
<1>5. /\ job' \in [path : Paths \cup {<<>>}, id : Ids \cup {0}, md5 : Happened,
                   parent : Ids \cup {Root}]
      /\ job'.path = job.path /\ job'.id = i
  BY <1>1, TimeStands DEF TInv, JobTyped
<1> QED
  BY <1>1, <1>4, <1>5

LEMMA UploadTyped ==
    ASSUME TInv, Upload \/ CreateFolder
    PROVE  TInv'
<1>1. /\ pc \in {"upload", "create"} /\ pc' = "record"
      /\ UNCHANGED <<local, dbVars, frames, content, batch, queue, errors, userVars>>
      /\ job.path \in Paths /\ content \in Happened /\ 0 \in Happened
      /\ job.path \in Dirs => job.parent = Root
  <2>1. job.path \in Files => job.path \notin Dirs
    BY NamesAssumption DEF Files, Dirs
  <2> QED
    BY <2>1, TimeStands
       DEF Upload, CreateFolder, Goes, TInv, JobTyped, WorkTyped, LocalPcs, userVars
<1>2. /\ DriveTyped'
      /\ job' \in [path : Paths \cup {<<>>}, id : Ids \cup {0}, md5 : Happened,
                   parent : Ids \cup {Root}]
      /\ job'.path = job.path /\ job'.id # 0
  <2>1. ASSUME NEW i \in FreshIds, NEW version \in {content, 0}, NewItem(i, version)
        PROVE  <1>2
    BY <1>1, <2>1, NewItemTyped DEF userVars
  <2>2. CASE Upload /\ job.id # 0
    <3> DEFINE item == [remote[job.id] EXCEPT !.version = content]
    <3>1. /\ job.id \in Ids /\ Put(job.id, item) /\ Changed({job.id})
          /\ job' = [job EXCEPT !.md5 = IF UploadAnswersMd5 THEN content ELSE 0]
      BY <2>2 DEF Upload, TInv, JobTyped
    <3>2. /\ item \in [name : Names, parent : Ids \cup {Root}, version : Happened,
                       state : States]
          /\ item.name = remote[job.id].name /\ item.parent = remote[job.id].parent
      BY <1>1, <3>1, OldItem, TimeStands DEF TInv, userVars
    <3> HIDE DEF item
    <3>3. DriveTyped'
      BY <1>1, <3>1, <3>2, OldItem, PutTyped, TimeStands DEF TInv, userVars
    <3>4. /\ job' \in [path : Paths \cup {<<>>}, id : Ids \cup {0}, md5 : Happened,
                       parent : Ids \cup {Root}]
          /\ job'.path = job.path /\ job'.id = job.id
      BY <1>1, <3>1 DEF TInv, JobTyped
    <3> QED
      BY <2>2, <3>3, <3>4
  <2>3. (Upload /\ job.id = 0) \/ CreateFolder =>
           \E i \in FreshIds, version \in {content, 0} : NewItem(i, version)
    BY DEF Upload, CreateFolder
  <2> QED
    BY <2>1, <2>2, <2>3
<1>3. JobTyped'
  BY <1>1, <1>2, TimeStands DEF JobTyped, FilePcs, RowPcs, LocalPcs, PollPcs, userVars
<1>4. WorkTyped'
  BY <1>1, TimeStands DEF TInv, WorkTyped, LocalPcs, userVars
<1> QED
  BY <1>1, <1>2, <1>3, <1>4, WorkStepTyped

-----------------------------------------------------------------------------
(* The worker keeps the types: changes on Drive, and what fails.           *)

LEMMA PollTyped ==
    ASSUME TInv, PollTick \/ ListChanges \/ SetToken
    PROVE  TInv'
<1>1. UNCHANGED <<local, remote, dbVars, frames, queue, userVars>>
  BY DEF PollTick, ListChanges, SetToken, driveVars
<1>2. DriveTyped'
  BY <1>1, TimeStands DEF PollTick, ListChanges, SetToken, TInv, DriveTyped, driveVars, userVars
<1>3. CASE SetToken
  BY <1>1, <1>2, <1>3, DoneTyped, WorkStepTyped DEF SetToken, userVars
<1>4. CASE PollTick
  <2>1. /\ pc' = "changes" /\ pc = "select"
        /\ UNCHANGED <<job, content, batch, errors>>
    BY <1>4 DEF PollTick
  <2>2. JobTyped'
    BY <1>1, <2>1, TimeStands DEF TInv, JobTyped, FilePcs, RowPcs, LocalPcs, userVars
  <2>3. WorkTyped'
    BY <1>1, <2>1, TimeStands DEF TInv, WorkTyped, PollPcs, userVars
  <2> QED
    BY <1>1, <1>2, <2>2, <2>3, WorkStepTyped
<1>5. CASE ListChanges
  <2>1. /\ pc' = "apply" /\ UNCHANGED <<job, content, errors>>
        /\ batch' = {[id |-> i, gone |-> ~Live(i) \/ InTrash(i), md5 |-> remote[i].version] :
                       i \in afterToken}
    BY <1>5 DEF ListChanges, Goes
  <2>2. batch' \subseteq [id : Ids, gone : BOOLEAN, md5 : Happened]
    <3>1. \A i \in afterToken : /\ i \in Ids /\ remote[i].version \in Happened
                                /\ (~Live(i) \/ InTrash(i)) \in BOOLEAN
      BY DEF TInv, DriveTyped
    <3>2. \A i \in afterToken :
            [id |-> i, gone |-> ~Live(i) \/ InTrash(i), md5 |-> remote[i].version]
              \in [id : Ids, gone : BOOLEAN, md5 : Happened]
      BY <3>1
    <3> QED
      BY <2>1, <3>2
  <2>3. JobTyped'
    BY <1>1, <2>1, TimeStands DEF TInv, JobTyped, FilePcs, RowPcs, LocalPcs, userVars
  <2>4. WorkTyped'
    BY <1>1, <2>1, <2>2, TimeStands DEF TInv, WorkTyped, PollPcs, userVars
  <2> QED
    BY <1>1, <1>2, <2>3, <2>4, WorkStepTyped
<1> QED
  BY <1>3, <1>4, <1>5

LEMMA ApplyChangeTyped ==
    ASSUME TInv, ApplyChange
    PROVE  TInv'
<1>1. PICK c \in batch :
        /\ batch' = batch \ {c}
        /\ \/ UNCHANGED <<pc, job>>
           \/ \E p \in RowsOf(c.id) :
                /\ job' = [path |-> p, id |-> c.id, md5 |-> c.md5, parent |-> 0]
                /\ pc' \in {"remove", "refetch"}
  BY DEF ApplyChange
<1>2. /\ pc = "apply"
      /\ UNCHANGED <<local, driveVars, dbVars, frames, content, queue, errors, userVars>>
  BY DEF ApplyChange
<1>3. c \in [id : Ids, gone : BOOLEAN, md5 : Happened] /\ 0 \notin Ids
  BY DEF TInv, WorkTyped, Ids
<1>4. CASE UNCHANGED <<pc, job>>
  <2>1. JobTyped'
    BY <1>2, <1>4, TimeStands, UntouchedJob DEF TInv, userVars
  <2>2. WorkTyped'
    BY <1>1, <1>2, <1>4, TimeStands DEF TInv, WorkTyped, userVars
  <2> QED
    BY <1>2, <2>1, <2>2, WorkStepTyped
<1>5. ASSUME NEW p \in RowsOf(c.id),
             job' = [path |-> p, id |-> c.id, md5 |-> c.md5, parent |-> 0],
             pc' \in {"remove", "refetch"}
      PROVE  TInv'
  <2>1. /\ p \in Paths
        /\ job' \in [path : Paths \cup {<<>>}, id : Ids \cup {0}, md5 : Happened,
                     parent : Ids \cup {Root}]
        /\ job'.path = p /\ job'.id # 0
    BY <1>3, <1>5 DEF RowsOf, Root
  <2>2. JobTyped'
    BY <1>2, <1>5, <2>1, TimeStands DEF JobTyped, FilePcs, RowPcs, LocalPcs, PollPcs, userVars
  <2>3. WorkTyped'
    BY <1>1, <1>2, <1>5, TimeStands DEF TInv, WorkTyped, PollPcs, userVars
  <2> QED
    BY <1>2, <2>2, <2>3, WorkStepTyped
<1> QED
  BY <1>1, <1>4, <1>5

LEMMA RemovalTyped ==
    ASSUME TInv, RemoveLocal \/ RemoveRow
    PROVE  TInv'
<1>1. /\ pc \in {"remove", "unrow"} /\ job.path \in Paths
      /\ UNCHANGED <<driveVars, frames, content, batch, errors, userVars>>
  BY DEF RemoveLocal, RemoveRow, TInv, JobTyped, RowPcs, PollPcs
<1>2. CASE RemoveLocal
  <2>1. /\ pc = "remove" /\ pc' = "unrow" /\ UNCHANGED <<dbVars, job>>
        /\ LocalDelete(job.path) \/ UNCHANGED <<local, queue>>
    BY <1>2 DEF RemoveLocal, Goes
  <2>2. UNCHANGED <<local, queue>> \/ LocalTyped'
    BY <1>1, <2>1, TimeStands, LocalDeleteTyped DEF TInv, userVars
  <2>3. JobTyped'
    BY <1>1, <2>1, TimeStands DEF TInv, JobTyped, FilePcs, RowPcs, LocalPcs, PollPcs, userVars
  <2>4. WorkTyped'
    BY <1>1, <2>1, TimeStands DEF TInv, WorkTyped, PollPcs, userVars
  <2> QED
    BY <1>1, <2>1, <2>2, <2>3, <2>4, WorkStepTyped
<1>3. CASE RemoveRow
  <2>1. /\ pc' = "apply" /\ job' = NoJob /\ RemoveRowOf(job.path)
        /\ UNCHANGED <<local, queue, hasToken>>
    BY <1>3 DEF RemoveRow, Goes
  <2>2. RowsTyped'
    BY <1>1, <2>1, RemoveRowTyped DEF userVars
  <2>3. JobTyped'
    BY <1>1, <2>1, NoJobTyped DEF userVars
  <2>4. WorkTyped'
    BY <1>1, <2>1, TimeStands DEF TInv, WorkTyped, PollPcs, userVars
  <2> QED
    BY <1>1, <2>1, <2>2, <2>3, <2>4, WorkStepTyped
<1> QED
  BY <1>2, <1>3

\* A step that ends all that was under way.
LEMMA EndTyped ==
    ASSUME TInv, BudgetTyped', UNCHANGED <<clock, local, driveVars, dbVars>>,
           queue' \in {queue, <<>>}, pc' \in {"off", "select", "list"},
           job' \in {NoJob, [NoJob EXCEPT !.id = Root]},
           content' = 0, frames' = <<>>, batch' = {},
           errors' \subseteq Paths \cup {InitialWork, RemoteWork}
    PROVE  TInv'
<1>1. Happened' = Happened /\ 0 \in Happened
  BY TimeStands
<1>2. DriveTyped' /\ RowsTyped'
  BY <1>1, UntouchedDrive, UntouchedRows DEF TInv
<1>3. LocalTyped'
  BY <1>1, EmptySeq DEF TInv, LocalTyped, Event
<1>4. FramesTyped'
  <2>1. Len(<<>>) = 0
    OBVIOUS
  <2> QED
    BY <2>1, EmptySeq DEF FramesTyped
<1>5. job' = NoJob
  BY DEF NoJob, Root
<1>6. JobTyped'
  <2>1. job' \in [path : Paths \cup {<<>>}, id : Ids \cup {0}, md5 : Happened,
                  parent : Ids \cup {Root}]
    BY <1>1, <1>5 DEF NoJob, Root
  <2>2. job'.path = <<>> /\ <<>> \notin Dirs
    BY <1>5 DEF NoJob, Dirs
  <2> QED
    BY <1>1, <2>1, <2>2 DEF JobTyped, FilePcs, RowPcs, LocalPcs, PollPcs, Places
<1>7. WorkTyped'
  BY <1>1 DEF WorkTyped, InitialPcs
<1> QED
  BY <1>2, <1>3, <1>4, <1>6, <1>7 DEF TInv

LEMMA EndsTyped ==
    ASSUME TInv, Failed \/ Abort \/ Start
    PROVE  TInv'
<1>1. CASE Failed
  <2>1. BudgetTyped' /\ UNCHANGED clock
    <3>1. UNCHANGED clock /\ (UNCHANGED left \/ Spend("fault"))
      BY <1>1 DEF Failed
    <3>2. UNCHANGED left => BudgetTyped'
      BY <3>1 DEF TInv, BudgetTyped
    <3> QED
      BY <3>1, <3>2, SpendKeepsTypes DEF TInv
  <2>2. pc \in InitialPcs \cup LocalPcs \cup PollPcs
    BY <1>1 DEF TInv, WorkTyped, Failed, Refused, Fallible
  <2>3. (CASE pc \in InitialPcs -> InitialWork
            [] pc \in LocalPcs   -> job.path
            [] pc \in PollPcs    -> RemoteWork) \in Paths \cup {InitialWork, RemoteWork}
    <3>1. pc \in LocalPcs => job.path \in Paths
      BY DEF TInv, JobTyped
    <3>2. /\ pc \in InitialPcs => pc \notin LocalPcs /\ pc \notin PollPcs
          /\ pc \in LocalPcs => pc \notin PollPcs
      BY DEF InitialPcs, LocalPcs, PollPcs
    <3> QED
      BY <2>2, <3>1, <3>2
  <2>4. errors' \subseteq Paths \cup {InitialWork, RemoteWork}
    BY <1>1, <2>3 DEF Failed, TInv, WorkTyped
  <2> QED
    BY <1>1, <2>1, <2>4, EndTyped DEF Failed
<1>2. CASE Abort
  <2>1. BudgetTyped'
    BY <1>2 DEF Abort, TInv, BudgetTyped, userVars
  <2> QED
    BY <1>2, <2>1, EndTyped DEF Abort, userVars
<1>3. CASE Start
  <2>1. BudgetTyped' /\ UNCHANGED clock
    BY <1>3, SpendKeepsTypes DEF Start, TInv
  <2>2. job' = [NoJob EXCEPT !.id = Root] /\ pc' = "list" /\ errors' = {}
    BY <1>3 DEF Start
  <2>3. /\ job' = NoJob
    BY <2>2 DEF NoJob, Root
  <2>4. JobTyped'
    <3>1. job' \in [path : Paths \cup {<<>>}, id : Ids \cup {0}, md5 : Happened,
                    parent : Ids \cup {Root}]
      BY <2>1, <2>3, TimeStands DEF NoJob, Root
    <3>2. job'.path = <<>> /\ <<>> \notin Dirs
      BY <2>3 DEF NoJob, Dirs
    <3> QED
      BY <2>1, <2>2, <3>1, <3>2, TimeStands
         DEF JobTyped, FilePcs, RowPcs, LocalPcs, PollPcs, Places
  <2>5. WorkTyped'
    BY <1>3, <2>1, <2>2, TimeStands DEF Start, TInv, WorkTyped, InitialPcs
  <2>6. Happened \subseteq Happened'
    BY <2>1, TimeStands
  <2> QED
    BY <1>3, <2>1, <2>4, <2>5, <2>6, UntouchedDrive, UntouchedRows, UntouchedLocal,
       UntouchedFrames DEF Start, TInv
<1> QED
  BY <1>1, <1>2, <1>3

LEMMA NextTyped ==
    ASSUME TInv, [Next]_vars
    PROVE  TInv'
<1>1. CASE Users
  BY <1>1, UsersTyped
<1>2. CASE Start \/ Abort \/ Failed
  BY <1>2, EndsTyped
<1>3. CASE InitialPull
  BY <1>3, PullListTyped, PullChildTyped, PullFolderTyped, DownloadTyped, WriteLocalTyped,
     KeepTyped, PullEndTyped DEF InitialPull
<1>4. CASE LocalChange
  BY <1>4, TakeTyped, DeleteFileTyped, LocalRowsTyped, StatTyped, ReadTyped, UploadTyped
     DEF LocalChange
<1>5. CASE RemoteChanges
  BY <1>5, PollTyped, ApplyChangeTyped, RemovalTyped, DownloadTyped, WriteLocalTyped, KeepTyped
     DEF RemoteChanges
<1>6. CASE UNCHANGED vars
  <2>1. BudgetTyped'
    BY <1>6 DEF TInv, BudgetTyped, vars, userVars
  <2> QED
    BY <1>6, <2>1, LocalEditTyped, TimePasses, UntouchedLocal DEF vars, userVars, TInv
<1> QED
  BY <1>1, <1>2, <1>3, <1>4, <1>5, <1>6 DEF Next, Worker

LEMMA InitTyped ==
    ASSUME Init
    PROVE  TInv
<1> DEFINE seeded(i) == \E p \in DOMAIN Seed : Seed[p] = i
           at(i) == CHOOSE q \in DOMAIN Seed : Seed[q] = i
           any == CHOOSE n \in FileNames : TRUE
           seed(p) == [name |-> Last(p), state |-> "live",
                       version |-> IF p \in Dirs THEN 0 ELSE 1,
                       parent |-> IF Len(p) = 1 THEN Root ELSE Seed[Above(p)]]
           none == [name |-> any, state |-> "none", version |-> 0, parent |-> Root]
<1>1. /\ local = [p \in Paths |-> IF Resumed /\ p \in DOMAIN Seed THEN 1 ELSE 0]
      /\ remote = [i \in Ids |-> IF seeded(i) THEN seed(at(i)) ELSE none]
      /\ rows = [p \in Paths |-> IF Resumed /\ p \in DOMAIN Seed
                                 THEN [id |-> Seed[p], md5 |-> IF p \in Dirs THEN 0 ELSE 1]
                                 ELSE NoRow]
      /\ hasToken = Resumed /\ afterToken = {} /\ afterNew = {} /\ pc = "off"
      /\ frames = <<>> /\ job = NoJob /\ content = 0 /\ batch = {} /\ queue = <<>>
      /\ errors = {} /\ clock = 1 /\ left = Budget /\ twice = {}
  BY DEF Init
<1>2. any \in FileNames
  BY NamesAssumption
<1>3. Happened = {0, 1}
  BY <1>1 DEF Happened
<1>4. BudgetTyped
  <2>1. Budget \in [Kinds -> Nat]
    BY BudgetAssumption DEF Kinds
  <2>2. Budget["write"] \in Nat /\ Budget["remote write"] \in Nat
    BY <2>1 DEF Kinds
  <2>3. left \in [Kinds -> Nat] /\ left["write"] = Budget["write"]
        /\ left["remote write"] = Budget["remote write"]
    BY <1>1, <2>1
  <2>4. clock \in Nat \ {0} /\ clock + left["write"] + left["remote write"]
                                = 1 + Budget["write"] + Budget["remote write"]
    <3>1. clock = 1
      BY <1>1
    <3>2. clock \in Nat \ {0}
      BY <3>1
    <3> QED
      BY <2>2, <2>3, <3>1, <3>2
  <2> QED
    BY <2>3, <2>4 DEF BudgetTyped
<1>5. ASSUME NEW p \in DOMAIN Seed
      PROVE  /\ seed(p) \in [name : Names, parent : Ids \cup {Root}, version : Happened,
                             state : States]
             /\ seed(p).name \in DirNames => seed(p).parent = Root
             /\ p \in Paths /\ Seed[p] \in Ids
  <2>1. /\ p \in Paths /\ Seed[p] \in Ids
        /\ Len(p) = 2 => Above(p) \in DOMAIN Seed /\ Seed[Above(p)] \in Ids
    BY SeedAssumption
  <2>2. Last(p) \in Names /\ (p \in Files => Last(p) \notin DirNames)
    BY <2>1, LastName, NamesAssumption
  <2>3. Len(p) \in {1, 2} /\ (p \notin Files => Len(p) = 1)
    BY <2>1 DEF Paths, Dirs, Files
  <2> QED
    BY <1>3, <2>1, <2>2, <2>3 DEF States
<1>6. /\ none \in [name : Names, parent : Ids \cup {Root}, version : Happened, state : States]
      /\ none.name \notin DirNames
  BY <1>2, <1>3, NamesAssumption DEF Names, States
<1>7. ASSUME NEW i \in Ids, seeded(i) PROVE at(i) \in DOMAIN Seed
  BY <1>7
<1> HIDE DEF seed, none, at, any, seeded
<1>8. DriveTyped
  BY <1>1, <1>5, <1>6, <1>7 DEF DriveTyped
<1>9. RowsTyped
  <2>1. \A p \in DOMAIN Seed : Seed[p] \in Ids /\ Seed[p] # 0
    BY <1>5 DEF Ids
  <2>2. rows \in [Paths -> [id : Ids \cup {0}, md5 : Happened]]
    BY <1>1, <1>3, <2>1 DEF NoRow
  <2>3. \A p \in Paths : rows[p].id = 0 => rows[p] = NoRow
    BY <1>1, <2>1
  <2>4. Resumed \in BOOLEAN
    BY FlagsAssumption
  <2> QED
    BY <1>1, <2>2, <2>3, <2>4 DEF RowsTyped
<1>10. LocalTyped
  BY <1>1, <1>3, EmptySeq DEF LocalTyped
<1>11. FramesTyped
  <2>1. Len(<<>>) = 0
    OBVIOUS
  <2> QED
    BY <1>1, <2>1, EmptySeq DEF FramesTyped
<1>12. JobTyped
  <2>1. job \in [path : Paths \cup {<<>>}, id : Ids \cup {0}, md5 : Happened,
                 parent : Ids \cup {Root}]
    BY <1>1, <1>3 DEF NoJob, Root
  <2> QED
    BY <1>1, <2>1 DEF JobTyped, FilePcs, RowPcs, LocalPcs, PollPcs
<1>13. WorkTyped
  BY <1>1, <1>3 DEF WorkTyped
<1> QED
  BY <1>4, <1>8, <1>9, <1>10, <1>11, <1>12, <1>13 DEF TInv

\* No content is newer than the last edit, and there are no more edits than
\* the budget has.
LEMMA TypesInBounds ==
    ASSUME TInv
    PROVE  TypeOK
<1>1. Happened \subseteq Versions /\ clock \in Versions
  <2>1. /\ clock \in Nat \ {0} /\ left["write"] \in Nat /\ left["remote write"] \in Nat
        /\ clock + left["write"] + left["remote write"]
             = 1 + Budget["write"] + Budget["remote write"]
    BY DEF TInv, BudgetTyped, Kinds
  <2>2. Budget["write"] \in Nat /\ Budget["remote write"] \in Nat
    BY BudgetAssumption
  <2> DEFINE top == 1 + Budget["write"] + Budget["remote write"]
  <2>3. top \in Nat /\ clock <= top /\ clock \in Nat
    <3>1. \A c, w, r \in Nat : c <= c + w + r
      OBVIOUS
    <3>2. \A w, r \in Nat : 1 + w + r \in Nat
      OBVIOUS
    <3>3. clock \in Nat
      BY <2>1
    <3>4. clock <= clock + left["write"] + left["remote write"]
      BY <2>1, <3>1, <3>3
    <3> QED
      BY <2>1, <2>2, <3>2, <3>3, <3>4
  <2> HIDE DEF top
  <2>4. 0..clock \subseteq 0..top /\ clock \in 0..top
    BY <2>3
  <2> QED
    BY <2>4 DEF Happened, Versions, top
<1>2. /\ local \in [Paths -> Versions]
      /\ \A p \in Paths : rows[p].id = 0 => rows[p] = NoRow
      /\ twice \subseteq Ids /\ hasToken \in BOOLEAN
      /\ afterToken \subseteq Ids /\ afterNew \subseteq Ids
      /\ pc \in InitialPcs \cup LocalPcs \cup PollPcs \cup {"off", "select"}
      /\ content \in Versions
      /\ errors \subseteq Paths \cup {InitialWork, RemoteWork}
  BY <1>1 DEF TInv, LocalTyped, RowsTyped, DriveTyped, WorkTyped
<1>3. remote \in [Ids -> [name : Names, parent : Ids \cup {Root}, version : Versions,
                          state : {"none", "live", "trashed", "deleted"}]]
  <2>1. \A i \in Ids : remote[i] \in
          [name : Names, parent : Ids \cup {Root}, version : Versions,
           state : {"none", "live", "trashed", "deleted"}]
    BY <1>1 DEF TInv, DriveTyped, States
  <2> QED
    BY <2>1 DEF TInv, DriveTyped
<1>4. rows \in [Paths -> [id : Ids \cup {0}, md5 : Versions]]
  <2>1. \A p \in Paths : rows[p] \in [id : Ids \cup {0}, md5 : Versions]
    BY <1>1 DEF TInv, RowsTyped
  <2> QED
    BY <2>1 DEF TInv, RowsTyped
<1>5. job \in Jobs
  BY <1>1 DEF TInv, JobTyped, Jobs
<1>6. \A c \in batch : c \in [id : Ids, gone : BOOLEAN, md5 : Versions]
  BY <1>1 DEF TInv, WorkTyped
<1>7. \A k \in DOMAIN queue : queue[k] \in [path : Paths, removed : BOOLEAN]
  BY ElementOfSeq, LenProperties DEF TInv, LocalTyped, Event
<1>8. \A k \in DOMAIN frames : \A c \in frames[k].rest :
        c \in [id : Ids, name : Names, md5 : Versions]
  <2>1. DOMAIN frames = 1..Len(frames)
    BY LenProperties DEF TInv, FramesTyped
  <2> QED
    BY <1>1, <2>1 DEF TInv, FramesTyped, Listing
<1> QED
  BY <1>1, <1>2, <1>3, <1>4, <1>5, <1>6, <1>7, <1>8 DEF TypeOK

THEOREM TypesKept == Spec => []TInv
<1>1. Init => TInv
  BY InitTyped
<1>2. TInv /\ [Next]_vars => TInv'
  BY NextTyped
<1> QED
  BY <1>1, <1>2, PTL DEF Spec

\* Every variable of the worker, of Drive and of the local tree keeps its type,
\* however many edits, faults, aborts and restarts there are.
THEOREM TypeCorrect == Spec => []TypeOK
<1>1. TInv => TypeOK
  BY TypesInBounds
<1> QED
  BY <1>1, TypesKept, PTL
=============================================================================

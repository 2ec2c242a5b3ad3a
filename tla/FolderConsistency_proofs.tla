---------------------- MODULE FolderConsistency_proofs ----------------------
(***************************************************************************)
(* What the worker of a folder keeps consistent: an initial pull nobody    *)
(* disturbs leaves no file of Drive out, the proof of                      *)
(* KnownConsistentStart; and in a folder that is watched without a break   *)
(* no file that is here, or has a row, silently differs from Drive, the    *)
(* proof of NoSilentDivergence.  The invariants of FolderSync_proofs, of   *)
(* the types (TInv) and of the token (IInv), are used throughout.          *)
(***************************************************************************)
EXTENDS FolderSync_proofs

-----------------------------------------------------------------------------
(* The initial pull of a folder nobody edits.                              *)

\* What Drive holds at a path of the seed.
SeedItem(p) == [name |-> Last(p), state |-> "live", version |-> IF p \in Dirs THEN 0 ELSE 1,
                parent |-> IF Len(p) = 1 THEN Root ELSE Seed[Above(p)]]

DriveSeeded ==
    /\ \A p \in DOMAIN Seed : remote[Seed[p]] = SeedItem(p)
    /\ \A i \in Ids : remote[i].state = "none" \/ \E p \in DOMAIN Seed : Seed[p] = i

RowsSeeded ==
    \A p \in Paths : rows[p].id # 0 =>
        /\ p \in DOMAIN Seed /\ rows[p].id = Seed[p]
        /\ p \in Files => local[p] = 1

\* Nothing has happened that anybody would have to be told.
Calm ==
    /\ left["edit"] = 0
    /\ queue = <<>> /\ batch = {} /\ afterToken = {} /\ afterNew = {}
    /\ pc \in InitialPcs \cup {"off", "select", "changes", "apply"}

OfSeed(p, i, md5) ==
    p \in DOMAIN Seed /\ i = Seed[p] /\ (p \in Files => md5 = 1)

FramesSeeded == \A k \in 1..Len(frames) : \A c \in frames[k].rest :
    OfSeed(Append(frames[k].at, c.name), c.id, c.md5)

JobSeeded ==
    /\ pc \in {"mkdir", "keep dir", "fetch", "write", "keep"} =>
         OfSeed(job.path, job.id, job.md5)
    /\ pc = "list" =>
         \/ job.path = <<>> /\ job.id = Root
         \/ job.path \in DOMAIN Seed /\ job.id = Seed[job.path]
    /\ pc = "write" => content = 1
    /\ pc = "keep" => local[job.path] = 1

\* What the pull has still to do: a path is in a listing, or at work.
Ahead(p) ==
    \/ \E k \in 1..Len(frames) : \E c \in frames[k].rest : Append(frames[k].at, c.name) = p
    \/ pc \in Pulling \ {"pull"} /\ job.path = p

\* No file of the seed is left out: it has its row, or it, its folder or
\* everything is still ahead.
NoneLeftOut ==
    \A p \in Files \cap DOMAIN Seed :
        \/ rows[p].id # 0
        \/ pc \in Pulling /\ (Ahead(p) \/ (Len(p) = 2 /\ Ahead(Above(p))))
        \/ pc = "list" /\ job.id = Root
        \/ pc \in {"off", "select", "changes", "apply"}

KInv ==
    /\ Calm
    /\ DriveSeeded
    /\ RowsSeeded
    /\ FramesSeeded
    /\ JobSeeded
    /\ NoneLeftOut

\* How paths are made up.
LEMMA PathShape ==
    ASSUME NEW p \in Paths
    PROVE  /\ Len(p) \in {1, 2} /\ (p \in Dirs => Len(p) = 1)
           /\ Len(p) = 1 => Append(<<>>, Last(p)) = p
           /\ Len(p) = 2 => /\ p \in Files /\ Above(p) \in Dirs
                            /\ Append(Above(p), Last(p)) = p
           /\ p \in Files <=> p \notin Dirs
           /\ p # <<>>
<1>1. CASE \E n \in Names : p = <<n>>
  <2>1. PICK n \in Names : p = <<n>>
    BY <1>1
  <2>2. /\ Len(p) = 1 /\ Last(p) = n /\ Append(<<>>, n) = <<n>>
        /\ (n \in DirNames <=> p \in Dirs) /\ (n \in FileNames <=> p \in Files)
    BY <2>1 DEF Last, Dirs, Files
  <2> QED
    BY <2>1, <2>2, NamesAssumption DEF Names
<1>2. CASE \E d \in DirNames, n \in FileNames : p = <<d, n>>
  <2>1. PICK d \in DirNames, n \in FileNames : p = <<d, n>>
    BY <1>2
  <2>2. Len(p) = 2 /\ Above(p) = <<d>> /\ Last(p) = n
    <3>1. d \in Names /\ n \in Names
      BY DEF Names
    <3> QED
      BY <2>1, <3>1, PairParts DEF Above
  <2>3. p \in Files /\ p \notin Dirs /\ <<d>> \in Dirs
    BY <2>1 DEF Files, Dirs
  <2> QED
    BY <2>1, <2>2, <2>3, AppendToOne
<1> QED
  BY <1>1, <1>2 DEF Paths, Dirs, Files, Names

LEMMA SeedShape ==
    ASSUME NEW p \in DOMAIN Seed
    PROVE  /\ p \in Paths /\ Seed[p] \in Ids /\ Seed[p] # Root
           /\ Len(p) = 2 => Above(p) \in DOMAIN Seed /\ Above(p) \in Dirs
           /\ \A q \in DOMAIN Seed : Seed[q] = Seed[p] => q = p
BY SeedAssumption, PathShape DEF Ids, Root

\* A folder's listing names all the seed holds in it.
LEMMA SeededChild ==
    ASSUME DriveSeeded, NEW p \in DOMAIN Seed
    PROVE  /\ remote[Seed[p]].name = Last(p)
           /\ Live(Seed[p]) /\ ~InTrash(Seed[p])
           /\ remote[Seed[p]].version = IF p \in Dirs THEN 0 ELSE 1
           /\ remote[Seed[p]].parent = IF Len(p) = 1 THEN Root ELSE Seed[Above(p)]
           /\ Seed[p] \in Children(IF Len(p) = 1 THEN Root ELSE Seed[Above(p)])
<1>1. remote[Seed[p]] = SeedItem(p)
  BY DEF DriveSeeded
<1>2. /\ remote[Seed[p]].name = Last(p) /\ remote[Seed[p]].state = "live"
      /\ remote[Seed[p]].version = IF p \in Dirs THEN 0 ELSE 1
      /\ remote[Seed[p]].parent = IF Len(p) = 1 THEN Root ELSE Seed[Above(p)]
  BY <1>1 DEF SeedItem
<1>3. CASE Len(p) = 1
  BY <1>2, <1>3, SeedShape DEF Live, InTrash, Children
<1>4. CASE Len(p) # 1
  <2>1. Above(p) \in DOMAIN Seed
    BY <1>4, SeedShape, PathShape
  <2>2. remote[Seed[Above(p)]].state = "live"
    <3>1. remote[Seed[Above(p)]] = SeedItem(Above(p))
      BY <2>1 DEF DriveSeeded
    <3> QED
      BY <3>1 DEF SeedItem
  <2> QED
    BY <1>2, <1>4, <2>2, SeedShape DEF Live, InTrash, Children
<1> QED
  BY <1>3, <1>4

\* What a listing names is of the seed, and lies where the seed has it.
LEMMA ChildSeeded ==
    ASSUME DriveSeeded, JobSeeded, pc = "list", NEW c \in Children(job.id)
    PROVE  OfSeed(Append(job.path, remote[c].name), c, remote[c].version)
<1>1. c \in Ids /\ remote[c].state = "live" /\ remote[c].parent = job.id
  BY DEF Children, Live
<1>2. PICK p \in DOMAIN Seed : Seed[p] = c
  BY <1>1 DEF DriveSeeded
<1>3. /\ remote[c].name = Last(p) /\ p \in Paths /\ Len(p) \in {1, 2}
      /\ remote[c].version = IF p \in Dirs THEN 0 ELSE 1
      /\ remote[c].parent = IF Len(p) = 1 THEN Root ELSE Seed[Above(p)]
  BY <1>2, SeededChild, SeedShape, PathShape
<1>4. Append(job.path, Last(p)) = p
  <2>1. CASE job.path = <<>> /\ job.id = Root
    <3>1. Len(p) = 2 => Seed[Above(p)] # Root
      BY SeedShape
    <3> QED
      BY <1>1, <1>3, <2>1, <3>1, PathShape
  <2>2. CASE job.path \in DOMAIN Seed /\ job.id = Seed[job.path]
    <3>1. Len(p) = 2
      BY <1>1, <1>3, <2>2, SeedShape
    <3>2. Above(p) = job.path
      BY <1>1, <1>3, <2>2, <3>1, SeedShape
    <3> QED
      BY <1>3, <3>1, <3>2, PathShape
  <2> QED
    BY <2>1, <2>2 DEF JobSeeded
<1> QED
  BY <1>2, <1>3, <1>4, PathShape DEF OfSeed

-----------------------------------------------------------------------------
(* No step leaves a file of the seed out.                                  *)

LEMMA SeedStays ==
    ASSUME DriveSeeded, UNCHANGED remote
    PROVE  DriveSeeded'
BY DEF DriveSeeded

LEMMA NoUsers ==
    ASSUME KInv
    PROVE  ~Users
<1>1. ~(left["edit"] > 0)
  BY DEF KInv, Calm
<1> QED
  BY <1>1 DEF Users, UserWrites, UserMoves, UserRemoves, RemoteWrites, RemoteTrashes,
     RemoteDeletes, RemoteCreates, Edit

LEMMA ListLeavesNoneOut ==
    ASSUME TInv, KInv, PullList
    PROVE  KInv'
<1> DEFINE rest == {[id |-> c, name |-> remote[c].name, md5 |-> remote[c].version] :
                      c \in Children(job.id)}
           frame == [at |-> job.path, rest |-> rest]
<1>1. /\ pc = "list" /\ pc' = "pull" /\ frames' = Append(frames, frame) /\ job' = NoJob
      /\ UNCHANGED <<local, remote, afterToken, afterNew, rows, content, batch, queue, left>>
  BY DEF PullList, Goes, userVars, driveVars, dbVars
<1>2. \A c \in rest : OfSeed(Append(job.path, c.name), c.id, c.md5)
  BY <1>1, ChildSeeded DEF KInv
<1>3. ASSUME NEW p \in DOMAIN Seed, (IF Len(p) = 1 THEN Root ELSE Seed[Above(p)]) = job.id,
             IF Len(p) = 1 THEN job.path = <<>> ELSE job.path = Above(p)
      PROVE  \E c \in rest : Append(job.path, c.name) = p
  <2>1. Seed[p] \in Children(job.id) /\ remote[Seed[p]].name = Last(p)
    BY <1>3, SeededChild DEF KInv
  <2>2. Append(job.path, Last(p)) = p
    BY <1>3, SeedShape, PathShape
  <2> DEFINE c == [id |-> Seed[p], name |-> remote[Seed[p]].name,
                   md5 |-> remote[Seed[p]].version]
  <2>3. c \in rest /\ c.name = Last(p)
    BY <2>1
  <2> QED
    BY <2>2, <2>3
<1>4. frame.at = job.path /\ frame.rest = rest
  OBVIOUS
<1> HIDE DEF rest, frame
<1> DEFINE Type == [at : Places, rest : SUBSET [id : Ids, name : Names, md5 : Nat]]
<1>5. frames' \in Seq(Type)
  BY PullListTyped DEF TInv, FramesTyped
<1>6. /\ Len(frames) \in Nat /\ Len(frames') = Len(frames) + 1
      /\ \A k \in 1..Len(frames) : frames'[k] = frames[k]
      /\ frames'[Len(frames) + 1] = frame
  <2>1. frames \in Seq(Type)
    BY DEF TInv, FramesTyped
  <2>2. Len(frames) \in Nat
    BY <2>1, LenProperties
  <2> HIDE DEF Type
  <2>3. DOMAIN frames = 1..Len(frames)
    BY <2>1, LenProperties
  <2> QED
    BY <1>1, <2>1, <2>2, <2>3
<1>7. /\ \A k \in 1..Len(frames') : k \in 1..Len(frames) \/ k = Len(frames) + 1
      /\ \A k \in 1..Len(frames) : k \in 1..Len(frames')
      /\ Len(frames) + 1 \in 1..Len(frames')
  BY <1>6
<1>8. FramesSeeded'
  BY <1>2, <1>4, <1>6, <1>7 DEF KInv, FramesSeeded, OfSeed
<1>9. \A p : (\E k \in 1..Len(frames) : \E c \in frames[k].rest :
                 Append(frames[k].at, c.name) = p) => Ahead(p)'
  BY <1>6, <1>7 DEF Ahead
<1>10. \A p : (\E c \in rest : Append(job.path, c.name) = p) => Ahead(p)'
  BY <1>4, <1>6, <1>7 DEF Ahead
<1>11. NoneLeftOut'
  <2> SUFFICES ASSUME NEW p \in Files \cap DOMAIN Seed, rows[p].id = 0
               PROVE  Ahead(p)' \/ (Len(p) = 2 /\ Ahead(Above(p))')
    BY <1>1 DEF NoneLeftOut, Pulling
  <2>1. p \in Paths /\ Len(p) \in {1, 2}
    BY PathShape DEF Paths
  <2>2. CASE job.id = Root
    <3>1. job.path = <<>>
      BY <1>1, <2>2, SeedShape DEF KInv, JobSeeded
    <3>2. CASE Len(p) = 1
      BY <1>3, <1>10, <2>2, <3>1, <3>2
    <3>3. CASE Len(p) = 2
      <4>1. Above(p) \in DOMAIN Seed /\ Above(p) \in Dirs
        BY <3>3, SeedShape
      <4>2. Len(Above(p)) = 1
        BY <4>1, PathShape DEF Paths
      <4> QED
        BY <1>3, <1>10, <2>2, <3>1, <3>3, <4>1, <4>2
    <3> QED
      BY <2>1, <3>2, <3>3
  <2>3. CASE job.id # Root
    <3>1. job.path \in DOMAIN Seed /\ job.id = Seed[job.path] /\ job.path \in Dirs
      BY <1>1, <2>3, PathShape, SeedShape DEF KInv, JobSeeded, TInv, JobTyped, Places
    <3>2. Ahead(p) \/ (Len(p) = 2 /\ Ahead(Above(p)))
      BY <1>1, <2>3 DEF KInv, NoneLeftOut
    <3>3. CASE Ahead(p)
      <4>1. job.path # p
        BY <2>1, <3>1, PathShape
      <4> QED
        BY <1>9, <3>3, <4>1 DEF Ahead
    <3>4. CASE Len(p) = 2 /\ Ahead(Above(p)) /\ Above(p) # job.path
      BY <1>9, <3>4 DEF Ahead
    <3>5. CASE Len(p) = 2 /\ Above(p) = job.path
      BY <1>3, <1>10, <3>1, <3>5
    <3> QED
      BY <3>2, <3>3, <3>4, <3>5
  <2> QED
    BY <2>2, <2>3
<1>12. Calm' /\ RowsSeeded' /\ JobSeeded' /\ DriveSeeded'
  BY <1>1, SeedStays DEF KInv, Calm, RowsSeeded, JobSeeded, InitialPcs
<1> QED
  BY <1>8, <1>11, <1>12 DEF KInv

\* A listed child's job is of the seed; a file that is passed over has its row.
LEMMA ChildLeavesNoneOut ==
    ASSUME TInv, KInv, PullChild
    PROVE  KInv'
<1> DEFINE Type == [at : Places, rest : SUBSET [id : Ids, name : Names, md5 : Nat]]
           top == Last(frames)
           n == Len(frames)
<1>1. /\ pc = "pull" /\ frames # <<>>
      /\ UNCHANGED <<local, remote, afterToken, afterNew, rows, content, batch, queue, left>>
  BY DEF PullChild, userVars, driveVars, dbVars
<1>2. frames \in Seq(Type)
  BY DEF TInv, FramesTyped
<1> HIDE DEF Type
<1>3. /\ Front(frames) \in Seq(Type) /\ Len(Front(frames)) = n - 1
      /\ \A k \in 1..(n - 1) : Front(frames)[k] = frames[k]
      /\ n \in Nat \ {0} /\ top = frames[n] /\ top \in Type
  BY <1>1, <1>2, FrontProperties
<1>4. /\ \A k \in 1..n : k \in 1..(n - 1) \/ k = n
      /\ \A k \in 1..(n - 1) : k \in 1..n
      /\ n \in 1..n
  BY <1>3
<1>5. (Calm' /\ RowsSeeded' /\ DriveSeeded') \/ pc' \notin {"pull", "mkdir", "fetch"}
  BY <1>1, SeedStays DEF KInv, Calm, RowsSeeded, InitialPcs
<1>6. CASE /\ top.rest = {} /\ frames' = Front(frames) /\ UNCHANGED <<pc, job>>
  <2>1. Len(frames') = n - 1 /\ \A k \in 1..(n - 1) : frames'[k] = frames[k]
    BY <1>3, <1>6
  <2>2. FramesSeeded'
    BY <1>4, <2>1 DEF KInv, FramesSeeded, OfSeed
  <2>3. \A p : Ahead(p) => Ahead(p)'
    BY <1>1, <1>3, <1>4, <1>6, <2>1 DEF Ahead
  <2>4. NoneLeftOut'
    BY <1>1, <1>6, <2>3 DEF KInv, NoneLeftOut
  <2>5. JobSeeded'
    BY <1>1, <1>6 DEF KInv, JobSeeded
  <2> QED
    BY <1>1, <1>5, <1>6, <2>2, <2>4, <2>5 DEF KInv
<1>7. ASSUME NEW c \in top.rest, NEW path, path = Append(top.at, c.name),
             NEW needed \in NeedsDownload(path, c),
             frames' = Append(Front(frames), [top EXCEPT !.rest = @ \ {c}]),
             IF c.name \in FileNames /\ ~needed
             THEN UNCHANGED <<pc, job>>
             ELSE /\ job' = [path |-> path, id |-> c.id, md5 |-> c.md5, parent |-> 0]
                  /\ pc' = IF c.name \in DirNames THEN "mkdir" ELSE "fetch"
      PROVE  KInv'
  <2> DEFINE frame == [top EXCEPT !.rest = @ \ {c}]
  <2>1. OfSeed(path, c.id, c.md5)
    BY <1>3, <1>4, <1>7 DEF KInv, FramesSeeded
  <2>2. frame \in Type /\ frame.rest = top.rest \ {c} /\ frame.at = top.at
    BY <1>3 DEF Type
  <2>3. frames' = Append(Front(frames), frame)
    BY <1>7
  <2>4. c.name \in FileNames /\ ~needed => rows[path].id # 0
    <3>1. ASSUME ~needed PROVE path \in RowsOf(c.id)
      BY <1>7, <3>1 DEF NeedsDownload
    <3>2. c.id # 0
      BY <2>1, SeedShape DEF OfSeed, Root
    <3> QED
      BY <3>1, <3>2 DEF RowsOf
  <2> HIDE DEF frame
  <2>5. /\ Len(frames') = n
        /\ \A k \in 1..(n - 1) : frames'[k] = frames[k]
        /\ frames'[n] = frame
    BY <1>3, <2>2, <2>3, AppendProperties
  <2>6. FramesSeeded'
    BY <1>3, <1>4, <2>2, <2>5 DEF KInv, FramesSeeded, OfSeed
  <2>7. /\ JobSeeded' /\ pc' \in {"pull", "mkdir", "fetch"}
        /\ Ahead(path)' \/ (c.name \in FileNames /\ ~needed)
    <3>1. CASE c.name \in FileNames /\ ~needed
      BY <1>1, <1>7, <3>1 DEF JobSeeded
    <3>2. CASE ~(c.name \in FileNames /\ ~needed)
      <4>1. /\ job'.path = path /\ job'.id = c.id /\ job'.md5 = c.md5
            /\ pc' \in {"mkdir", "fetch"}
        BY <1>7, <3>2
      <4>2. OfSeed(job.path, job.id, job.md5)'
        BY <2>1, <4>1 DEF OfSeed
      <4> QED
        BY <4>1, <4>2 DEF JobSeeded, Ahead, Pulling
    <3> QED
      BY <3>1, <3>2
  <2>8. \A p : Ahead(p) /\ p # path => Ahead(p)'
    <3> SUFFICES ASSUME NEW p, p # path, Ahead(p)
                 PROVE  Ahead(p)'
      OBVIOUS
    <3>1. PICK k \in 1..n : \E x \in frames[k].rest : Append(frames[k].at, x.name) = p
      BY <1>1 DEF Ahead
    <3>2. PICK x \in frames[k].rest : Append(frames[k].at, x.name) = p
      BY <3>1
    <3>3. CASE k \in 1..(n - 1)
      BY <2>5, <3>2, <3>3 DEF Ahead
    <3>4. CASE k = n
      <4>1. x # c
        BY <1>3, <1>7, <3>2, <3>4
      <4>2. x \in frames'[n].rest /\ Append(frames'[n].at, x.name) = p
        BY <1>3, <2>2, <2>5, <3>2, <3>4, <4>1
      <4> QED
        BY <1>4, <2>5, <4>2 DEF Ahead
    <3> QED
      BY <1>4, <3>3, <3>4
  <2>9. Ahead(path)' \/ rows[path].id # 0
    BY <2>4, <2>7
  <2>10. pc' \in Pulling
    BY <2>7 DEF Pulling
  <2>11. Ahead(path)' \/ c.name \in FileNames
    BY <2>7
  <2>12. NoneLeftOut'
    <3> SUFFICES ASSUME NEW p \in Files \cap DOMAIN Seed, rows[p].id = 0
                 PROVE  Ahead(p)' \/ (Len(p) = 2 /\ Ahead(Above(p))')
      BY <1>1, <2>10 DEF NoneLeftOut
    <3>1. Ahead(p) \/ (Len(p) = 2 /\ Ahead(Above(p)))
      BY <1>1 DEF KInv, NoneLeftOut
    <3>2. CASE Ahead(p)
      BY <2>8, <2>9, <3>2
    <3>3. CASE Len(p) = 2 /\ Ahead(Above(p)) /\ Above(p) # path
      BY <2>8, <3>3
    <3>4. CASE Len(p) = 2 /\ Above(p) = path
      <4>1. path \in Dirs
        BY <3>4, PathShape DEF Paths
      <4>2. Ahead(path)'
        <5>1. top.at \in Places /\ c.name \in Names /\ (top.at \in Dirs => c.name \in FileNames)
          BY <1>3, <1>4 DEF TInv, FramesTyped, Listing
        <5>2. path \in Files <=> path \notin Dirs
          BY <4>1, PathShape DEF Paths
        <5> QED
          BY <1>7, <2>11, <4>1, <5>1, <5>2, ListedPath
      <4> QED
        BY <3>4, <4>2
    <3> QED
      BY <3>1, <3>2, <3>3, <3>4
  <2> QED
    BY <1>1, <1>5, <2>6, <2>7, <2>12 DEF KInv
<1> QED
  BY <1>6, <1>7 DEF PullChild

\* Between two awaits of the pull: the worker stays at the same path.
LEMMA SamePathLeavesNoneOut ==
    ASSUME KInv, UNCHANGED <<frames, job>>, pc \in Pulling \ {"pull", "list"},
           pc' \in Pulling \ {"pull"}, \A p \in Paths : rows[p].id # 0 => rows'[p].id # 0
    PROVE  FramesSeeded' /\ NoneLeftOut'
<1>1. FramesSeeded'
  BY DEF KInv, FramesSeeded, OfSeed
<1>2. \A p : Ahead(p) => Ahead(p)'
  BY DEF Ahead
<1>3. \A p \in Files \cap DOMAIN Seed : p \in Paths
  BY DEF Paths
<1>4. NoneLeftOut'
  BY <1>2, <1>3 DEF KInv, NoneLeftOut, Pulling
<1> QED
  BY <1>1, <1>4

LEMMA FolderLeavesNoneOut ==
    ASSUME TInv, KInv, PullMkdir \/ PullKeepDir
    PROVE  KInv'
<1>1. /\ pc \in {"mkdir", "keep dir"} /\ pc' \in {"keep dir", "list"}
      /\ pc = "mkdir" <=> pc' = "keep dir"
      /\ UNCHANGED <<remote, afterToken, afterNew, frames, job, batch, queue, left>>
  BY DEF PullMkdir, PullKeepDir, Goes, userVars, driveVars
<1>2. OfSeed(job.path, job.id, job.md5) /\ job.path \in Dirs /\ job.path \in Paths
      /\ job.path \notin Files /\ job.id # 0
  BY <1>1, PathShape DEF KInv, JobSeeded, TInv, JobTyped, Paths
<1>3. /\ \A p \in Files : local'[p] = local[p]
      /\ \A p \in Paths : rows'[p].id = rows[p].id \/ (p = job.path /\ rows'[p].id = job.id)
  <2>1. CASE PullMkdir
    <3> DEFINE v == IF local[job.path] = 0 THEN 1 ELSE local[job.path]
    <3>1. local' = [local EXCEPT ![job.path] = v] /\ rows' = rows
      BY <1>2, <2>1 DEF PullMkdir, dbVars, TInv, LocalTyped
    <3> HIDE DEF v
    <3> QED
      BY <1>2, <3>1 DEF TInv, LocalTyped, Paths
  <2>2. CASE PullKeepDir
    <3>1. local' = local /\ rows' = [rows EXCEPT ![job.path] = [id |-> job.id, md5 |-> 0]]
      BY <2>2 DEF PullKeepDir, Record
    <3> QED
      BY <1>2, <3>1 DEF TInv, RowsTyped
  <2> QED
    BY <2>1, <2>2
<1>4. RowsSeeded'
  BY <1>2, <1>3 DEF KInv, RowsSeeded, OfSeed
<1>5. FramesSeeded' /\ NoneLeftOut'
  BY <1>1, <1>2, <1>3, SamePathLeavesNoneOut DEF Pulling
<1>6. JobSeeded'
  BY <1>1, <1>2 DEF JobSeeded, OfSeed
<1>7. Calm' /\ DriveSeeded'
  BY <1>1, SeedStays DEF KInv, Calm, InitialPcs
<1> QED
  BY <1>4, <1>5, <1>6, <1>7 DEF KInv

LEMMA FetchLeavesNoneOut ==
    ASSUME TInv, KInv, Download("fetch", "write")
    PROVE  KInv'
<1>1. /\ pc = "fetch" /\ pc' = "write" /\ content' = remote[job.id].version
      /\ UNCHANGED <<remote, local, rows, afterToken, afterNew, frames, job, batch, queue,
           left>>
  BY DEF Download, Goes, userVars, driveVars, dbVars
<1>2. job.path \in DOMAIN Seed /\ job.id = Seed[job.path] /\ job.path \in Files
  BY <1>1 DEF KInv, JobSeeded, OfSeed, TInv, JobTyped, FilePcs
<1>3. content' = 1
  BY <1>1, <1>2, SeededChild, PathShape, SeedShape DEF KInv
<1>4. FramesSeeded' /\ NoneLeftOut'
  BY <1>1, SamePathLeavesNoneOut DEF Pulling
<1>5. JobSeeded'
  BY <1>1, <1>3 DEF KInv, JobSeeded, OfSeed
<1>6. Calm' /\ DriveSeeded' /\ RowsSeeded'
  BY <1>1, SeedStays DEF KInv, Calm, InitialPcs, RowsSeeded
<1> QED
  BY <1>4, <1>5, <1>6 DEF KInv

\* Nobody watches yet.
LEMMA PullReportsNothing ==
    ASSUME queue = <<>>, ~Watching, NEW e
    PROVE  queue \o Report(e) = <<>>
<1>1. Report(e) = <<>>
  BY DEF Report
<1>2. <<>> \o <<>> = <<>>
  BY EmptySeq, ConcatEmptySeq
<1> QED
  BY <1>1, <1>2

LEMMA WriteLeavesNoneOut ==
    ASSUME TInv, KInv, WriteLocal("write", "keep")
    PROVE  KInv'
<1>1. /\ pc = "write" /\ pc' = "keep" /\ local' = [local EXCEPT ![job.path] = content]
      /\ queue' = queue \o Report(Modified(job.path))
      /\ UNCHANGED <<remote, rows, afterToken, afterNew, frames, job, batch, left>>
  BY DEF WriteLocal, Goes, Notify, userVars, driveVars, dbVars
<1>2. content = 1 /\ job.path \in Paths
  BY <1>1 DEF KInv, JobSeeded, TInv, JobTyped, FilePcs, Paths
<1>3. queue' = <<>>
  BY <1>1, PullReportsNothing DEF KInv, Calm, Watching, LocalPcs, PollPcs
<1>4. \A p \in Paths : local'[p] = local[p] \/ local'[p] = 1
  BY <1>1, <1>2 DEF TInv, LocalTyped
<1>5. local'[job.path] = 1
  BY <1>1, <1>2 DEF TInv, LocalTyped
<1>6. RowsSeeded'
  BY <1>1, <1>4 DEF KInv, RowsSeeded
<1>7. FramesSeeded' /\ NoneLeftOut'
  BY <1>1, SamePathLeavesNoneOut DEF Pulling
<1>8. JobSeeded'
  BY <1>1, <1>5 DEF KInv, JobSeeded, OfSeed
<1>9. Calm' /\ DriveSeeded'
  BY <1>1, <1>3, SeedStays DEF KInv, Calm, InitialPcs
<1> QED
  BY <1>6, <1>7, <1>8, <1>9 DEF KInv

LEMMA KeepLeavesNoneOut ==
    ASSUME TInv, KInv, Keep("keep", "pull")
    PROVE  KInv'
<1>1. /\ pc = "keep" /\ pc' = "pull" /\ Record(job.path, job.id, job.md5)
      /\ queue' = queue \/ queue' = queue \o Report(Modified(job.path))
      /\ UNCHANGED <<remote, local, afterToken, afterNew, frames, batch, left>>
  BY DEF Keep, Goes, Notify, userVars, driveVars
<1>2. queue' = <<>>
  BY <1>1, PullReportsNothing DEF KInv, Calm, Watching, LocalPcs, PollPcs
<1>3. OfSeed(job.path, job.id, job.md5) /\ job.path \in Paths /\ job.id # 0
      /\ local[job.path] = 1
  BY <1>1 DEF KInv, JobSeeded, TInv, JobTyped, FilePcs, Paths
<1>4. \A p \in Paths : rows'[p].id = IF p = job.path THEN job.id ELSE rows[p].id
  BY <1>1 DEF Record, TInv, RowsTyped
<1>5. RowsSeeded'
  BY <1>1, <1>3, <1>4 DEF KInv, RowsSeeded, OfSeed
<1>6. FramesSeeded' /\ JobSeeded'
  BY <1>1 DEF KInv, FramesSeeded, JobSeeded, OfSeed
<1>7. \A p : Ahead(p) /\ p # job.path => Ahead(p)'
  BY <1>1 DEF Ahead
<1>8. NoneLeftOut'
  <2> SUFFICES ASSUME NEW p \in Files \cap DOMAIN Seed, rows'[p].id = 0
               PROVE  Ahead(p)' \/ (Len(p) = 2 /\ Ahead(Above(p))')
    BY <1>1 DEF NoneLeftOut, Pulling
  <2>1. p # job.path /\ rows[p].id = 0
    BY <1>3, <1>4 DEF Paths
  <2>2. Ahead(p) \/ (Len(p) = 2 /\ Ahead(Above(p)))
    BY <1>1, <2>1 DEF KInv, NoneLeftOut
  <2>3. Len(p) = 2 => Above(p) # job.path
    <3>1. job.path \in Files
      BY <1>1 DEF TInv, JobTyped, FilePcs
    <3> QED
      BY <1>3, <3>1, PathShape DEF Paths
  <2> QED
    BY <1>7, <2>1, <2>2, <2>3
<1>9. Calm' /\ DriveSeeded'
  BY <1>1, <1>2, SeedStays DEF KInv, Calm, InitialPcs
<1> QED
  BY <1>5, <1>6, <1>8, <1>9 DEF KInv

\* When no listing is left, every file has its row.
LEMMA TokenLeavesNoneOut ==
    ASSUME TInv, KInv, PullDone \/ AskToken \/ StoreToken \/ Watch
    PROVE  KInv'
<1>1. /\ pc \in {"pull", "ask token", "store token", "watch"}
      /\ pc' \in {"ask token", "store token", "watch", "select"}
      /\ pc = "pull" => frames = <<>>
      /\ UNCHANGED <<remote, local, rows, frames, job, batch, queue, left>>
      /\ afterToken' \subseteq afterToken \cup afterNew /\ afterNew' \subseteq afterNew
  BY DEF PullDone, AskToken, StoreToken, Watch, Goes, userVars, driveVars, dbVars
<1>2. Calm' /\ DriveSeeded' /\ RowsSeeded'
  BY <1>1, SeedStays DEF KInv, Calm, InitialPcs, RowsSeeded
<1>3. FramesSeeded' /\ JobSeeded'
  BY <1>1 DEF KInv, FramesSeeded, JobSeeded, OfSeed
<1>4. NoneLeftOut'
  <2> SUFFICES ASSUME NEW p \in Files \cap DOMAIN Seed, rows[p].id = 0
               PROVE  pc' = "select"
    BY <1>1 DEF NoneLeftOut
  <2>1. ASSUME pc = "pull" PROVE \A q : ~Ahead(q)
    <3>1. frames = <<>>
      BY <1>1, <2>1
    <3>2. Len(frames) = 0 /\ 1..0 = {}
      BY <3>1
    <3> QED
      BY <2>1, <3>2 DEF Ahead
  <2>2. FALSE
    BY <1>1, <2>1 DEF KInv, NoneLeftOut, Pulling
  <2> QED
    BY <2>2
<1> QED
  BY <1>2, <1>3, <1>4 DEF KInv

\* The worker waits, polls in vain, stops, starts over.
LEMMA IdleLeavesNoneOut ==
    ASSUME TInv, KInv, UNCHANGED <<remote, rows, local>>,
           left' = left \/ Spend("fault") \/ Spend("start"),
           UNCHANGED <<afterToken, afterNew>> \/ (afterToken' = {} /\ afterNew' = {}),
           queue' \in {queue, <<>>}, batch' = {}, frames' \in {frames, <<>>},
           \/ pc' \in {"off", "select", "changes", "apply"}
           \/ pc' = "list" /\ job'.path = <<>> /\ job'.id = Root
    PROVE  KInv'
<1>1. left'["edit"] = left["edit"]
  BY DEF Spend, TInv, BudgetTyped, Kinds
<1>2. Calm'
  BY <1>1 DEF KInv, Calm, InitialPcs
<1>3. DriveSeeded' /\ RowsSeeded'
  BY SeedStays DEF KInv, RowsSeeded
<1>4. FramesSeeded'
  <2>1. Len(<<>>) = 0
    OBVIOUS
  <2> QED
    BY <2>1 DEF KInv, FramesSeeded, OfSeed
<1>5. JobSeeded' /\ NoneLeftOut'
  BY DEF JobSeeded, NoneLeftOut
<1> QED
  BY <1>2, <1>3, <1>4, <1>5 DEF KInv

LEMMA NextLeavesNoneOut ==
    ASSUME TInv, KInv, [Next]_vars
    PROVE  KInv'
<1>1. CASE Users
  BY <1>1, NoUsers
<1>2. CASE Start \/ Abort \/ Failed
  <2>1. /\ UNCHANGED <<remote, rows, local, afterToken, afterNew>>
        /\ left' = left \/ Spend("fault") \/ Spend("start")
        /\ queue' \in {queue, <<>>} /\ frames' \in {frames, <<>>}
    BY <1>2 DEF Start, Abort, Failed, driveVars, dbVars, userVars
  <2>2. batch' = {}
    BY <1>2 DEF Start, Abort, Failed, KInv, Calm
  <2>3. \/ pc' \in {"off", "select"}
        \/ pc' = "list" /\ job'.path = <<>> /\ job'.id = Root
    BY <1>2 DEF Start, Abort, Failed, NoJob
  <2> QED
    BY <2>1, <2>2, <2>3, IdleLeavesNoneOut
<1>3. CASE InitialPull
  BY <1>3, ListLeavesNoneOut, ChildLeavesNoneOut, FolderLeavesNoneOut, FetchLeavesNoneOut,
     WriteLeavesNoneOut, KeepLeavesNoneOut, TokenLeavesNoneOut DEF InitialPull
<1>4. CASE LocalChange
  <2>1. pc \notin LocalPcs /\ queue = <<>>
    BY DEF KInv, Calm, InitialPcs, LocalPcs
  <2> QED
    BY <1>4, <2>1 DEF LocalChange, LocalPcs, TakeRemoved, DeleteFile, ForgetDeleted,
       TakeModified, Stat, Read, Upload, CreateFolder, RecordUpload
<1>5. CASE RemoteChanges
  <2>1. /\ pc \notin {"remove", "unrow", "refetch", "rewrite", "rekeep"}
        /\ batch = {} /\ afterToken = {} /\ afterNew = {}
    BY DEF KInv, Calm, InitialPcs
  <2>2. CASE PollTick \/ ListChanges \/ SetToken
    <3>1. /\ UNCHANGED <<remote, rows, local, queue, frames, left>> /\ batch' = {}
          /\ afterToken' = {} /\ afterNew' = {}
          /\ pc' \in {"select", "changes", "apply"}
      BY <2>1, <2>2 DEF PollTick, ListChanges, SetToken, Done, Goes, driveVars, dbVars, userVars
    <3> QED
      BY <2>1, <3>1, IdleLeavesNoneOut
  <2>3. ~ApplyChange
    BY <2>1 DEF ApplyChange
  <2> QED
    BY <1>5, <2>1, <2>2, <2>3 DEF RemoteChanges, RemoveLocal, RemoveRow, Download, WriteLocal,
       Keep
<1>6. CASE UNCHANGED vars
  <2>1. UNCHANGED <<local, remote, afterToken, afterNew, rows, pc, frames, job, content, batch,
                   queue, left>>
    BY <1>6 DEF vars, driveVars, dbVars, workerVars, userVars
  <2>2. Calm' /\ DriveSeeded' /\ RowsSeeded' /\ JobSeeded'
    BY <2>1, SeedStays DEF KInv, Calm, RowsSeeded, JobSeeded, OfSeed
  <2>3. FramesSeeded' /\ NoneLeftOut'
    BY <2>1 DEF KInv, FramesSeeded, NoneLeftOut, Ahead, OfSeed
  <2> QED
    BY <2>2, <2>3 DEF KInv
<1> QED
  BY <1>1, <1>2, <1>3, <1>4, <1>5, <1>6 DEF Next, Worker

LEMMA InitLeavesNoneOut ==
    ASSUME Budget["edit"] = 0, Init
    PROVE  KInv
<1> DEFINE at(i) == CHOOSE q \in DOMAIN Seed : Seed[q] = i
           none == [name |-> CHOOSE n \in FileNames : TRUE, state |-> "none", version |-> 0,
                    parent |-> Root]
<1>1. /\ local = [p \in Paths |-> IF Resumed /\ p \in DOMAIN Seed THEN 1 ELSE 0]
      /\ remote = [i \in Ids |-> IF \E p \in DOMAIN Seed : Seed[p] = i
                                 THEN SeedItem(at(i)) ELSE none]
      /\ rows = [p \in Paths |-> IF Resumed /\ p \in DOMAIN Seed
                                 THEN [id |-> Seed[p], md5 |-> IF p \in Dirs THEN 0 ELSE 1]
                                 ELSE NoRow]
      /\ afterToken = {} /\ afterNew = {} /\ pc = "off"
      /\ frames = <<>> /\ job = NoJob /\ content = 0 /\ batch = {} /\ queue = <<>>
      /\ left = Budget
  BY DEF Init, SeedItem
<1>2. ASSUME NEW p \in DOMAIN Seed PROVE at(Seed[p]) = p
  BY SeedAssumption
<1>3. none.state = "none"
  OBVIOUS
<1> HIDE DEF at, none
<1>4. DriveSeeded
  BY <1>1, <1>2, <1>3, SeedShape DEF DriveSeeded
<1>5. RowsSeeded
  <2>1. \A p \in Paths : rows[p].id # 0 => p \in DOMAIN Seed /\ Resumed /\ rows[p].id = Seed[p]
    BY <1>1 DEF NoRow
  <2>2. \A p \in Paths : Resumed /\ p \in DOMAIN Seed => local[p] = 1
    BY <1>1
  <2> QED
    BY <2>1, <2>2 DEF RowsSeeded
<1>6. FramesSeeded
  <2>1. Len(<<>>) = 0 /\ 1..0 = {}
    OBVIOUS
  <2> QED
    BY <1>1, <2>1 DEF FramesSeeded
<1> QED
  BY <1>1, <1>4, <1>5, <1>6 DEF KInv, Calm, JobSeeded, NoneLeftOut

\* When nobody edits, the first token is stored only after every file of Drive
\* is here with Drive's content, through faults, aborts and restarts, and for
\* every tree Drive holds (initial_pull; the run FolderGap shows that an edit
\* on Drive during the pull breaks it).
THEOREM PullLeavesNothingOut == Budget["edit"] = 0 /\ Spec => []KnownConsistentStart
<1>1. Budget["edit"] = 0 /\ Init => KInv
  BY InitLeavesNoneOut
<1>2. TInv /\ KInv /\ [Next]_vars => KInv'
  BY NextLeavesNoneOut
<1>3. TInv /\ KInv => KnownConsistentStart
  <2> SUFFICES ASSUME TInv, KInv, pc = "watch", NEW i \in Ids, Live(i), ~IsDir(i)
               PROVE  \E p \in RowsOf(i) : local[p] = remote[i].version
    BY DEF KnownConsistentStart
  <2>1. PICK p \in DOMAIN Seed : Seed[p] = i
    BY DEF KInv, DriveSeeded, Live
  <2>2. p \in Paths /\ p \in Files
    <3>1. Last(p) \notin DirNames
      BY <2>1, SeededChild DEF KInv, IsDir
    <3> QED
      BY <2>1, <3>1, SeedShape, LastName DEF Paths
  <2>3. remote[i].version = 1
    BY <2>1, <2>2, SeededChild, PathShape DEF KInv
  <2>4. rows[p].id # 0
    BY <2>2 DEF KInv, NoneLeftOut, Pulling
  <2> QED
    BY <2>1, <2>2, <2>3, <2>4 DEF KInv, RowsSeeded, RowsOf
<1> QED
  BY <1>1, <1>2, <1>3, TypesKept, PTL DEF Spec

-----------------------------------------------------------------------------
(* A folder that is watched without a break.                               *)

Waits(p)  == \E k \in 1..Len(queue) : queue[k].path = p
Queued(e) == \E k \in 1..Len(queue) : queue[k] = e
\* A removal in the channel is not the last word on the path.
Answered(p) == \A k \in 1..Len(queue) : queue[k] = Removed(p) =>
    \E j \in (k + 1)..Len(queue) : queue[j] = Modified(p)
Excused(p) == Waits(p) \/ p \in errors

\* The changes after the token that counts: a poll stores its own when it is through.
After == IF pc \in Applying THEN afterNew ELSE afterToken
Coming(i) == \/ i \in After
             \/ \E c \in batch : c.id = i
             \/ pc \in RowPcs /\ job.id = i
Going(f) == \/ f \in After
            \/ \E c \in batch : c.id = f /\ c.gone
            \/ pc \in {"remove", "unrow"} /\ job.id = f

Parent(i) == remote[i].parent
Linked(p, f) == Len(p) = 2 /\ rows[Above(p)].id = f
InFolder(p, i) == \/ Parent(i) = Root
                  \/ Live(Parent(i))
                  \/ Linked(p, Parent(i)) /\ Going(Parent(i))

OnCourse(p) ==
    LET i == rows[p].id
    IN  IF i = 0 THEN local[p] = 0
        ELSE Coming(i) \/ (Live(i) /\ local[p] = remote[i].version /\ InFolder(p, i))
AtWork(p) == job.path = p /\ pc \in LocalPcs \cup {"keep"}
NoneForgotten == \A p \in Files : Excused(p) \/ AtWork(p) \/ OnCourse(p)

Once == /\ left["move"] = 0 /\ left["start"] <= 1
        /\ pc # "off" => left["start"] = 0

LocalTree == \A p \in Paths : local[p] # 0 => HasPlace(p)

DriveTree ==
    /\ \A i \in Ids : remote[i].state # "none" =>
         /\ IsDir(i) \/ remote[i].version # 0
         /\ Parent(i) # Root =>
              /\ IsDir(Parent(i)) /\ remote[Parent(i)].state # "none"
              /\ Exists(i) => Exists(Parent(i))
    /\ \A i \in afterToken \cup afterNew : remote[i].state # "none"

RowKinds == \A p \in Dirs : rows[p].id # 0 => IsDir(rows[p].id) /\ rows[p].md5 = 0

\* A tracked file's folder on Drive has the row of the directory it is in.
LinkHolds(p, i) == Parent(i) # Root /\ Live(Parent(i)) => Linked(p, Parent(i))
RowLinks == \A p \in Files : rows[p].id # 0 => LinkHolds(p, rows[p].id)

Vanished == \A p \in Files : rows[p].id # 0 /\ local[p] = 0 =>
    Queued(Removed(p)) \/ p \in errors \/ (pc \in {"erase", "forget"} /\ job.path = p)
QueueOrder == \A p \in Files : local[p] # 0 => Answered(p)
RowsTrue == \A p \in Files :
    LET i == rows[p].id
    IN  i # 0 /\ Live(i) /\ remote[i].version = rows[p].md5 =>
            local[p] = remote[i].version \/ Excused(p) \/ AtWork(p)

LocalWork ==
    /\ pc \in {"erase", "forget"} =>
         /\ rows[job.path].id = job.id
         /\ job.path \in Files /\ local[job.path] # 0 => Queued(Modified(job.path))
    /\ pc = "forget" => ~Exists(job.id)
    /\ pc \in {"read", "upload", "record"} /\ job.path \in Files /\ local[job.path] = 0 =>
         Queued(Removed(job.path))
    /\ pc \in {"upload", "record"} /\ job.path \in Files =>
         content # 0 /\ (local[job.path] = content \/ Waits(job.path))
    /\ pc = "upload" =>
         job.id = rows[job.path].id /\ (job.parent # Root => Linked(job.path, job.parent))
    /\ pc = "create" => rows[job.path].id = 0
    /\ pc = "record" =>
         /\ RowsOf(job.id) \subseteq {job.path}
         /\ job.path \in Files => job.md5 \in {0, content} /\ LinkHolds(job.path, job.id)
         /\ job.path \in Dirs => rows[job.path].id = 0 /\ IsDir(job.id) /\ job.md5 = 0

PollWork ==
    /\ pc \in RowPcs => rows[job.path].id = job.id /\ job.id \in afterToken
    /\ pc \in {"refetch", "rewrite", "rekeep"} => job.path \in Files
    /\ pc = "rewrite" => content # 0
    /\ pc = "rekeep" => Waits(job.path)
    /\ pc \in {"remove", "unrow"} /\ job.path \in Dirs => ~Live(job.id)
    /\ pc = "unrow" =>
         /\ job.path \in Files => local[job.path] = 0 \/ Waits(job.path)
         /\ \A q \in Below(job.path) : rows[q].id # 0 => Excused(q)

\* What the rest of the batch says of folders.
BatchFolders ==
    /\ pc \notin Applying => batch = {}
    /\ \A c \in batch :
         /\ c.id \in afterToken
         /\ IsDir(c.id) => c.md5 = 0 /\ (c.gone => ~Live(c.id))
         /\ ~c.gone =>
              /\ \/ c.id \in afterNew \/ Parent(c.id) = Root \/ Live(Parent(c.id))
                 \/ /\ Parent(c.id) \in afterNew
                    /\ \A p \in Files : rows[p].id = c.id => Linked(p, Parent(c.id))
              /\ ~\E g \in batch : g.id = Parent(c.id) /\ g.gone
              /\ ~(pc \in {"remove", "unrow"} /\ job.id = Parent(c.id))

\* The initial pull, before anybody watches.
AtPlace(p, i) == /\ remote[i].name = Last(p) /\ Parent(i) = ParentOf(p)
                 /\ Len(p) = 2 => Parent(i) # Root
Fetched(i, md5, v) == /\ md5 <= v /\ v <= remote[i].version /\ v # 0
                      /\ v = remote[i].version \/ i \in afterToken
Initial == pc \in InitialPcs \cup {"off"}
\* Every folder on Drive has its row: the last run made them, and nobody makes more.
ItemsKnown == \A i \in Ids : remote[i].state # "none" =>
    /\ Live(i) \/ i \in afterToken
    /\ IsDir(i) => rows[<<remote[i].name>>].id = i
RowsPlaced ==
    /\ \A p \in Paths : rows[p].id # 0 => AtPlace(p, rows[p].id)
    /\ \A p \in Files : rows[p].id # 0 =>
         /\ local[p] # 0
         /\ ~AtWork(p) => rows[p].md5 <= local[p] /\ local[p] <= remote[rows[p].id].version
FramesPlaced == \A k \in 1..Len(frames) :
    /\ frames[k].at \in Dirs => rows[frames[k].at].id # 0
    /\ \A c \in frames[k].rest :
         /\ Parent(c.id) = IF frames[k].at = <<>> THEN Root ELSE rows[frames[k].at].id
         /\ c.md5 <= remote[c.id].version
JobPlaced ==
    /\ pc = "list" => job.id = IF job.path = <<>> THEN Root ELSE rows[job.path].id
    /\ pc \in {"mkdir", "keep dir", "fetch", "write", "keep"} => AtPlace(job.path, job.id)
    /\ pc = "fetch" => job.md5 <= remote[job.id].version
    /\ pc = "write" => Fetched(job.id, job.md5, content)
    /\ pc = "keep" => Fetched(job.id, job.md5, local[job.path])
Before ==
    /\ queue = <<>> /\ errors = {}
    /\ ItemsKnown
    /\ RowsPlaced
    /\ FramesPlaced
    /\ JobPlaced

During ==
    /\ Vanished
    /\ QueueOrder
    /\ RowsTrue
    /\ LocalWork
    /\ PollWork

Stopped == pc = "off" /\ left["start"] = 0

Good ==
    /\ Once
    /\ twice = {}
    /\ LocalTree
    /\ DriveTree
    /\ RowKinds
    /\ RowLinks
    /\ NoneForgotten
    /\ BatchFolders
    /\ Initial => Before
    /\ Watching => During

NInv == Stopped \/ Good

-----------------------------------------------------------------------------
(* The channel.                                                            *)

LEMMA QueueGrows ==
    ASSUME queue \in Seq(Event), NEW s \in Seq(Event), queue' = queue \o s
    PROVE  /\ \A e : Queued(e) => Queued(e)'
           /\ \A p : Waits(p) => Waits(p)'
           /\ \A k \in 1..Len(s) : Queued(s[k])'
           /\ \A p : Answered(p) /\ (\A k \in 1..Len(s) : s[k] # Removed(p)) => Answered(p)'
<1> DEFINE n == Len(queue)
           m == Len(s)
<1>1. /\ Len(queue') = n + m /\ n \in Nat /\ m \in Nat
      /\ \A k \in 1..n : queue'[k] = queue[k] /\ k \in 1..(n + m)
      /\ \A k \in 1..m : queue'[n + k] = s[k] /\ n + k \in 1..(n + m)
      /\ \A k \in 1..(n + m) : k \in 1..n \/ \E j \in 1..m : k = n + j
  <2>1. n \in Nat /\ m \in Nat
    BY LenProperties
  <2>2. /\ Len(queue') = n + m
        /\ \A k \in 1..(n + m) : queue'[k] = IF k <= n THEN queue[k] ELSE s[k - n]
    BY ConcatProperties
  <2> HIDE DEF n, m
  <2>3. \A k \in 1..m : n + k \in 1..(n + m) /\ ~(n + k <= n) /\ (n + k) - n = k
    BY <2>1
  <2>4. \A k \in 1..(n + m) : k \in 1..n \/ (k - n \in 1..m /\ k = n + (k - n))
    BY <2>1
  <2>5. \A k \in 1..n : k <= n /\ k \in 1..(n + m)
    BY <2>1
  <2> QED
    BY <2>1, <2>2, <2>3, <2>4, <2>5
<1> HIDE DEF n, m
<1>2. \A e : Queued(e) => Queued(e)'
  BY <1>1 DEF Queued, n
<1>3. \A p : Waits(p) => Waits(p)'
  BY <1>1 DEF Waits, n
<1>4. \A k \in 1..m : Queued(s[k])'
  BY <1>1 DEF Queued
<1>5. ASSUME NEW p, Answered(p), \A k \in 1..m : s[k] # Removed(p)
      PROVE  Answered(p)'
  <2> SUFFICES ASSUME NEW k \in 1..Len(queue'), queue'[k] = Removed(p)
               PROVE  \E j \in (k + 1)..Len(queue') : queue'[j] = Modified(p)
    BY DEF Answered, Removed, Modified
  <2>4. k \in 1..(n + m) /\ queue'[k] = Removed(p)
    BY <1>1
  <2>5. k \in 1..n
    <3>1. ASSUME NEW j \in 1..m, k = n + j PROVE FALSE
      <4>1. queue'[n + j] = s[j]
        BY <1>1
      <4>2. s[j] # Removed(p)
        BY <1>5
      <4> QED
        BY <2>4, <3>1, <4>1, <4>2
    <3> QED
      BY <1>1, <2>4, <3>1
  <2>1. k \in 1..n /\ queue[k] = Removed(p)
    BY <1>1, <2>4, <2>5
  <2>2. PICK j \in (k + 1)..n : queue[j] = Modified(p)
    BY <1>5, <2>1 DEF Answered, n
  <2>3. j \in 1..n /\ j \in (k + 1)..(n + m)
    BY <1>1, <2>1, <2>2
  <2> QED
    BY <1>1, <2>2, <2>3
<1> QED
  BY <1>2, <1>3, <1>4, <1>5 DEF m

\* Whoever modifies a file that is watched leaves an event that is the last of it.
LEMMA ModifiedReported ==
    ASSUME queue \in Seq(Event), Watching, NEW p \in Paths, Notify(Modified(p))
    PROVE  /\ Queued(Modified(p))' /\ Waits(p)' /\ Answered(p)'
           /\ \A e : Queued(e) => Queued(e)'
           /\ \A q : Waits(q) => Waits(q)'
           /\ \A q : Answered(q) => Answered(q)'
<1>1. queue' = queue \o Report(Modified(p)) /\ Report(Modified(p)) \in Seq(Event)
  BY EventsTyped, ReportTyped DEF Notify
<1>2. \A k \in 1..Len(Report(Modified(p))) : Report(Modified(p))[k] = Modified(p)
  BY DEF Report
<1>3. \A q : Modified(p) # Removed(q)
  BY DEF Modified, Removed
<1>4. /\ \A e : Queued(e) => Queued(e)'
      /\ \A q : Waits(q) => Waits(q)'
      /\ \A q : Answered(q) => Answered(q)'
      /\ \A k \in 1..Len(Report(Modified(p))) : Queued(Modified(p))'
  BY <1>1, <1>2, <1>3, QueueGrows
<1>5. CASE Known(Modified(p))
  <2>1. queue' = queue
    <3>1. Report(Modified(p)) = <<>>
      BY <1>5 DEF Report
    <3> QED
      BY <1>1, <3>1, ConcatEmptySeq
  <2>2. PICK k \in 1..Len(queue) :
          queue[k] = Modified(p) /\ \A j \in 1..Len(queue) : j > k => queue[j].path # p
    <3>1. DOMAIN queue = 1..Len(queue)
      BY LenProperties
    <3> QED
      BY <1>5, <3>1 DEF Known, Modified
  <2>3. Answered(p)
    <3> SUFFICES ASSUME NEW j \in 1..Len(queue), queue[j] = Removed(p)
                 PROVE  \E l \in (j + 1)..Len(queue) : queue[l] = Modified(p)
      BY DEF Answered
    <3>1. j # k /\ ~(j > k)
      BY <2>2 DEF Modified, Removed
    <3>2. k \in (j + 1)..Len(queue)
      BY <3>1, LenProperties
    <3> QED
      BY <2>2, <3>2
  <2>4. Queued(Modified(p)) /\ Waits(p)
    BY <2>2 DEF Queued, Waits, Modified
  <2> QED
    BY <1>4, <2>3, <2>4
<1>6. CASE ~Known(Modified(p))
  <2>1. Report(Modified(p)) = <<Modified(p)>> /\ queue' = Append(queue, Modified(p))
    <3>1. Report(Modified(p)) = <<Modified(p)>>
      BY <1>6 DEF Report
    <3>2. queue \o <<Modified(p)>> = Append(queue, Modified(p))
      BY EventsTyped, AppendIsConcat
    <3> QED
      BY <1>1, <3>1, <3>2
  <2> DEFINE n == Len(queue)
  <2>2. /\ n \in Nat /\ Len(queue') = n + 1 /\ queue'[n + 1] = Modified(p)
    BY <2>1, EventsTyped, AppendProperties, LenProperties
  <2> HIDE DEF n
  <2>3. Queued(Modified(p))' /\ Waits(p)'
    <3>1. n + 1 \in 1..(n + 1)
      BY <2>2
    <3> QED
      BY <2>2, <3>1 DEF Queued, Waits, Modified
  <2>4. Answered(p)'
    <3> SUFFICES ASSUME NEW j \in 1..Len(queue'), queue'[j] = Removed(p)
                 PROVE  \E l \in (j + 1)..Len(queue') : queue'[l] = Modified(p)
      BY DEF Answered, Removed, Modified
    <3>1. j # n + 1
      BY <2>2 DEF Modified, Removed
    <3>2. n + 1 \in (j + 1)..(n + 1)
      BY <2>2, <3>1
    <3> QED
      BY <2>2, <3>2
  <2> QED
    BY <1>4, <2>3, <2>4
<1> QED
  BY <1>5, <1>6

\* Nobody watches yet.
LEMMA NothingReported ==
    ASSUME ~Watching, NEW p, Notify(Modified(p)), queue \in Seq(Event)
    PROVE  queue' = queue
<1>1. queue' = queue \o <<>>
  BY DEF Notify, Report
<1> QED
  BY <1>1, ConcatEmptySeq

\* The next event leaves the channel.
LEMMA HeadTaken ==
    ASSUME queue \in Seq(Event), queue # <<>>, queue' = Tail(queue)
    PROVE  /\ Head(queue) \in Event
           /\ \A e : Queued(e) /\ e # Head(queue) => Queued(e)'
           /\ \A p : Waits(p) /\ p # Head(queue).path => Waits(p)'
           /\ \A p : Answered(p) => Answered(p)'
           /\ \A p : Answered(p) /\ Head(queue) = Removed(p) => Queued(Modified(p))'
<1> DEFINE n == Len(queue)
<1>1. /\ n \in Nat \ {0} /\ Len(Tail(queue)) = n - 1 /\ Head(queue) = queue[1]
      /\ \A k \in 1..(n - 1) : Tail(queue)[k] = queue[k + 1]
      /\ Head(queue) \in Event
  BY HeadTailProperties, LenProperties, EmptySeq
<1> HIDE DEF n
<1>2. \A k \in 1..n : k # 1 => k - 1 \in 1..(n - 1) /\ (k - 1) + 1 = k
  BY <1>1
<1>3. \A e : Queued(e) /\ e # Head(queue) => Queued(e)'
  BY <1>1, <1>2 DEF Queued, n
<1>4. \A p : Waits(p) /\ p # Head(queue).path => Waits(p)'
  BY <1>1, <1>2 DEF Waits, n
<1>5. ASSUME NEW p, Answered(p) PROVE Answered(p)'
  <2> SUFFICES ASSUME NEW k \in 1..(n - 1), queue'[k] = Removed(p)
               PROVE  \E j \in (k + 1)..(n - 1) : queue'[j] = Modified(p)
    BY <1>1 DEF Answered, Removed, Modified
  <2>1. k + 1 \in 1..n /\ queue[k + 1] = Removed(p)
    BY <1>1
  <2>2. PICK j \in (k + 1 + 1)..n : queue[j] = Modified(p)
    BY <1>5, <2>1 DEF Answered, n
  <2>3. j - 1 \in (k + 1)..(n - 1) /\ j - 1 \in 1..(n - 1) /\ (j - 1) + 1 = j
    BY <1>1, <2>1
  <2> QED
    BY <1>1, <2>2, <2>3
<1>6. ASSUME NEW p, Answered(p), Head(queue) = Removed(p) PROVE Queued(Modified(p))'
  <2>1. 1 \in 1..n
    BY <1>1
  <2>2. PICK j \in (1 + 1)..n : queue[j] = Modified(p)
    BY <1>1, <1>6, <2>1 DEF Answered, n
  <2>3. j - 1 \in 1..(n - 1) /\ (j - 1) + 1 = j
    BY <1>1
  <2> QED
    BY <1>1, <2>2, <2>3 DEF Queued, Modified
<1> QED
  BY <1>1, <1>3, <1>4, <1>5, <1>6

\* Every file that goes with a directory, or alone, leaves an event of its own.
LEMMA RemovalsReported ==
    ASSUME queue \in Seq(Event), local \in [Paths -> Nat], Watching, NEW p \in Paths,
           LocalDelete(p), local[p] # 0
    PROVE  /\ \A q \in Paths : local'[q] = IF q \in {p} \cup Below(p) THEN 0 ELSE local[q]
           /\ \A q \in {p} \cup Below(p) : local[q] # 0 => Queued(Removed(q))'
           /\ \A e : Queued(e) => Queued(e)'
           /\ \A q : Waits(q) => Waits(q)'
           /\ \A q : Answered(q) /\ q \notin {p} \cup Below(p) => Answered(q)'
<1> DEFINE inside == {e \in {Removed(q) : q \in Below(p)} :
                        local[e.path] # 0 /\ Report(e) # <<>>}
<1>1. PICK s, t : s = SetToSeq(inside) /\ t = Report(Removed(p))
  OBVIOUS
<1>2. IsFiniteSet(inside) /\ inside \subseteq Event
  BY BelowFinite, FS_Subset, BelowPaths, EventsTyped
<1>3. queue' = (queue \o s) \o t
  BY <1>1 DEF LocalDelete
<1>4. /\ s \in Seq(inside) /\ s \in Seq(Event) /\ t \in Seq(Event)
      /\ \A e \in inside : \E k \in 1..Len(s) : s[k] = e
  BY <1>2, <1>1, SeqOfSet, SeqMonotonic, EventsTyped, ReportTyped
<1>5. \A e \in inside : \E q \in Below(p) : e = Removed(q)
  OBVIOUS
<1>6. \A q \in Below(p) : local[q] # 0 => Removed(q) \in inside \/ Known(Removed(q))
  <2> SUFFICES ASSUME NEW q \in Below(p), local[q] # 0, ~Known(Removed(q))
               PROVE  Removed(q) \in inside
    OBVIOUS
  <2>1. Removed(q).path = q
    BY DEF Removed
  <2>2. Report(Removed(q)) # <<>>
    BY DEF Report
  <2> QED
    BY <2>1, <2>2
<1>7. \A k \in 1..Len(t) : t[k] = Removed(p)
  BY <1>1 DEF Report
<1>8. Known(Removed(p)) \/ (1 \in 1..Len(t) /\ t[1] = Removed(p))
  BY <1>1 DEF Report
<1> HIDE DEF inside
<1>9. \A k \in 1..Len(s) : s[k] \in inside
  BY <1>4, ElementOfSeq
<1>10. \A e : Known(e) => Queued(e)
  <2>1. DOMAIN queue = 1..Len(queue)
    BY LenProperties
  <2> QED
    BY <2>1 DEF Known, Queued
<1>11. /\ s \o t \in Seq(Event) /\ queue' = queue \o (s \o t)
       /\ \A k \in 1..Len(s) : \E j \in 1..Len(s \o t) : (s \o t)[j] = s[k]
       /\ \A k \in 1..Len(t) : \E j \in 1..Len(s \o t) : (s \o t)[j] = t[k]
       /\ \A j \in 1..Len(s \o t) : \/ \E k \in 1..Len(s) : (s \o t)[j] = s[k]
                                    \/ \E k \in 1..Len(t) : (s \o t)[j] = t[k]
  <2> DEFINE n == Len(s)
             m == Len(t)
  <2>1. /\ s \o t \in Seq(Event) /\ Len(s \o t) = n + m /\ n \in Nat /\ m \in Nat
        /\ \A k \in 1..(n + m) : (s \o t)[k] = IF k <= n THEN s[k] ELSE t[k - n]
    BY <1>4, ConcatProperties, LenProperties
  <2>2. queue' = queue \o (s \o t)
    <3>1. (queue \o s) \o t = queue \o (s \o t)
      <4>1. \A a, b, c \in Seq(Event) : (a \o b) \o c = a \o (b \o c)
        BY ConcatAssociative
      <4>2. s \in Seq(Event) /\ t \in Seq(Event)
        BY <1>4
      <4> QED
        BY <4>1, <4>2
    <3> QED
      BY <1>3, <3>1
  <2> HIDE DEF n, m
  <2>3. \A k \in 1..m : n + k \in 1..(n + m) /\ ~(n + k <= n) /\ (n + k) - n = k
    BY <2>1
  <2>4. \A k \in 1..(n + m) : IF k <= n THEN k \in 1..n ELSE k - n \in 1..m
    BY <2>1
  <2>5. \A k \in 1..n : k <= n /\ k \in 1..(n + m)
    BY <2>1
  <2> QED
    BY <2>1, <2>2, <2>3, <2>4, <2>5 DEF n, m
<1>12. /\ \A e : Queued(e) => Queued(e)'
       /\ \A q : Waits(q) => Waits(q)'
       /\ \A k \in 1..Len(s \o t) : Queued((s \o t)[k])'
       /\ \A q : Answered(q) /\ (\A k \in 1..Len(s \o t) : (s \o t)[k] # Removed(q))
                   => Answered(q)'
  BY <1>11, QueueGrows
<1>13. /\ \A k \in 1..Len(s) : Queued(s[k])'
       /\ \A k \in 1..Len(t) : Queued(t[k])'
  BY <1>11, <1>12
<1>14. ASSUME NEW q \in {p} \cup Below(p), local[q] # 0 PROVE Queued(Removed(q))'
  <2>1. CASE q = p
    <3>1. CASE Known(Removed(p))
      BY <1>10, <1>12, <2>1, <3>1
    <3>2. CASE 1 \in 1..Len(t) /\ t[1] = Removed(p)
      BY <1>13, <2>1, <3>2
    <3> QED
      BY <1>8, <3>1, <3>2
  <2>2. CASE q \in Below(p)
    <3>1. CASE Removed(q) \in inside
      <4>1. PICK k \in 1..Len(s) : s[k] = Removed(q)
        BY <1>4, <3>1
      <4> QED
        BY <1>13, <4>1
    <3>2. CASE Known(Removed(q))
      BY <1>10, <1>12, <3>2
    <3> QED
      BY <1>6, <1>14, <2>2, <3>1, <3>2
  <2> QED
    BY <1>14, <2>1, <2>2
<1>15. ASSUME NEW q, Answered(q), q \notin {p} \cup Below(p) PROVE Answered(q)'
  <2>1. \A r : Removed(r) = Removed(q) => r = q
    BY DEF Removed
  <2>2. \A k \in 1..Len(s) : s[k] # Removed(q)
    BY <1>5, <1>9, <1>15, <2>1
  <2>3. \A k \in 1..Len(t) : t[k] # Removed(q)
    BY <1>7, <1>15, <2>1
  <2>4. \A k \in 1..Len(s \o t) : (s \o t)[k] # Removed(q)
    BY <1>11, <2>2, <2>3
  <2> QED
    BY <1>12, <1>15, <2>4
<1>16. \A q \in Paths : local'[q] = IF q \in {p} \cup Below(p) THEN 0 ELSE local[q]
  BY DEF LocalDelete
<1> QED
  BY <1>12, <1>14, <1>15, <1>16

-----------------------------------------------------------------------------
(* What is known in every state, and after a step on Drive.                *)

LEMMA Facts ==
    ASSUME TInv, IInv, twice = {}
    PROVE  /\ \A p \in Paths :
                /\ local[p] \in Nat /\ rows[p].md5 \in Nat /\ rows[p].md5 <= clock
                /\ rows[p].id \in Ids \cup {0}
                /\ rows[p].id # 0 => rows[p].id \in Ids /\ remote[rows[p].id].state # "none"
           /\ \A p \in Files : rows[p].id # 0 => ~IsDir(rows[p].id)
           /\ \A p, q \in Paths : rows[p].id = rows[q].id /\ rows[p].id # 0 => p = q
           /\ \A i \in Ids :
                /\ remote[i].version \in Nat /\ remote[i].version <= clock
                /\ Parent(i) \in Ids \cup {Root} /\ remote[i].state \in States
                /\ IsDir(i) => Parent(i) = Root /\ remote[i].version = 0
           /\ clock \in Nat /\ 0 \notin Ids /\ Root = 0
           /\ queue \in Seq(Event) /\ local \in [Paths -> Nat]
           /\ afterToken \subseteq Ids /\ afterNew \subseteq Ids
           /\ batch \subseteq [id : Ids, gone : BOOLEAN, md5 : Happened]
           /\ hasToken /\ pc \notin {"ask token", "store token"}
<1>1. clock \in Nat /\ \A x \in Happened : x \in Nat /\ x <= clock
  <2>1. clock \in Nat
    BY DEF TInv, BudgetTyped
  <2> QED
    BY <2>1 DEF Happened
<1>2. \A p \in Paths : local[p] \in Nat /\ rows[p] \in [id : Ids \cup {0}, md5 : Happened]
  BY DEF TInv, RowsTyped, IInv, Typed
<1>3. \A i \in Ids : remote[i] \in [name : Names, parent : Ids \cup {Root},
                                    version : Happened, state : States]
  BY DEF TInv, DriveTyped
<1>4. \A p \in Paths : rows[p].id # 0 => OfKind(p, rows[p].id)
  BY DEF IInv, RowsOK
<1>5. \A p \in Paths : p \in Files /\ rows[p].id # 0 => ~IsDir(rows[p].id)
  BY <1>4, NamesAssumption DEF OfKind, IsDir
<1>6. \A p, q \in Paths : rows[p].id = rows[q].id /\ rows[p].id # 0 => p = q
  BY DEF IInv, RowsOK
<1>7. \A i \in Ids : IsDir(i) => Parent(i) = Root /\ remote[i].version = 0
  BY DEF IInv, FoldersPlain, IsDir, Parent, TInv, DriveTyped
<1>8. \A p \in Paths :
        rows[p].id # 0 => rows[p].id \in Ids /\ remote[rows[p].id].state # "none"
  BY <1>4 DEF OfKind
<1>9. 0 \notin Ids /\ Root = 0
  BY DEF Ids, Root
<1>10. /\ queue \in Seq(Event) /\ local \in [Paths -> Nat]
       /\ afterToken \subseteq Ids /\ afterNew \subseteq Ids
       /\ batch \subseteq [id : Ids, gone : BOOLEAN, md5 : Happened]
       /\ hasToken /\ pc \notin {"ask token", "store token"}
  BY DEF TInv, LocalTyped, IInv, Typed, DriveTyped, WorkTyped
<1>11. \A p \in Paths : /\ rows[p].md5 \in Nat /\ rows[p].md5 <= clock
                        /\ rows[p].id \in Ids \cup {0}
  BY <1>1, <1>2
<1>12. \A i \in Ids : /\ remote[i].version \in Nat /\ remote[i].version <= clock
                      /\ Parent(i) \in Ids \cup {Root} /\ remote[i].state \in States
  BY <1>1, <1>3 DEF Parent
<1>13. \A p \in Files : p \in Paths
  BY DEF Paths
<1> QED
  BY <1>1, <1>2, <1>5, <1>6, <1>7, <1>8, <1>9, <1>10, <1>11, <1>12, <1>13

\* A step on Drive: nobody moves, revives or loses sight of an item.
DriveGoes ==
    /\ \A i \in Ids : remote[i].state # "none" =>
         /\ remote'[i].state # "none" /\ remote'[i].name = remote[i].name
         /\ remote'[i].parent = remote[i].parent
         /\ remote'[i].state = "live" => remote[i].state = "live"
         /\ remote'[i].state \in {"live", "trashed"} => remote[i].state \in {"live", "trashed"}
    /\ \A i \in Ids : remote'[i] = remote[i] \/ i \in afterToken' \cap afterNew'
    /\ afterToken \subseteq afterToken' /\ afterNew \subseteq afterNew'
    /\ DriveTree'

\* The worker stays at its work, or goes on with the change of the path.
StaysAtWork ==
    \/ UNCHANGED <<pc, job>>
    \/ pc \in LocalPcs /\ pc' \in LocalPcs /\ job'.path = job.path

LEMMA TreeStays ==
    ASSUME TInv, IInv, Good, DriveGoes, UNCHANGED <<local, rows>>
    PROVE  LocalTree' /\ RowKinds' /\ RowLinks'
<1>1. LocalTree'
  BY DEF Good, LocalTree, HasPlace
<1>2. RowKinds'
  BY Facts DEF Good, RowKinds, DriveGoes, IsDir, Paths
<1>3. RowLinks'
  <2> SUFFICES ASSUME NEW p \in Files, rows[p].id # 0,
                      Parent(rows[p].id)' # Root, Live(Parent(rows[p].id))'
               PROVE  Linked(p, Parent(rows[p].id))'
    BY DEF RowLinks, LinkHolds, Live, Parent, Linked
  <2> DEFINE i == rows[p].id
             f == remote[i].parent
  <2>1. i \in Ids /\ remote[i].state # "none" /\ p \in Paths
    BY Facts DEF Good, Paths
  <2>2. remote'[i].parent = f /\ f # Root
    BY <2>1 DEF DriveGoes, Parent
  <2>3. f \in Ids /\ remote[f].state # "none"
    BY <2>1, <2>2, Facts DEF Good, DriveTree, Parent
  <2>4. Live(f)
    BY <2>2, <2>3 DEF DriveGoes, Live, Parent
  <2>5. Linked(p, f)
    BY <2>2, <2>4 DEF Good, RowLinks, LinkHolds, Parent
  <2> QED
    BY <2>2, <2>5 DEF Linked, Parent
<1> QED
  BY <1>1, <1>2, <1>3

\* A change of an item, or of its folder, is listed.
LEMMA NoneForgottenOnDrive ==
    ASSUME TInv, IInv, Good, DriveGoes, StaysAtWork,
           UNCHANGED <<local, rows, queue, errors, batch>>
    PROVE  NoneForgotten'
<1>1. After \subseteq After'
  BY DEF StaysAtWork, After, Applying, LocalPcs, PollPcs, DriveGoes
<1>2. /\ \A i : Coming(i) => Coming(i)'
      /\ \A f : Going(f) => Going(f)'
      /\ \A p : AtWork(p) => AtWork(p)'
      /\ \A p : Excused(p) => Excused(p)'
  <2>1. \A p : AtWork(p) => AtWork(p)'
    BY DEF StaysAtWork, AtWork
  <2>2. \A p : Excused(p) => Excused(p)'
    BY DEF Excused, Waits
  <2>3. \A i : Coming(i) => Coming(i)'
    BY <1>1 DEF StaysAtWork, Coming, RowPcs, LocalPcs, PollPcs
  <2>4. \A f : Going(f) => Going(f)'
    BY <1>1 DEF StaysAtWork, Going, LocalPcs
  <2> QED
    BY <2>1, <2>2, <2>3, <2>4
<1>3. \A i \in Ids : remote'[i] = remote[i] \/ i \in After'
  BY DEF DriveGoes, After
<1> SUFFICES ASSUME NEW p \in Files, OnCourse(p) PROVE OnCourse(p)'
  BY <1>2 DEF Good, NoneForgotten
<1>7. PICK i, f : i = rows[p].id /\ f = remote[i].parent
  OBVIOUS
<1>4. CASE i = 0
  BY <1>4, <1>7 DEF OnCourse
<1>5. CASE i # 0 /\ Coming(i)
  <2>1. Coming(i)'
    BY <1>2, <1>5
  <2> QED
    BY <1>5, <1>7, <2>1 DEF OnCourse
<1>6. CASE i # 0 /\ Live(i) /\ local[p] = remote[i].version /\ InFolder(p, i)
  <2>1. i \in Ids /\ remote[i].state # "none" /\ p \in Paths
    BY <1>6, <1>7, Facts DEF Good, Paths
  <2>2. remote'[i].parent = f
    BY <1>7, <2>1 DEF DriveGoes
  <2>3. CASE i \in After'
    <3>1. Coming(i)'
      BY <2>3 DEF Coming
    <3> QED
      BY <1>6, <1>7, <3>1 DEF OnCourse
  <2>4. CASE remote'[i] = remote[i]
    <3>1. Live(i)' /\ local'[p] = remote'[i].version
      BY <1>6, <2>4 DEF Live
    <3>2. InFolder(p, i)'
      <4>1. CASE f = Root
        BY <2>2, <4>1 DEF InFolder, Parent
      <4>2. CASE f # Root /\ Live(f)
        <5>1. Linked(p, f) /\ f \in Ids
          BY <1>6, <1>7, <2>1, <4>2, Facts DEF Good, RowLinks, LinkHolds, Parent
        <5>2. CASE remote'[f] = remote[f]
          BY <2>2, <4>2, <5>2 DEF InFolder, Parent, Live
        <5>3. CASE f \in After'
          <6>1. Going(f)' /\ Linked(p, f)'
            BY <5>1, <5>3 DEF Going, Linked
          <6> QED
            BY <2>2, <6>1 DEF InFolder, Parent
        <5> QED
          BY <1>3, <5>1, <5>2, <5>3
      <4>3. CASE Linked(p, f) /\ Going(f)
        <5>1. Linked(p, f)' /\ Going(f)'
          BY <1>2, <4>3 DEF Linked
        <5> QED
          BY <2>2, <5>1 DEF InFolder, Parent
      <4> QED
        BY <1>6, <1>7, <4>1, <4>2, <4>3 DEF InFolder, Parent
    <3> QED
      BY <1>6, <1>7, <3>1, <3>2 DEF OnCourse
  <2> QED
    BY <1>3, <2>1, <2>3, <2>4
<1> QED
  BY <1>4, <1>5, <1>6, <1>7 DEF OnCourse

LEMMA BatchStays ==
    ASSUME TInv, IInv, Good, DriveGoes, StaysAtWork, UNCHANGED <<rows, batch>>
    PROVE  BatchFolders'
<1>1. pc' \notin Applying => batch = {}
  BY DEF StaysAtWork, Good, BatchFolders, Applying, LocalPcs, PollPcs
<1>2. CASE batch = {}
  BY <1>2 DEF BatchFolders
<1>3. CASE batch # {}
  <2>1. UNCHANGED <<pc, job>>
    BY <1>3 DEF StaysAtWork, Good, BatchFolders, Applying, LocalPcs, PollPcs
  <2> SUFFICES ASSUME NEW c \in batch
               PROVE  /\ c.id \in afterToken'
                      /\ IsDir(c.id)' => c.md5 = 0 /\ (c.gone => ~Live(c.id)')
                      /\ ~c.gone =>
                           /\ \/ c.id \in afterNew'
                              \/ remote'[c.id].parent = Root
                              \/ Live(Parent(c.id))'
                              \/ /\ Parent(c.id)' \in afterNew'
                                 /\ \A p \in Files : rows[p].id = c.id =>
                                      Linked(p, remote'[c.id].parent)
                           /\ ~\E g \in batch : g.id = remote'[c.id].parent /\ g.gone
                           /\ ~(pc \in {"remove", "unrow"}
                                /\ job.id = remote'[c.id].parent)
    BY <1>1, <2>1 DEF BatchFolders, Parent, Linked
  <2> DEFINE f == remote[c.id].parent
  <2>2. c.id \in Ids /\ c.id \in afterToken /\ remote[c.id].state # "none"
    BY Facts DEF Good, BatchFolders, DriveTree
  <2>3. remote'[c.id].parent = f /\ remote'[c.id].name = remote[c.id].name
    BY <2>2 DEF DriveGoes
  <2>4. c.id \in afterToken' /\ (IsDir(c.id)' => c.md5 = 0 /\ (c.gone => ~Live(c.id)'))
    BY <2>2, <2>3 DEF Good, BatchFolders, IsDir, Live, DriveGoes
  <2>5. ASSUME ~c.gone
        PROVE  \/ c.id \in afterNew'
               \/ f = Root
               \/ Live(Parent(c.id))'
               \/ f \in afterNew' /\ \A p \in Files : rows[p].id = c.id => Linked(p, f)
    <3>1. \/ c.id \in afterNew \/ f = Root \/ Live(f)
          \/ f \in afterNew /\ \A p \in Files : rows[p].id = c.id => Linked(p, f)
      BY <2>5 DEF Good, BatchFolders, Parent
    <3>2. CASE f # Root /\ Live(f)
      <4>1. f \in Ids /\ (remote'[f] = remote[f] \/ f \in afterNew')
        BY <2>2, <3>2, Facts DEF Good, DriveGoes, Parent
      <4>2. \A p \in Files : rows[p].id = c.id => Linked(p, f)
        BY <2>2, <3>2, Facts DEF Good, RowLinks, LinkHolds, Parent
      <4> QED
        BY <2>3, <3>2, <4>1, <4>2 DEF Live, Parent
    <3> QED
      BY <3>1, <3>2 DEF DriveGoes
  <2>6. ~c.gone => /\ ~\E g \in batch : g.id = f /\ g.gone
                   /\ ~(pc \in {"remove", "unrow"} /\ job.id = f)
    BY DEF Good, BatchFolders, Parent
  <2> QED
    BY <2>3, <2>4, <2>5, <2>6 DEF Parent
<1> QED
  BY <1>2, <1>3

LEMMA DriveKeeps ==
    ASSUME TInv, IInv, Good, DriveGoes, StaysAtWork,
           UNCHANGED <<local, rows, twice, queue, errors, batch>>
    PROVE  /\ twice' = {} /\ LocalTree' /\ DriveTree' /\ RowKinds' /\ RowLinks'
           /\ NoneForgotten' /\ BatchFolders'
<1>1. twice' = {} /\ DriveTree'
  BY DEF Good, DriveGoes
<1> QED
  BY <1>1, TreeStays, NoneForgottenOnDrive, BatchStays

\* One item is changed, or created in a folder that is there.
LEMMA PutGoes ==
    ASSUME TInv, IInv, Good, NEW i \in Ids, NEW item \in Item, Put(i, item),
           NEW ids \in SUBSET Ids, Changed(ids), i \in ids,
           \A j \in ids : j # i => remote[j].state # "none",
           remote[i].state # "none" =>
               /\ item.name = remote[i].name /\ item.parent = remote[i].parent
               /\ item.state = "live" => Live(i)
               /\ Exists(i),
           item.state \in {"live", "trashed"},
           item.name \in DirNames \/ item.version # 0,
           item.parent # Root =>
               /\ item.parent # i /\ IsDir(item.parent) /\ Exists(item.parent)
    PROVE  DriveGoes
<1>1. remote'[i] = item /\ \A j \in Ids \ {i} : remote'[j] = remote[j]
  BY DEF Put, IInv, Typed
<1>2. afterToken' = afterToken \cup ids /\ afterNew' = afterNew \cup ids
  BY DEF Changed
<1>3. \A j \in Ids : remote[j].state # "none" =>
        /\ IsDir(j) \/ remote[j].version # 0
        /\ Parent(j) # Root =>
             /\ Parent(j) \in Ids /\ IsDir(Parent(j)) /\ remote[Parent(j)].state # "none"
             /\ Exists(j) => Exists(Parent(j))
  BY Facts DEF Good, DriveTree
<1>4. DriveTree'
  <2>1. ASSUME NEW j \in Ids, remote'[j].state # "none"
        PROVE  /\ IsDir(j)' \/ remote'[j].version # 0
               /\ remote'[j].parent # Root =>
                    /\ IsDir(Parent(j))' /\ remote'[remote'[j].parent].state # "none"
                    /\ Exists(j)' => Exists(Parent(j))'
    <3>1. CASE j = i
      <4>1. IsDir(j)' \/ remote'[j].version # 0
        BY <1>1, <3>1 DEF IsDir
      <4>2. ASSUME item.parent # Root
            PROVE  /\ IsDir(Parent(j))' /\ remote'[item.parent].state # "none"
                   /\ Exists(Parent(j))'
        <5>1. item.parent \in Ids \ {i} /\ remote'[item.parent] = remote[item.parent]
          BY <1>1, <4>2 DEF Item
        <5> QED
          BY <1>1, <3>1, <4>2, <5>1 DEF Parent, IsDir, Exists
      <4> QED
        BY <1>1, <3>1, <4>1, <4>2 DEF Parent
    <3>2. CASE j # i
      <4>1. remote'[j] = remote[j] /\ remote[j].state # "none"
        BY <1>1, <2>1, <3>2
      <4>2. IsDir(j)' \/ remote'[j].version # 0
        BY <1>3, <4>1 DEF IsDir
      <4>3. ASSUME remote[j].parent # Root
            PROVE  /\ IsDir(Parent(j))' /\ remote'[remote[j].parent].state # "none"
                   /\ Exists(j)' => Exists(Parent(j))'
        <5>1. PICK f \in Ids : f = remote[j].parent
          BY <1>3, <4>1, <4>3 DEF Parent
        <5>2. IsDir(f) /\ remote[f].state # "none" /\ (Exists(j) => Exists(f))
          BY <1>3, <4>1, <4>3, <5>1 DEF Parent
        <5>3. IsDir(f)' /\ remote'[f].state # "none" /\ (Exists(j)' => Exists(f)')
          <6>1. CASE f = i
            BY <1>1, <5>2, <6>1 DEF IsDir, Exists
          <6>2. CASE f # i
            BY <1>1, <4>1, <5>2, <6>2 DEF IsDir, Exists
          <6> QED
            BY <6>1, <6>2
        <5>4. remote'[j].parent = f
          BY <4>1, <5>1
        <5> QED
          BY <5>1, <5>3, <5>4 DEF Parent, IsDir, Exists
      <4> QED
        BY <4>1, <4>2, <4>3
    <3> QED
      BY <3>1, <3>2
  <2>2. ASSUME NEW j \in afterToken' \cup afterNew' PROVE remote'[j].state # "none"
    <3>1. j \in Ids /\ (remote[j].state # "none" \/ j = i)
      BY <1>2, Facts DEF Good, DriveTree
    <3> QED
      BY <1>1, <3>1
  <2> QED
    BY <2>1, <2>2 DEF DriveTree, Parent
<1>5. \A j \in Ids : remote'[j] = remote[j] \/ j \in afterToken' \cap afterNew'
  BY <1>1, <1>2
<1>6. \A j \in Ids : remote[j].state # "none" =>
         /\ remote'[j].state # "none" /\ remote'[j].name = remote[j].name
         /\ remote'[j].parent = remote[j].parent
         /\ remote'[j].state = "live" => remote[j].state = "live"
         /\ remote'[j].state \in {"live", "trashed"} => remote[j].state \in {"live", "trashed"}
  <2>1. i # Root
    BY Facts DEF Good
  <2> QED
    BY <1>1, <2>1 DEF Live, Exists
<1> QED
  BY <1>2, <1>4, <1>5, <1>6 DEF DriveGoes

\* Nothing is left in a folder that is deleted.
LEMMA DeleteGoes ==
    ASSUME TInv, IInv, Good, NEW i \in Ids, Exists(i), DeletePermanently(i)
    PROVE  /\ DriveGoes
           /\ remote'[i].state = "deleted"
           /\ \A j \in Ids : remote'[j].version = remote[j].version
           /\ \A j \in Ids : remote[j].state = "none" => remote'[j] = remote[j]
<1> DEFINE gone == {i} \cup {c \in Ids : remote[c].parent = i /\ Exists(c)}
<1>1. /\ remote' = [c \in Ids |-> IF c \in gone THEN [remote[c] EXCEPT !.state = "deleted"]
                                               ELSE remote[c]]
      /\ Changed(gone)
  BY DEF DeletePermanently
<1>2. i # Root /\ remote[i].state \in {"live", "trashed"} /\ i \in gone /\ gone \subseteq Ids
  BY Facts DEF Good, Exists
<1>3. \A c \in gone : remote[c].state # "none"
  BY <1>2, Facts DEF Good, Exists
<1>4. \A c \in Ids : Exists(c) /\ remote[c].parent = i => c \in gone
  OBVIOUS
<1>5. \A c \in gone : c # i => Parent(c) = i
  BY DEF Parent
<1> HIDE DEF gone
<1>6. \A c \in Ids :
        /\ remote'[c].name = remote[c].name /\ remote'[c].parent = remote[c].parent
        /\ remote'[c].version = remote[c].version
        /\ remote'[c].state = IF c \in gone THEN "deleted" ELSE remote[c].state
        /\ c \notin gone => remote'[c] = remote[c]
  <2>1. \A c \in Ids : remote[c] \in Item
    BY DEF IInv, Typed
  <2> QED
    BY <1>1, <2>1 DEF Item
<1>7. afterToken' = afterToken \cup gone /\ afterNew' = afterNew \cup gone
  BY <1>1 DEF Changed
<1>8. DriveTree'
  <2>1. ASSUME NEW j \in Ids, remote'[j].state # "none"
        PROVE  /\ IsDir(j)' \/ remote'[j].version # 0
               /\ remote'[j].parent # Root =>
                    /\ IsDir(Parent(j))' /\ remote'[remote'[j].parent].state # "none"
                    /\ Exists(j)' => Exists(Parent(j))'
    <3>1. remote[j].state # "none"
      BY <1>3, <1>6, <2>1
    <3>2. IsDir(j)' \/ remote'[j].version # 0
      BY <1>6, <3>1 DEF Good, DriveTree, IsDir
    <3>3. ASSUME remote[j].parent # Root
          PROVE  /\ IsDir(Parent(j))' /\ remote'[remote[j].parent].state # "none"
                 /\ Exists(j)' => Exists(Parent(j))'
      <4>1. PICK f \in Ids : f = remote[j].parent
        BY <3>3, Facts DEF Good, Parent
      <4>2. IsDir(f) /\ remote[f].state # "none" /\ (Exists(j) => Exists(f))
        BY <3>1, <3>3, <4>1 DEF Good, DriveTree, Parent
      <4>3. IsDir(f)' /\ remote'[f].state # "none"
        BY <1>6, <4>2 DEF IsDir
      <4>4. ASSUME Exists(j)' PROVE Exists(f)'
        <5>1. j # Root /\ f # Root
          BY Facts DEF Good
        <5>2. Exists(j) /\ j \notin gone
          BY <1>6, <4>4, <5>1 DEF Exists
        <5>3. f # i
          BY <1>4, <4>1, <5>2
        <5>4. f \notin gone
          BY <1>2, <1>5, <4>2, <5>3, Facts DEF Good
        <5> QED
          BY <1>6, <4>2, <5>2, <5>4 DEF Exists
      <4>5. remote'[j].parent = f
        BY <1>6, <4>1
      <4> QED
        BY <4>1, <4>3, <4>4, <4>5 DEF Parent, IsDir, Exists
    <3> QED
      BY <1>6, <3>2, <3>3
  <2>2. ASSUME NEW j \in afterToken' \cup afterNew' PROVE remote'[j].state # "none"
    <3>1. j \in Ids /\ (remote[j].state # "none" \/ j \in gone)
      BY <1>2, <1>7, Facts DEF Good, DriveTree
    <3> QED
      BY <1>6, <3>1
  <2> QED
    BY <2>1, <2>2 DEF DriveTree, Parent
<1>9. \A j \in Ids : remote'[j] = remote[j] \/ j \in afterToken' \cap afterNew'
  BY <1>6, <1>7
<1>10. \A j \in Ids : remote[j].state # "none" =>
         /\ remote'[j].state # "none" /\ remote'[j].name = remote[j].name
         /\ remote'[j].parent = remote[j].parent
         /\ remote'[j].state = "live" => remote[j].state = "live"
         /\ remote'[j].state \in {"live", "trashed"} => remote[j].state \in {"live", "trashed"}
  BY <1>6
<1>11. DriveGoes
  BY <1>7, <1>8, <1>9, <1>10 DEF DriveGoes
<1>12. \A j \in Ids : remote[j].state = "none" => remote'[j] = remote[j]
  BY <1>3, <1>6
<1> QED
  BY <1>2, <1>6, <1>11, <1>12

-----------------------------------------------------------------------------
(* The users of Drive.                                                     *)

\* What they do: a content they write is the newest, and what they create is a file.
UsersOfDrive ==
    /\ DriveGoes
    /\ \A j \in Ids : remote[j].state # "none" =>
         remote'[j].version \in {remote[j].version, clock + 1}
    /\ \A j \in Ids : remote[j].state = "none" /\ remote'[j].state # "none" =>
         ~IsDir(j)' /\ Live(j)'

LEMMA OldItemParts ==
    ASSUME TInv, IInv, Good, NEW i \in Ids, NEW version \in Nat, NEW state \in States
    PROVE  /\ remote[i] \in Item
           /\ [remote[i] EXCEPT !.version = version] \in Item
           /\ [remote[i] EXCEPT !.version = version].name = remote[i].name
           /\ [remote[i] EXCEPT !.version = version].parent = remote[i].parent
           /\ [remote[i] EXCEPT !.version = version].state = remote[i].state
           /\ [remote[i] EXCEPT !.version = version].version = version
           /\ [remote[i] EXCEPT !.state = state] \in Item
           /\ [remote[i] EXCEPT !.state = state].name = remote[i].name
           /\ [remote[i] EXCEPT !.state = state].parent = remote[i].parent
           /\ [remote[i] EXCEPT !.state = state].state = state
           /\ [remote[i] EXCEPT !.state = state].version = remote[i].version
           /\ remote[i].state # "none" => IsDir(i) \/ remote[i].version # 0
           /\ remote[i].state # "none" /\ remote[i].parent # Root =>
                /\ remote[i].parent # i /\ IsDir(remote[i].parent)
                /\ Exists(i) => Exists(remote[i].parent)
<1>1. remote[i] \in Item
  BY DEF IInv, Typed
<1>2. \A f : f = remote[i].parent /\ remote[i].state # "none" /\ f # Root =>
        f # i /\ IsDir(f) /\ (Exists(i) => Exists(f))
  <2> SUFFICES ASSUME NEW f, f = remote[i].parent, remote[i].state # "none", f # Root
               PROVE  f # i /\ IsDir(f) /\ (Exists(i) => Exists(f))
    OBVIOUS
  <2>1. IsDir(f) /\ (Exists(i) => Exists(f))
    BY DEF Good, DriveTree, Parent
  <2>2. f # i
    BY <2>1, Facts DEF Good, Parent
  <2> QED
    BY <2>1, <2>2
<1>3. remote[i].state # "none" => IsDir(i) \/ remote[i].version # 0
  BY DEF Good, DriveTree
<1> QED
  BY <1>1, <1>2, <1>3 DEF Item, States

LEMMA RemoteUsersGo ==
    ASSUME TInv, IInv, Good, NEW i \in Ids,
           \/ RemoteWrites(i) \/ RemoteTrashes(i) \/ RemoteDeletes(i)
           \/ \E n \in FileNames, dir \in {Root} \cup Ids : RemoteCreates(i, n, dir)
    PROVE  UsersOfDrive
<1>1. clock \in Nat /\ clock + 1 \in Nat /\ clock + 1 # 0 /\ i # Root
  <2>1. clock \in Nat /\ i # Root
    BY Facts DEF Good
  <2> QED
    BY <2>1
<1>2. CASE RemoteWrites(i)
  <2> DEFINE item == [remote[i] EXCEPT !.version = clock + 1]
  <2>1. Live(i) /\ ~IsDir(i) /\ Put(i, item) /\ Changed({i})
    BY <1>2 DEF RemoteWrites
  <2>2. /\ item \in Item /\ item.name = remote[i].name /\ item.parent = remote[i].parent
        /\ item.state = remote[i].state /\ item.version = clock + 1
        /\ remote[i].parent # Root =>
             /\ remote[i].parent # i /\ IsDir(remote[i].parent)
             /\ Exists(remote[i].parent)
    <3>1. "live" \in States /\ Exists(i) /\ remote[i].state # "none"
      BY <2>1 DEF States, Live, Exists
    <3> QED
      BY <1>1, <3>1, OldItemParts
  <2> HIDE DEF item
  <2>3. DriveGoes
    BY <1>1, <2>1, <2>2, PutGoes DEF Live, Exists
  <2>4. \A j \in Ids : remote'[j] = IF j = i THEN item ELSE remote[j]
    BY <2>1 DEF Put, IInv, Typed
  <2> QED
    BY <2>1, <2>2, <2>3, <2>4 DEF UsersOfDrive, Live
<1>3. CASE RemoteTrashes(i)
  <2> DEFINE item == [remote[i] EXCEPT !.state = "trashed"]
  <2>1. Live(i) /\ Put(i, item)
    BY <1>3 DEF RemoteTrashes
  <2>2. PICK ids \in {{i}, {i} \cup Children(i)} : Changed(ids)
    BY <1>3 DEF RemoteTrashes
  <2>3. /\ item \in Item /\ item.name = remote[i].name /\ item.parent = remote[i].parent
        /\ item.state = "trashed" /\ item.version = remote[i].version
        /\ IsDir(i) \/ remote[i].version # 0
        /\ remote[i].parent # Root =>
             /\ remote[i].parent # i /\ IsDir(remote[i].parent)
             /\ Exists(remote[i].parent)
    BY <1>1, <2>1, OldItemParts DEF Live, Exists, States
  <2>4. ids \in SUBSET Ids /\ i \in ids /\ \A j \in ids : j # i => remote[j].state # "none"
    BY <2>2 DEF Children, Live
  <2> HIDE DEF item
  <2>5. DriveGoes
    BY <2>1, <2>2, <2>3, <2>4, PutGoes DEF IsDir, Live, Exists
  <2>6. \A j \in Ids : remote'[j] = IF j = i THEN item ELSE remote[j]
    BY <2>1 DEF Put, IInv, Typed
  <2> QED
    BY <2>1, <2>3, <2>5, <2>6 DEF UsersOfDrive, Live
<1>4. CASE RemoteDeletes(i)
  <2>1. Exists(i) /\ DeletePermanently(i)
    BY <1>4 DEF RemoteDeletes
  <2> QED
    BY <2>1, DeleteGoes DEF UsersOfDrive
<1>5. ASSUME NEW n \in FileNames, NEW dir \in {Root} \cup Ids, RemoteCreates(i, n, dir)
      PROVE  UsersOfDrive
  <2> DEFINE item == [name |-> n, parent |-> dir, version |-> clock + 1, state |-> "live"]
  <2>1. /\ remote[i].state = "none" /\ Put(i, item) /\ Changed({i})
        /\ dir # Root => Live(dir) /\ IsDir(dir)
    BY <1>5 DEF RemoteCreates, FreshIds
  <2>2. /\ item \in Item /\ item.name = n /\ item.parent = dir /\ item.version = clock + 1
        /\ item.state = "live"
    BY <1>1 DEF Item, Names
  <2>3. dir # Root => dir # i /\ Exists(dir)
    BY <2>1 DEF Live, Exists
  <2>5. n \notin DirNames
    BY NamesAssumption
  <2> HIDE DEF item
  <2>4. DriveGoes
    BY <1>1, <2>1, <2>2, <2>3, PutGoes
  <2>6. \A j \in Ids : remote'[j] = IF j = i THEN item ELSE remote[j]
    BY <2>1 DEF Put, IInv, Typed
  <2> QED
    BY <2>1, <2>2, <2>4, <2>5, <2>6 DEF UsersOfDrive, Live, IsDir
<1> QED
  BY <1>2, <1>3, <1>4, <1>5

\* The moves and the starts there were.
LEMMA OnceStays ==
    ASSUME Good, left'["move"] = left["move"], left'["start"] = left["start"], pc' = pc
    PROVE  Once'
BY DEF Good, Once

LEMMA EditSpends ==
    ASSUME TInv, NEW kind \in {"write", "remove", "remote write", "trash", "delete"}, Edit(kind)
    PROVE  left'["move"] = left["move"] /\ left'["start"] = left["start"]
<1>1. left \in [Kinds -> Nat] /\ "move" \in Kinds /\ "start" \in Kinds
  BY DEF TInv, BudgetTyped, Kinds
<1> QED
  BY <1>1 DEF Edit

\* A listing names items, and where they are.
LEMMA ListingFacts ==
    ASSUME TInv, IInv, Good, NEW k \in 1..Len(frames), NEW c \in frames[k].rest
    PROVE  /\ c.id \in Ids /\ remote[c.id].state # "none" /\ remote[c.id].name = c.name
           /\ c.md5 \in Nat /\ c.name \in Names
<1>1. frames[k] \in Frame
  BY ElementOfSeq DEF IInv, Typed
<1>2. c \in Child
  BY <1>1 DEF Frame
<1> QED
  BY <1>2 DEF IInv, FramesOK, ListingOK, Child

\* A content that was fetched stays one of the item's.
LEMMA FetchedStays ==
    ASSUME TInv, IInv, Good, UsersOfDrive, NEW i \in Ids, remote[i].state # "none",
           NEW md5 \in Nat, NEW v \in Nat, Fetched(i, md5, v)
    PROVE  /\ md5 <= v /\ v <= remote'[i].version /\ v # 0
           /\ v = remote'[i].version \/ i \in afterToken'
<1>1. remote[i].version \in Nat /\ remote[i].version <= clock /\ clock \in Nat
  BY Facts DEF Good
<1>2. remote'[i].version \in {remote[i].version, clock + 1}
  BY DEF UsersOfDrive
<1>3. remote'[i] = remote[i] \/ i \in afterToken'
  BY DEF UsersOfDrive, DriveGoes
<1>4. afterToken \subseteq afterToken'
  BY DEF UsersOfDrive, DriveGoes
<1> QED
  BY <1>1, <1>2, <1>3, <1>4 DEF Fetched

LEMMA BeforeStays ==
    ASSUME TInv, IInv, Good, Initial, UsersOfDrive,
           UNCHANGED <<local, rows, twice, queue, errors, workerVars>>
    PROVE  Before'
<1>1. Before /\ UNCHANGED <<pc, frames, job, content, batch>>
  BY DEF Good, workerVars
<1>2. queue' = <<>> /\ errors' = {}
  BY <1>1 DEF Before, ItemsKnown, RowsPlaced, FramesPlaced, JobPlaced
<1>3. /\ \A i \in Ids : remote[i].state # "none" =>
           /\ remote'[i].state # "none" /\ remote'[i].name = remote[i].name
           /\ remote'[i].parent = remote[i].parent
           /\ remote[i].version <= remote'[i].version
           /\ remote'[i].version \in Nat /\ remote[i].version \in Nat
      /\ \A i \in Ids : remote'[i] = remote[i] \/ i \in afterToken'
      /\ afterToken \subseteq afterToken'
  <2>1. \A x, y \in Nat : x <= y => x <= y + 1 /\ y + 1 \in Nat /\ x <= x
    OBVIOUS
  <2>2. \A i \in Ids : remote[i].version \in Nat /\ remote[i].version <= clock /\ clock \in Nat
    BY Facts DEF Good
  <2>3. \A i \in Ids : remote[i].state # "none" =>
          remote'[i].version \in {remote[i].version, clock + 1}
    BY DEF UsersOfDrive
  <2>4. \A i \in Ids : remote[i].state # "none" =>
          remote[i].version <= remote'[i].version /\ remote'[i].version \in Nat
    BY <2>1, <2>2, <2>3
  <2> QED
    BY <2>2, <2>4 DEF UsersOfDrive, DriveGoes
<1>4. ASSUME NEW i \in Ids, remote'[i].state # "none"
      PROVE  /\ Live(i)' \/ i \in afterToken'
             /\ IsDir(i)' => rows[<<remote'[i].name>>].id = i
  <2>1. CASE remote[i].state = "none"
    BY <1>4, <2>1 DEF UsersOfDrive
  <2>2. CASE remote[i].state # "none"
    BY <1>1, <1>3, <2>2 DEF Before, ItemsKnown, RowsPlaced, FramesPlaced, JobPlaced, Live, IsDir
  <2> QED
    BY <2>1, <2>2
<1>5. \A p, i : i \in Ids /\ remote[i].state # "none" /\ AtPlace(p, i) => AtPlace(p, i)'
  BY <1>3 DEF AtPlace, Parent, ParentOf
<1>6. \A p \in Paths : rows[p].id # 0 => AtPlace(p, rows[p].id)'
  BY <1>1, <1>5, Facts DEF Good, Before, RowsPlaced
<1>7. ASSUME NEW p \in Files, rows[p].id # 0
      PROVE  /\ local[p] # 0
             /\ ~AtWork(p)' => rows[p].md5 <= local[p]
                               /\ local[p] <= remote'[rows[p].id].version
  <2>1. rows[p].id \in Ids /\ remote[rows[p].id].state # "none" /\ local[p] \in Nat
    BY <1>7, Facts DEF Good, Paths
  <2>2. AtWork(p)' = AtWork(p)
    BY <1>1 DEF AtWork
  <2>3. local[p] # 0 /\ (~AtWork(p) => rows[p].md5 <= local[p]
                                       /\ local[p] <= remote[rows[p].id].version)
    BY <1>1, <1>7 DEF Before, ItemsKnown, RowsPlaced, FramesPlaced, JobPlaced
  <2>4. \A x, y, z \in Nat : x <= y /\ y <= z => x <= z
    OBVIOUS
  <2> QED
    BY <1>3, <2>1, <2>2, <2>3, <2>4
<1>8. ASSUME NEW k \in 1..Len(frames)
      PROVE  /\ frames[k].at \in Dirs => rows[frames[k].at].id # 0
             /\ \A c \in frames[k].rest :
                  /\ remote'[c.id].parent
                       = IF frames[k].at = <<>> THEN Root ELSE rows[frames[k].at].id
                  /\ c.md5 <= remote'[c.id].version
  <2>1. frames[k].at \in Dirs => rows[frames[k].at].id # 0
    BY <1>1 DEF Before, ItemsKnown, RowsPlaced, FramesPlaced, JobPlaced
  <2>2. ASSUME NEW c \in frames[k].rest
        PROVE  /\ remote'[c.id].parent
                    = IF frames[k].at = <<>> THEN Root ELSE rows[frames[k].at].id
               /\ c.md5 <= remote'[c.id].version
    <3>1. c.id \in Ids /\ remote[c.id].state # "none" /\ c.md5 \in Nat
      BY ListingFacts
    <3>2. /\ Parent(c.id) = IF frames[k].at = <<>> THEN Root ELSE rows[frames[k].at].id
          /\ c.md5 <= remote[c.id].version
      BY <1>1 DEF Before, ItemsKnown, RowsPlaced, FramesPlaced, JobPlaced
    <3>3. \A x, y, z \in Nat : x <= y /\ y <= z => x <= z
      OBVIOUS
    <3> QED
      BY <1>3, <3>1, <3>2, <3>3 DEF Parent
  <2> QED
    BY <2>1, <2>2
<1>9. pc = "list" => job.id = IF job.path = <<>> THEN Root ELSE rows[job.path].id
  BY <1>1 DEF Before, ItemsKnown, RowsPlaced, FramesPlaced, JobPlaced
<1>10. pc \in {"mkdir", "keep dir", "fetch", "write", "keep"} =>
         job.id \in Ids /\ remote[job.id].state # "none" /\ job.md5 \in Nat
  <2>1. pc \in {"mkdir", "keep dir", "fetch", "write", "keep"} =>
          job.id \in Ids /\ remote[job.id].state # "none"
    BY DEF IInv, JobOK, OfKind
  <2>2. job.md5 \in Nat
    <3>1. job.md5 \in Happened
      BY DEF TInv, JobTyped
    <3>2. clock \in Nat
      BY Facts DEF Good
    <3> QED
      BY <3>1, <3>2 DEF Happened
  <2> QED
    BY <2>1, <2>2
<1>11. pc \in {"mkdir", "keep dir", "fetch", "write", "keep"} => AtPlace(job.path, job.id)'
  <2>1. pc \in {"mkdir", "keep dir", "fetch", "write", "keep"} => AtPlace(job.path, job.id)
    BY <1>1 DEF Before, ItemsKnown, RowsPlaced, FramesPlaced, JobPlaced
  <2> QED
    BY <1>1, <1>3, <1>10, <2>1 DEF AtPlace, Parent, ParentOf
<1>12. pc = "fetch" => job.md5 <= remote'[job.id].version
  <2>1. \A x, y, z \in Nat : x <= y /\ y <= z => x <= z
    OBVIOUS
  <2> QED
    BY <1>1, <1>3, <1>10, <2>1 DEF Before, ItemsKnown, RowsPlaced, FramesPlaced, JobPlaced
<1>13. pc = "write" => Fetched(job.id, job.md5, content)'
  <2>1. content \in Nat
    BY DEF IInv, Typed
  <2> QED
    BY <1>1, <1>10, <2>1, FetchedStays DEF Before, ItemsKnown, RowsPlaced, FramesPlaced,
         JobPlaced, Fetched
<1>14. pc = "keep" => Fetched(job.id, job.md5, local[job.path])'
  <2>1. pc = "keep" => local[job.path] \in Nat
    BY Facts DEF Good, TInv, JobTyped, FilePcs, Paths
  <2> QED
    BY <1>1, <1>10, <2>1, FetchedStays DEF Before, ItemsKnown, RowsPlaced, FramesPlaced,
         JobPlaced, Fetched
<1> QED
  BY <1>1, <1>2, <1>4, <1>6, <1>7, <1>8, <1>9, <1>11, <1>12, <1>13, <1>14
     DEF Before, ItemsKnown, RowsPlaced, FramesPlaced, JobPlaced, Parent

\* A row still says what Drive holds only if Drive holds what it did.
LEMMA RowsTrueOnDrive ==
    ASSUME TInv, IInv, Good, Watching, DriveGoes, StaysAtWork,
           UNCHANGED <<local, rows, queue, errors>>,
           \A p \in Files : rows[p].id # 0 =>
             \/ remote'[rows[p].id].version = remote[rows[p].id].version
             \/ remote'[rows[p].id].version # rows[p].md5
             \/ AtWork(p)'
    PROVE  RowsTrue'
<1> SUFFICES ASSUME NEW p \in Files, rows[p].id # 0, Live(rows[p].id)',
                    remote'[rows[p].id].version = rows[p].md5, ~Excused(p)', ~AtWork(p)'
             PROVE  local[p] = remote'[rows[p].id].version
  BY DEF RowsTrue, Live, Excused, Waits, AtWork
<1>1. rows[p].id \in Ids /\ remote[rows[p].id].state # "none"
  BY Facts DEF Good, Paths
<1>2. Live(rows[p].id) /\ remote'[rows[p].id].version = remote[rows[p].id].version
  BY <1>1 DEF DriveGoes, Live
<1>3. ~Excused(p) /\ ~AtWork(p)
  BY DEF Excused, Waits, AtWork, StaysAtWork
<1> QED
  BY <1>2, <1>3 DEF Good, During, RowsTrue

LEMMA DuringOnDrive ==
    ASSUME TInv, IInv, Good, Watching, UsersOfDrive,
           UNCHANGED <<local, rows, twice, queue, errors, workerVars>>
    PROVE  During'
<1>1. During /\ UNCHANGED <<pc, frames, job, content, batch>> /\ DriveGoes
  BY DEF Good, workerVars, UsersOfDrive
<1>2. Vanished' /\ QueueOrder'
  BY <1>1 DEF During, Vanished, QueueOrder, Queued, Answered
<1>3. RowsTrue'
  <2>1. ASSUME NEW p \in Files, rows[p].id # 0
        PROVE  \/ remote'[rows[p].id].version = remote[rows[p].id].version
               \/ remote'[rows[p].id].version # rows[p].md5
    <3>1. /\ rows[p].id \in Ids /\ remote[rows[p].id].state # "none"
          /\ rows[p].md5 \in Nat /\ rows[p].md5 <= clock /\ clock \in Nat
      BY <2>1, Facts DEF Good, Paths
    <3> QED
      BY <3>1 DEF UsersOfDrive
  <2> QED
    BY <1>1, <2>1, RowsTrueOnDrive DEF StaysAtWork
<1>4. \A i \in Ids : remote[i].state # "none" =>
        /\ remote'[i].parent = remote[i].parent /\ remote'[i].name = remote[i].name
        /\ ~Live(i) => ~Live(i)'
        /\ ~Exists(i) => ~Exists(i)'
  BY <1>1 DEF DriveGoes, Live, Exists
<1>5. LocalWork'
  <2>1. LocalWork
    BY <1>1 DEF During
  <2>2. job.path \in Paths \cup {<<>>} /\ \A p \in Files : p \in Paths
    BY DEF TInv, JobTyped, Paths
  <2>3. /\ pc = "forget" => ~Exists(job.id)'
        /\ pc = "record" =>
             /\ job.path \in Files => LinkHolds(job.path, job.id)'
             /\ job.path \in Dirs => IsDir(job.id)'
    <3>1. ASSUME pc = "forget" PROVE ~Exists(job.id)'
      <4>1. job.path \in Paths /\ rows[job.path].id = job.id /\ ~Exists(job.id)
        BY <2>1, <3>1 DEF LocalWork, TInv, JobTyped, LocalPcs
      <4>2. job.id # 0
        BY <4>1 DEF Exists, Root
      <4>3. job.id \in Ids /\ remote[job.id].state # "none"
        BY <4>1, <4>2, Facts DEF Good
      <4> QED
        BY <1>1, <1>4, <4>1, <4>3 DEF Exists
    <3>2. ASSUME pc = "record"
          PROVE  /\ job.path \in Files => LinkHolds(job.path, job.id)'
                 /\ job.path \in Dirs => IsDir(job.id)'
      <4>1. job.id \in Ids /\ remote[job.id].state # "none"
        BY <3>2 DEF IInv, JobOK, OfKind
      <4>2. PICK f : f = remote[job.id].parent
        OBVIOUS
      <4>3. remote'[job.id].parent = f /\ remote'[job.id].name = remote[job.id].name
        BY <1>4, <4>1, <4>2
      <4>4. f # Root => f \in Ids /\ remote[f].state # "none"
        BY <4>1, <4>2, Facts DEF Good, DriveTree, Parent
      <4>5. job.path \in Files => (f # Root /\ Live(f) => Linked(job.path, f))
        BY <2>1, <3>2, <4>2 DEF LocalWork, LinkHolds, Parent
      <4>6. job.path \in Files => (f # Root /\ Live(f)' => Linked(job.path, f))
        BY <1>4, <4>4, <4>5
      <4> QED
        BY <1>1, <2>1, <3>2, <4>3, <4>6 DEF LocalWork, LinkHolds, Linked, Parent, IsDir, Live
    <3> QED
      BY <3>1, <3>2
  <2> QED
    BY <1>1, <2>1, <2>3 DEF LocalWork, Queued, Waits, RowsOf, Linked
<1>6. PollWork'
  <2>1. PollWork
    BY <1>1 DEF During
  <2>2. pc \in {"remove", "unrow"} /\ job.path \in Dirs => ~Live(job.id)'
    <3> SUFFICES ASSUME pc \in {"remove", "unrow"}, job.path \in Dirs PROVE ~Live(job.id)'
      OBVIOUS
    <3>1. rows[job.path].id = job.id /\ ~Live(job.id) /\ job.path \in Paths /\ job.id # 0
      BY <2>1 DEF PollWork, RowPcs, PollPcs, TInv, JobTyped
    <3>2. job.id \in Ids /\ remote[job.id].state # "none"
      BY <3>1, Facts DEF Good
    <3> QED
      BY <1>1, <1>4, <3>1, <3>2 DEF Live
  <2>3. afterToken \subseteq afterToken'
    BY <1>1 DEF DriveGoes
  <2> QED
    BY <1>1, <2>1, <2>2, <2>3 DEF PollWork, Waits, Excused
<1> QED
  BY <1>2, <1>3, <1>5, <1>6 DEF During

-----------------------------------------------------------------------------
(* The local tree is edited while the folder is watched.                   *)

\* What is edited has left an event that says so, and nothing else is lost.
EditsReported ==
    /\ \A q \in Paths :
         \/ local'[q] = local[q]
         \/ local'[q] # 0 /\ Queued(Modified(q))'
         \/ local'[q] = 0 /\ Queued(Removed(q))'
    /\ \A e : Queued(e) => Queued(e)'
    /\ \A q : Waits(q) => Waits(q)'
    /\ QueueOrder'
    /\ LocalTree'

LEMMA QueuedWaits ==
    ASSUME NEW p
    PROVE  /\ Queued(Modified(p)) \/ Queued(Removed(p)) => Waits(p)
           /\ Queued(Modified(p))' \/ Queued(Removed(p))' => Waits(p)'
BY DEF Queued, Waits, Modified, Removed

LEMMA LocalEditKeeps ==
    ASSUME TInv, IInv, Good, Watching, EditsReported, errors \subseteq errors',
           UNCHANGED <<driveVars, rows, twice, job, batch>>,
           \/ pc' = pc
           \/ pc = "remove" /\ pc' = "unrow"
           \/ pc = "rewrite" /\ pc' = "rekeep"
    PROVE  /\ twice' = {} /\ LocalTree' /\ DriveTree' /\ RowKinds' /\ RowLinks'
           /\ NoneForgotten' /\ BatchFolders' /\ Vanished' /\ QueueOrder' /\ RowsTrue'
<1>1. UNCHANGED <<remote, afterToken, afterNew>> /\ During
  BY DEF driveVars, Good
<1>2. /\ twice' = {} /\ LocalTree' /\ DriveTree' /\ RowKinds' /\ RowLinks' /\ QueueOrder'
  <2>1. twice' = {} /\ LocalTree' /\ QueueOrder'
    BY DEF Good, EditsReported
  <2>2. DriveTree'
    BY <1>1 DEF Good, DriveTree, IsDir, Parent, Exists
  <2>3. RowKinds' /\ RowLinks'
    BY <1>1 DEF Good, RowKinds, RowLinks, LinkHolds, IsDir, Live, Parent, Linked
  <2> QED
    BY <2>1, <2>2, <2>3
<1>3. \A q \in Paths : local'[q] = local[q] \/ Excused(q)'
  BY QueuedWaits DEF EditsReported, Excused
<1>4. \A q : Excused(q) => Excused(q)'
  BY DEF EditsReported, Excused
<1>5. \A p : AtWork(p) => AtWork(p)'
  BY DEF AtWork, LocalPcs
<1>6. \A p : local'[p] = local[p] /\ OnCourse(p) => OnCourse(p)'
  <2>1. After' = After
    BY <1>1 DEF After, Applying, PollPcs
  <2>2. \A i : Coming(i) => Coming(i)'
    BY <2>1 DEF Coming, RowPcs, PollPcs
  <2>3. \A f : Going(f) => Going(f)'
    BY <2>1 DEF Going
  <2>4. \A p, i : InFolder(p, i) => InFolder(p, i)'
    BY <1>1, <2>3 DEF InFolder, Linked, Parent, Live
  <2> SUFFICES ASSUME NEW p, local'[p] = local[p], OnCourse(p) PROVE OnCourse(p)'
    OBVIOUS
  <2>5. PICK i : i = rows[p].id
    OBVIOUS
  <2>6. Coming(i) => Coming(i)'
    BY <2>2
  <2>7. Live(i) /\ local[p] = remote[i].version /\ InFolder(p, i) =>
          Live(i)' /\ local'[p] = remote'[i].version /\ InFolder(p, i)'
    BY <1>1, <2>4 DEF Live
  <2> QED
    BY <2>5, <2>6, <2>7 DEF OnCourse
<1>7. NoneForgotten'
  BY <1>3, <1>4, <1>5, <1>6 DEF Good, NoneForgotten, Paths
<1>8. BatchFolders'
  <2>1. pc' \notin Applying => pc \notin Applying
    BY DEF Applying, PollPcs
  <2> QED
    BY <1>1, <2>1 DEF Good, BatchFolders, IsDir, Parent, Live, Linked
<1>9. Vanished'
  <2> SUFFICES ASSUME NEW p \in Files, rows[p].id # 0, local'[p] = 0
               PROVE  \/ Queued(Removed(p))' \/ p \in errors'
                      \/ (pc' \in {"erase", "forget"} /\ job.path = p)
    BY DEF Vanished, Queued, Removed
  <2>1. CASE local[p] = 0
    BY <1>1, <2>1 DEF During, Vanished, EditsReported
  <2>2. CASE local[p] # 0
    BY <2>2 DEF EditsReported, Paths
  <2> QED
    BY <2>1, <2>2
<1>10. RowsTrue'
  <2> SUFFICES ASSUME NEW p \in Files, rows[p].id # 0, Live(rows[p].id),
                      remote[rows[p].id].version = rows[p].md5
               PROVE  local'[p] = remote[rows[p].id].version \/ Excused(p)' \/ AtWork(p)'
    BY <1>1 DEF RowsTrue, Live, Excused, Waits, AtWork
  <2>1. local[p] = remote[rows[p].id].version \/ Excused(p) \/ AtWork(p)
    BY <1>1 DEF During, RowsTrue
  <2> QED
    BY <1>3, <1>4, <1>5, <2>1 DEF Paths
<1> QED
  BY <1>2, <1>7, <1>8, <1>9, <1>10

LEMMA UserEditKeepsWork ==
    ASSUME TInv, IInv, Good, Watching, EditsReported,
           UNCHANGED <<driveVars, rows, workerVars, errors>>
    PROVE  LocalWork' /\ PollWork'
<1>1. /\ UNCHANGED <<remote, afterToken, afterNew, pc, job, content>>
      /\ LocalWork /\ PollWork
  BY DEF driveVars, workerVars, Good, During
<1>2. \A q \in Files : \/ local'[q] = local[q]
                       \/ local'[q] # 0 /\ Queued(Modified(q))' /\ Waits(q)'
                       \/ local'[q] = 0 /\ Queued(Removed(q))' /\ Waits(q)'
  BY QueuedWaits DEF EditsReported, Paths
<1>3. /\ \A e : Queued(e) => Queued(e)'
      /\ \A q : Waits(q) => Waits(q)'
      /\ \A q : Excused(q) => Excused(q)'
  BY DEF EditsReported, Excused
<1>4. LocalWork'
  <2>1. job.path \in Files =>
          /\ local'[job.path] # 0 =>
               \/ Queued(Modified(job.path))'
               \/ local'[job.path] = local[job.path]
          /\ local'[job.path] = 0 =>
               \/ Queued(Removed(job.path))'
               \/ local'[job.path] = local[job.path]
          /\ local'[job.path] = local[job.path] \/ Waits(job.path)'
    BY <1>1, <1>2 DEF Queued, Waits, Modified, Removed
  <2>2. /\ Queued(Modified(job.path)) => Queued(Modified(job.path))'
        /\ Queued(Removed(job.path)) => Queued(Removed(job.path))'
        /\ Waits(job.path) => Waits(job.path)'
    BY <1>1, <1>3 DEF Queued, Waits, Modified, Removed
  <2>3. /\ Linked(job.path, job.parent)' = Linked(job.path, job.parent)
        /\ LinkHolds(job.path, job.id)' = LinkHolds(job.path, job.id)
        /\ RowsOf(job.id)' = RowsOf(job.id)
        /\ IsDir(job.id)' = IsDir(job.id)
        /\ Exists(job.id)' = Exists(job.id)
    BY <1>1 DEF Linked, LinkHolds, RowsOf, IsDir, Exists, Live, Parent
  <2>4. /\ pc \in {"erase", "forget"} =>
             /\ rows[job.path].id = job.id
             /\ job.path \in Files /\ local'[job.path] # 0 => Queued(Modified(job.path))'
        /\ pc \in {"read", "upload", "record"} /\ job.path \in Files /\ local'[job.path] = 0 =>
             Queued(Removed(job.path))'
        /\ pc \in {"upload", "record"} /\ job.path \in Files =>
             content # 0 /\ (local'[job.path] = content \/ Waits(job.path)')
    BY <1>1, <2>1, <2>2 DEF LocalWork
  <2>5. /\ pc = "forget" => ~Exists(job.id)'
        /\ pc = "upload" =>
             job.id = rows[job.path].id /\ (job.parent # Root => Linked(job.path, job.parent)')
        /\ pc = "create" => rows[job.path].id = 0
        /\ pc = "record" =>
             /\ RowsOf(job.id)' \subseteq {job.path}
             /\ job.path \in Files =>
                  job.md5 \in {0, content} /\ LinkHolds(job.path, job.id)'
             /\ job.path \in Dirs =>
                  rows[job.path].id = 0 /\ IsDir(job.id)' /\ job.md5 = 0
    BY <1>1, <2>3 DEF LocalWork
  <2> QED
    BY <1>1, <2>4, <2>5 DEF LocalWork
<1>5. PollWork'
  <2>1. /\ Waits(job.path) => Waits(job.path)'
        /\ job.path \in Files => local'[job.path] = local[job.path] \/ Waits(job.path)'
    BY <1>1, <1>2, <1>3 DEF Waits
  <2>2. \A q \in Below(job.path) : Excused(q) => Excused(q)'
    BY <1>3
  <2> QED
    BY <1>1, <2>1, <2>2 DEF PollWork, Live
<1> QED
  BY <1>4, <1>5

LEMMA UserEditKeepsGood ==
    ASSUME TInv, IInv, Good, Watching, EditsReported,
           left'["move"] = left["move"], left'["start"] = left["start"],
           UNCHANGED <<driveVars, dbVars, workerVars, errors>>
    PROVE  Good'
<1>1. /\ UNCHANGED <<rows, twice, job, batch, pc>>
  BY DEF dbVars, workerVars
<1>2. /\ twice' = {} /\ LocalTree' /\ DriveTree' /\ RowKinds' /\ RowLinks'
      /\ NoneForgotten' /\ BatchFolders' /\ Vanished' /\ QueueOrder' /\ RowsTrue'
  BY <1>1, LocalEditKeeps
<1>3. LocalWork' /\ PollWork'
  BY <1>1, UserEditKeepsWork
<1>4. Once' /\ ~Initial'
  BY <1>1, OnceStays DEF Watching, Initial, InitialPcs, LocalPcs, PollPcs
<1> QED
  BY <1>2, <1>3, <1>4 DEF Good, During

LEMMA UserWritesKeepsGood ==
    ASSUME TInv, IInv, Good, ~EditsWhileOff, NEW p \in Paths, UserWrites(p)
    PROVE  Good'
<1>1. /\ Watching /\ HasPlace(p) /\ Notify(Modified(p))
      /\ local' = [local EXCEPT ![p] = clock + 1]
      /\ UNCHANGED <<driveVars, dbVars, workerVars, errors>>
      /\ left'["move"] = left["move"] /\ left'["start"] = left["start"]
  BY EditSpends DEF UserWrites, UserMayEdit
<1>2. /\ queue \in Seq(Event) /\ local \in [Paths -> Nat] /\ clock + 1 # 0
  <2>1. clock \in Nat /\ queue \in Seq(Event) /\ local \in [Paths -> Nat]
    BY Facts DEF Good
  <2> QED
    BY <2>1
<1>3. /\ Queued(Modified(p))' /\ Answered(p)'
      /\ \A e : Queued(e) => Queued(e)'
      /\ \A q : Waits(q) => Waits(q)'
      /\ \A q : Answered(q) => Answered(q)'
  BY <1>1, <1>2, ModifiedReported
<1>4. \A q \in Paths : local'[q] = IF q = p THEN clock + 1 ELSE local[q]
  BY <1>1, <1>2
<1>5. QueueOrder'
  <2> SUFFICES ASSUME NEW q \in Files, local'[q] # 0 PROVE Answered(q)'
    BY DEF QueueOrder, Answered
  <2> QED
    BY <1>1, <1>3, <1>4 DEF Good, During, QueueOrder, Paths
<1>6. LocalTree'
  <2> SUFFICES ASSUME NEW q \in Paths, local'[q] # 0, Len(q) = 2 PROVE local'[Above(q)] # 0
    BY DEF LocalTree, HasPlace
  <2>1. Above(q) \in Paths
    BY PathShape DEF Paths
  <2>2. q = p \/ local[q] # 0
    BY <1>4
  <2>3. local[Above(q)] # 0
    BY <1>1, <2>2 DEF Good, LocalTree, HasPlace
  <2> QED
    BY <1>2, <1>4, <2>1, <2>3
<1>7. EditsReported
  BY <1>2, <1>3, <1>4, <1>5, <1>6 DEF EditsReported
<1> QED
  BY <1>1, <1>7, UserEditKeepsGood

\* What is deleted takes what is below it along.
LEMMA DeletionReported ==
    ASSUME TInv, IInv, Good, Watching, NEW p \in Paths, local[p] # 0, LocalDelete(p)
    PROVE  /\ EditsReported
           /\ \A q \in Paths : local'[q] = IF q \in {p} \cup Below(p) THEN 0 ELSE local[q]
<1>1. queue \in Seq(Event) /\ local \in [Paths -> Nat]
  BY Facts DEF Good
<1>2. /\ \A q \in Paths : local'[q] = IF q \in {p} \cup Below(p) THEN 0 ELSE local[q]
      /\ \A q \in {p} \cup Below(p) : local[q] # 0 => Queued(Removed(q))'
      /\ \A e : Queued(e) => Queued(e)'
      /\ \A q : Waits(q) => Waits(q)'
      /\ \A q : Answered(q) /\ q \notin {p} \cup Below(p) => Answered(q)'
  BY <1>1, RemovalsReported
<1>3. QueueOrder'
  <2> SUFFICES ASSUME NEW q \in Files, local'[q] # 0 PROVE Answered(q)'
    BY DEF QueueOrder, Answered
  <2> QED
    BY <1>2 DEF Good, During, QueueOrder, Paths
<1>4. LocalTree'
  <2> SUFFICES ASSUME NEW q \in Paths, local'[q] # 0, Len(q) = 2 PROVE local'[Above(q)] # 0
    BY DEF LocalTree, HasPlace
  <2>1. Above(q) \in Dirs /\ Above(q) \in Paths /\ Len(Above(q)) = 1
    BY PathShape DEF Paths
  <2>2. q \notin {p} \cup Below(p) /\ local[q] # 0
    BY <1>2
  <2>3. Above(q) # p
    BY <2>2 DEF Below
  <2>4. Above(q) \notin Below(p)
    BY <2>1 DEF Below
  <2>5. local[Above(q)] # 0
    BY <2>2 DEF Good, LocalTree, HasPlace
  <2> QED
    BY <1>2, <2>1, <2>3, <2>4, <2>5
<1> QED
  BY <1>2, <1>3, <1>4 DEF EditsReported

LEMMA UsersKeepGood ==
    ASSUME TInv, IInv, Good, ~EditsWhileOff, Users
    PROVE  Good'
<1>1. ASSUME NEW p \in Paths, UserWrites(p) PROVE Good'
  BY <1>1, UserWritesKeepsGood
<1>2. ASSUME NEW p \in Paths, UserRemoves(p) PROVE Good'
  <2>1. /\ Watching /\ LocalDelete(p) /\ local[p] # 0
        /\ UNCHANGED <<driveVars, dbVars, workerVars, errors>>
        /\ left'["move"] = left["move"] /\ left'["start"] = left["start"]
    BY <1>2, EditSpends DEF UserRemoves, UserMayEdit
  <2> QED
    BY <2>1, DeletionReported, UserEditKeepsGood
<1>3. ASSUME NEW p \in Paths, NEW q \in Paths, UserMoves(p, q) PROVE Good'
  BY <1>3 DEF UserMoves, Edit, Good, Once
<1>4. ASSUME NEW i \in Ids,
             \/ RemoteWrites(i) \/ RemoteTrashes(i) \/ RemoteDeletes(i)
             \/ \E n \in FileNames, dir \in {Root} \cup Ids : RemoteCreates(i, n, dir)
      PROVE  Good'
  <2>1. UsersOfDrive
    BY <1>4, RemoteUsersGo
  <2>2. /\ UNCHANGED <<local, dbVars, workerVars, queue, errors>>
        /\ left'["move"] = left["move"] /\ left'["start"] = left["start"]
    BY <1>4, EditSpends DEF RemoteWrites, RemoteTrashes, RemoteDeletes, RemoteCreates
  <2>3. UNCHANGED <<rows, twice, pc, job, batch>>
    BY <2>2 DEF dbVars, workerVars
  <2>4. /\ twice' = {} /\ LocalTree' /\ DriveTree' /\ RowKinds' /\ RowLinks'
        /\ NoneForgotten' /\ BatchFolders'
    BY <2>1, <2>2, <2>3, DriveKeeps DEF UsersOfDrive, StaysAtWork
  <2>5. Once'
    BY <2>2, <2>3, OnceStays
  <2>6. Initial' => Before'
    BY <2>1, <2>2, <2>3, BeforeStays DEF Initial
  <2>7. Watching' => During'
    BY <2>1, <2>2, <2>3, DuringOnDrive DEF Watching
  <2> QED
    BY <2>4, <2>5, <2>6, <2>7 DEF Good
<1> QED
  BY <1>1, <1>2, <1>3, <1>4 DEF Users

-----------------------------------------------------------------------------
(* The initial pull.                                                       *)

LEMMA InitialStepKeeps ==
    ASSUME TInv, IInv, Good, Initial, pc' \in InitialPcs,
           UNCHANGED <<driveVars, queue, batch, errors>>, twice' = {},
           \A d \in Dirs : rows'[d] = rows[d],
           \A p \in Files : \/ AtWork(p)' \/ OnCourse(p)'
                            \/ local'[p] = local[p] /\ rows'[p] = rows[p] /\ ~AtWork(p),
           Once', LocalTree', RowLinks', Before'
    PROVE  Good'
<1>1. /\ queue = <<>> /\ errors = {} /\ batch = {}
      /\ UNCHANGED <<remote, afterToken, afterNew>>
      /\ pc \notin Applying /\ pc' \notin Applying /\ pc' \notin RowPcs
      /\ pc \notin RowPcs /\ pc \notin {"remove", "unrow"} /\ pc' \notin {"remove", "unrow"}
  BY DEF Good, Before, driveVars, Initial, InitialPcs, Applying, RowPcs, PollPcs, BatchFolders
<1>2. \A p \in Files : ~Excused(p)
  <2>1. Len(queue) = 0 /\ 1..0 = {}
    BY <1>1
  <2> QED
    BY <1>1, <2>1 DEF Excused, Waits
<1>3. After' = After /\ \A i : Coming(i) => Coming(i)'
  BY <1>1 DEF After, Coming
<1>4. \A f : Going(f) => Going(f)'
  BY <1>1, <1>3 DEF Going
<1>5. \A p \in Files : \A i : InFolder(p, i) => InFolder(p, i)'
  BY <1>1, <1>4, PathShape DEF InFolder, Linked, Parent, Live, Paths
<1>6. NoneForgotten'
  <2> SUFFICES ASSUME NEW p \in Files, local'[p] = local[p], rows'[p] = rows[p], ~AtWork(p)
               PROVE  OnCourse(p)'
    BY DEF NoneForgotten
  <2>1. OnCourse(p)
    BY <1>2 DEF Good, NoneForgotten
  <2>2. PICK i : i = rows[p].id
    OBVIOUS
  <2>3. Coming(i) => Coming(i)'
    BY <1>3
  <2>4. Live(i) /\ local[p] = remote[i].version /\ InFolder(p, i) =>
          Live(i)' /\ local'[p] = remote'[i].version /\ InFolder(p, i)'
    BY <1>1, <1>5 DEF Live
  <2> QED
    BY <2>1, <2>2, <2>3, <2>4 DEF OnCourse
<1>7. DriveTree'
  BY <1>1 DEF Good, DriveTree, IsDir, Parent, Exists
<1>8. RowKinds'
  BY <1>1 DEF Good, RowKinds, IsDir
<1>9. BatchFolders'
  BY <1>1 DEF BatchFolders
<1>10. ~Watching'
  BY DEF Watching, InitialPcs, LocalPcs, PollPcs
<1> QED
  BY <1>6, <1>7, <1>8, <1>9, <1>10 DEF Good

\* A step that looks around, and leaves rows and the local tree alone.
LEMMA LookingKeeps ==
    ASSUME TInv, IInv, Good, Initial, pc' \in InitialPcs, pc # "keep", pc' # "keep",
           UNCHANGED <<local, driveVars, rows, twice, queue, batch>>, errors' = {},
           Once', FramesPlaced', JobPlaced'
    PROVE  Good'
<1>1. UNCHANGED <<remote, afterToken, afterNew>> /\ Before /\ errors = {}
  BY DEF driveVars, Good, Before
<1>2. \A p : ~AtWork(p) /\ ~AtWork(p)'
  BY DEF AtWork, Initial, InitialPcs, LocalPcs
<1>3. Before'
  BY <1>1, <1>2 DEF Before, ItemsKnown, RowsPlaced, AtPlace, Live, IsDir, Parent, ParentOf
<1>4. LocalTree' /\ RowLinks' /\ twice' = {}
  BY <1>1 DEF Good, LocalTree, RowLinks, HasPlace, LinkHolds, Live, Parent, Linked
<1> QED
  BY <1>1, <1>2, <1>3, <1>4, InitialStepKeeps

LEMMA StartsGood ==
    ASSUME TInv, IInv, Good, Start
    PROVE  Good'
<1>1. /\ pc = "off" /\ pc' = "list" /\ job' = [NoJob EXCEPT !.id = Root] /\ errors' = {}
      /\ Spend("start")
      /\ UNCHANGED <<local, driveVars, dbVars, frames, content, batch, queue>>
  BY DEF Start
<1>2. frames = <<>> /\ Len(frames) = 0 /\ 1..0 = {}
  BY <1>1 DEF IInv, Typed, Pulling
<1>3. FramesPlaced'
  BY <1>1, <1>2 DEF FramesPlaced
<1>4. job'.id = Root /\ job'.path = <<>>
  BY <1>1 DEF NoJob
<1>5. JobPlaced'
  BY <1>1, <1>4 DEF JobPlaced
<1>6. Once'
  <2>1. left \in [Kinds -> Nat] /\ "move" \in Kinds /\ "start" \in Kinds
    BY DEF TInv, BudgetTyped, Kinds
  <2>2. left'["move"] = left["move"] /\ left'["start"] = left["start"] - 1
    BY <1>1, <2>1 DEF Spend
  <2>3. left["start"] \in Nat /\ left["start"] > 0 /\ left["start"] <= 1
    BY <1>1, <2>1 DEF Spend, Good, Once
  <2> QED
    BY <2>2, <2>3 DEF Good, Once
<1> QED
  BY <1>1, <1>3, <1>5, <1>6, LookingKeeps DEF Initial, InitialPcs, dbVars

LEMMA ListKeepsGood ==
    ASSUME TInv, IInv, Good, PullList
    PROVE  Good'
<1> DEFINE rest == {[id |-> c, name |-> remote[c].name, md5 |-> remote[c].version] :
                      c \in Children(job.id)}
           frame == [at |-> job.path, rest |-> rest]
<1>1. /\ pc = "list" /\ pc' = "pull" /\ frames' = Append(frames, frame) /\ job' = NoJob
      /\ UNCHANGED <<local, driveVars, dbVars, content, batch, queue, errors, userVars>>
  BY DEF PullList, Goes
<1>2. Before /\ UNCHANGED <<remote, rows>>
  BY <1>1 DEF Good, Initial, InitialPcs, driveVars, dbVars
<1>3. \A c \in rest : /\ Parent(c.id) = job.id /\ c.md5 <= remote[c.id].version
  <2> SUFFICES ASSUME NEW i \in Children(job.id)
               PROVE  Parent(i) = job.id /\ remote[i].version <= remote[i].version
    OBVIOUS
  <2>1. i \in Ids /\ remote[i].version \in Nat
    BY Facts DEF Good, Children
  <2> QED
    BY <2>1 DEF Children, Parent
<1>4. /\ job.id = IF job.path = <<>> THEN Root ELSE rows[job.path].id
      /\ job.path \in Dirs => rows[job.path].id # 0
  <2>1. job.path \in Dirs => job.id # 0
    BY <1>1 DEF TInv, JobTyped
  <2>2. job.path \in Dirs => job.path # <<>>
    BY PathShape DEF Paths
  <2> QED
    BY <1>1, <1>2, <2>1, <2>2 DEF Before, JobPlaced
<1> HIDE DEF rest
<1>5. FramesPlaced'
  <2>1. /\ Len(frames) \in Nat /\ Len(frames') = Len(frames) + 1
        /\ \A k \in 1..Len(frames) : frames'[k] = frames[k]
        /\ frames'[Len(frames) + 1] = frame
    BY <1>1, AppendProperties, LenProperties DEF IInv, Typed
  <2>2. \A k \in 1..(Len(frames) + 1) : k \in 1..Len(frames) \/ k = Len(frames) + 1
    BY <2>1
  <2>3. ASSUME NEW k \in 1..Len(frames)
        PROVE  /\ frames'[k].at \in Dirs => rows[frames'[k].at].id # 0
               /\ \A c \in frames'[k].rest :
                    /\ Parent(c.id) = IF frames'[k].at = <<>> THEN Root
                                                           ELSE rows[frames'[k].at].id
                    /\ c.md5 <= remote[c.id].version
    BY <1>2, <2>1 DEF Before, FramesPlaced
  <2>4. ASSUME NEW k, k = Len(frames) + 1
        PROVE  /\ frames'[k].at \in Dirs => rows[frames'[k].at].id # 0
               /\ \A c \in frames'[k].rest :
                    /\ Parent(c.id) = IF frames'[k].at = <<>> THEN Root
                                                           ELSE rows[frames'[k].at].id
                    /\ c.md5 <= remote[c.id].version
    BY <1>3, <1>4, <2>1, <2>4
  <2> QED
    BY <1>2, <2>1, <2>2, <2>3, <2>4 DEF FramesPlaced, Parent
<1>6. JobPlaced'
  BY <1>1 DEF JobPlaced
<1>7. Once' /\ errors' = {}
  BY <1>1, <1>2 DEF Good, Once, Before, userVars
<1> QED
  BY <1>1, <1>5, <1>6, <1>7, LookingKeeps DEF Initial, InitialPcs, dbVars

\* The next child of a listing lies below the folder that was listed.
LEMMA ChildAtPlace ==
    ASSUME TInv, IInv, Good, Before, NEW k \in 1..Len(frames), NEW c \in frames[k].rest
    PROVE  /\ AtPlace(Append(frames[k].at, c.name), c.id)
           /\ c.md5 <= remote[c.id].version
<1> DEFINE at == frames[k].at
           p == Append(at, c.name)
<1>1. /\ c.id \in Ids /\ remote[c.id].name = c.name /\ c.name \in Names
  BY ListingFacts
<1>2. /\ at \in Places /\ (at \in Dirs => c.name \in FileNames)
  BY DEF TInv, FramesTyped, Listing
<1>3. /\ Parent(c.id) = IF at = <<>> THEN Root ELSE rows[at].id
      /\ c.md5 <= remote[c.id].version
      /\ at \in Dirs => rows[at].id # 0
  BY DEF Before, FramesPlaced
<1>4. CASE at = <<>>
  <2>1. p = <<c.name>> /\ Len(p) = 1 /\ Last(p) = c.name
    <3>1. p = <<c.name>>
      BY <1>4
    <3> QED
      BY <3>1 DEF Last
  <2> HIDE DEF at, p
  <2>2. AtPlace(p, c.id)
    BY <1>1, <1>3, <1>4, <2>1 DEF AtPlace, ParentOf
  <2> QED
    BY <1>3, <2>2 DEF p, at
<1>5. CASE at \in Dirs
  <2>1. PICK d \in DirNames : at = <<d>>
    BY <1>5 DEF Dirs
  <2>2. p = <<d, c.name>>
    BY <2>1, AppendToOne
  <2>3. Len(p) = 2 /\ Last(p) = c.name /\ Above(p) = at
    <3>1. d \in Names
      BY DEF Names
    <3>2. Front(<<d, c.name>>) = <<d>> /\ Last(<<d, c.name>>) = c.name
      BY <1>1, <3>1, PairParts
    <3>3. Len(<<d, c.name>>) = 2
      OBVIOUS
    <3> HIDE DEF p, at
    <3> QED
      BY <2>1, <2>2, <3>2, <3>3 DEF Above
  <2>4. at # <<>>
    BY <2>1
  <2> HIDE DEF at, p
  <2>5. AtPlace(p, c.id)
    BY <1>1, <1>3, <1>5, <2>3, <2>4 DEF AtPlace, ParentOf, Root
  <2> QED
    BY <1>3, <2>5 DEF p, at
<1> QED
  BY <1>2, <1>4, <1>5 DEF Places

LEMMA ChildKeepsGood ==
    ASSUME TInv, IInv, Good, PullChild
    PROVE  Good'
<1>1. /\ pc = "pull" /\ frames # <<>> /\ frames \in Seq(Frame)
      /\ UNCHANGED <<local, driveVars, dbVars, content, batch, queue, errors, userVars>>
  BY DEF PullChild, IInv, Typed
<1>2. Before /\ UNCHANGED <<remote, rows, afterToken>>
  BY <1>1 DEF Good, Initial, InitialPcs, driveVars, dbVars
<1> DEFINE top == Last(frames)
           n == Len(frames)
<1>3. /\ Front(frames) \in Seq(Frame) /\ Len(Front(frames)) = n - 1
      /\ \A k \in 1..(n - 1) : Front(frames)[k] = frames[k]
      /\ n \in Nat \ {0} /\ top = frames[n] /\ top \in Frame
      /\ n \in 1..n /\ \A k \in 1..(n - 1) : k \in 1..n
  <2>1. /\ Front(frames) \in Seq(Frame) /\ Len(Front(frames)) = n - 1
        /\ \A k \in 1..(n - 1) : Front(frames)[k] = frames[k]
        /\ n \in Nat \ {0} /\ top = frames[n] /\ top \in Frame
    BY <1>1, FrontProperties
  <2> HIDE DEF n, top
  <2>2. n \in 1..n /\ \A k \in 1..(n - 1) : k \in 1..n
    BY <2>1
  <2> QED
    BY <2>1, <2>2
<1>4. Once' /\ errors' = {}
  BY <1>1, <1>2, <1>3 DEF Good, Once, Before, userVars, PullChild
<1>5. CASE frames' = Front(frames) /\ UNCHANGED <<pc, job>>
  <2>1. FramesPlaced'
    BY <1>2, <1>3, <1>5 DEF Before, FramesPlaced, Parent
  <2>2. JobPlaced'
    BY <1>1, <1>5 DEF JobPlaced
  <2> QED
    BY <1>1, <1>4, <1>5, <2>1, <2>2, LookingKeeps DEF Initial, InitialPcs, dbVars
<1>6. ASSUME NEW c \in top.rest,
             frames' = Append(Front(frames), [top EXCEPT !.rest = @ \ {c}]),
             \/ UNCHANGED <<pc, job>>
             \/ /\ job' = [path |-> Append(top.at, c.name), id |-> c.id, md5 |-> c.md5,
                           parent |-> 0]
                /\ pc' = IF c.name \in DirNames THEN "mkdir" ELSE "fetch"
      PROVE  Good'
  <2>1. PICK frame \in Frame : /\ frame = [top EXCEPT !.rest = @ \ {c}]
                               /\ frame.at = top.at /\ frame.rest \subseteq top.rest
    <3>1. top \in Frame
      BY <1>3
    <3> HIDE DEF top
    <3>2. /\ [top EXCEPT !.rest = top.rest \ {c}] \in Frame
          /\ [top EXCEPT !.rest = top.rest \ {c}].at = top.at
          /\ [top EXCEPT !.rest = top.rest \ {c}].rest = top.rest \ {c}
      BY <3>1 DEF Frame
    <3> QED
      BY <3>2
  <2>2. frames' = Append(Front(frames), frame)
    BY <1>6, <2>1
  <2>3. /\ Len(frames') = n
        /\ \A k \in 1..(n - 1) : frames'[k] = frames[k]
        /\ frames'[n] = frame
    BY <1>3, <2>1, <2>2, AppendProperties
  <2>4. \A k \in 1..n : k \in 1..(n - 1) \/ k = n
    BY <1>3
  <2>5. \A k \in 1..n : frames'[k].at = frames[k].at /\ frames'[k].rest \subseteq frames[k].rest
    BY <1>3, <2>1, <2>3, <2>4
  <2>6. FramesPlaced'
    <3> HIDE DEF n, top
    <3> SUFFICES ASSUME NEW k \in 1..n
                 PROVE  /\ frames'[k].at \in Dirs => rows[frames'[k].at].id # 0
                        /\ \A d \in frames'[k].rest :
                             /\ Parent(d.id) = IF frames'[k].at = <<>> THEN Root
                                                                    ELSE rows[frames'[k].at].id
                             /\ d.md5 <= remote[d.id].version
      BY <1>2, <2>3 DEF FramesPlaced, Parent
    <3>1. frames'[k].at = frames[k].at /\ frames'[k].rest \subseteq frames[k].rest
      BY <2>5
    <3> QED
      BY <1>2, <3>1 DEF Before, FramesPlaced, n
  <2>7. JobPlaced'
    <3>1. CASE UNCHANGED <<pc, job>>
      BY <1>1, <3>1 DEF JobPlaced
    <3>2. CASE /\ job' = [path |-> Append(top.at, c.name), id |-> c.id, md5 |-> c.md5,
                          parent |-> 0]
               /\ pc' = IF c.name \in DirNames THEN "mkdir" ELSE "fetch"
      <4>1. job'.path = Append(top.at, c.name) /\ job'.id = c.id /\ job'.md5 = c.md5
        BY <3>2
      <4>2. AtPlace(Append(top.at, c.name), c.id) /\ c.md5 <= remote[c.id].version
        BY <1>2, <1>3, ChildAtPlace
      <4>3. AtPlace(job.path, job.id)' /\ job'.md5 <= remote'[job'.id].version
        BY <1>2, <4>1, <4>2 DEF AtPlace, Parent, ParentOf
      <4> QED
        BY <3>2, <4>3 DEF JobPlaced
    <3> QED
      BY <1>6, <3>1, <3>2
  <2>8. pc' \in {"pull", "mkdir", "fetch"}
    BY <1>1, <1>6
  <2> QED
    BY <1>1, <1>4, <2>6, <2>7, <2>8, LookingKeeps DEF Initial, InitialPcs, dbVars
<1> QED
  BY <1>5, <1>6 DEF PullChild

LEMMA FetchKeepsGood ==
    ASSUME TInv, IInv, Good, Download("fetch", "write")
    PROVE  Good'
<1>1. /\ pc = "fetch" /\ pc' = "write" /\ content' = remote[job.id].version
      /\ UNCHANGED <<local, driveVars, dbVars, frames, job, batch, queue, errors, userVars>>
  BY DEF Download, Goes
<1>2. Before /\ UNCHANGED <<remote, rows, afterToken>>
  BY <1>1 DEF Good, Initial, InitialPcs, driveVars, dbVars
<1>3. /\ job.id \in Ids /\ remote[job.id].state # "none" /\ ~IsDir(job.id)
      /\ remote[job.id].version \in Nat /\ remote[job.id].version # 0
  <2>1. job.path \in Files
    BY <1>1 DEF TInv, JobTyped, FilePcs
  <2>2. job.id \in Ids /\ remote[job.id].state # "none" /\ ~IsDir(job.id)
    BY <1>1, <2>1, NamesAssumption DEF IInv, JobOK, OfKind, IsDir
  <2> QED
    BY <2>2, Facts DEF Good, DriveTree
<1>4. Fetched(job.id, job.md5, content)'
  <2>1. remote[job.id].version <= remote[job.id].version
    BY <1>3
  <2> QED
    BY <1>1, <1>2, <1>3, <2>1 DEF Before, JobPlaced, Fetched
<1>5. JobPlaced'
  BY <1>1, <1>2, <1>4 DEF Before, JobPlaced, AtPlace, Parent, ParentOf
<1>6. FramesPlaced'
  BY <1>1, <1>2 DEF Before, FramesPlaced, Parent
<1>7. Once' /\ errors' = {}
  BY <1>1, <1>2 DEF Good, Once, Before, userVars
<1> QED
  BY <1>1, <1>5, <1>6, <1>7, LookingKeeps DEF Initial, InitialPcs, dbVars

LEMMA PullDoneKeepsGood ==
    ASSUME TInv, IInv, Good, PullDone
    PROVE  Good'
<1>1. /\ pc = "pull" /\ pc' = "watch"
      /\ UNCHANGED <<local, driveVars, dbVars, frames, job, content, batch, queue, errors,
                     userVars>>
  BY Facts DEF PullDone, Good
<1>2. Before /\ UNCHANGED <<remote, rows, afterToken>>
  BY <1>1 DEF Good, Initial, InitialPcs, driveVars, dbVars
<1>3. JobPlaced' /\ FramesPlaced'
  BY <1>1, <1>2 DEF Before, JobPlaced, FramesPlaced, Parent
<1>4. Once' /\ errors' = {}
  BY <1>1, <1>2 DEF Good, Once, Before, userVars
<1> QED
  BY <1>1, <1>3, <1>4, LookingKeeps DEF Initial, InitialPcs, dbVars

LEMMA MkdirKeepsGood ==
    ASSUME TInv, IInv, Good, PullMkdir
    PROVE  Good'
<1>1. /\ pc = "mkdir" /\ pc' = "keep dir"
      /\ local' = [local EXCEPT ![job.path] = IF @ = 0 THEN 1 ELSE @]
      /\ UNCHANGED <<driveVars, dbVars, frames, job, content, batch, queue, errors, userVars>>
  BY DEF PullMkdir, Goes
<1>2. /\ Before /\ UNCHANGED <<remote, rows, afterToken, twice>> /\ twice = {}
      /\ job.path \in Dirs
  BY <1>1 DEF Good, Initial, InitialPcs, driveVars, dbVars, TInv, JobTyped
<1>3. \A p \in Paths : /\ p # job.path => local'[p] = local[p]
                       /\ local[p] # 0 => local'[p] # 0
                       /\ p = job.path => local'[p] # 0
  <2>1. local \in [Paths -> Nat] /\ job.path \in Paths
    BY <1>2, Facts DEF Paths
  <2> DEFINE v == IF local[job.path] = 0 THEN 1 ELSE local[job.path]
  <2>2. local' = [local EXCEPT ![job.path] = v]
    BY <2>1 DEF PullMkdir
  <2>3. v # 0 /\ (local[job.path] # 0 => v = local[job.path])
    OBVIOUS
  <2> HIDE DEF v
  <2>5. \A p \in Paths : local'[p] = IF p = job.path THEN v ELSE local[p]
    BY <2>1, <2>2
  <2> QED
    BY <2>3, <2>5
<1>4. \A p \in Files : local'[p] = local[p] /\ p \in Paths /\ ~AtWork(p) /\ ~AtWork(p)'
  BY <1>1, <1>2, <1>3, PathShape DEF AtWork, LocalPcs, Paths
<1>5. LocalTree'
  <2> SUFFICES ASSUME NEW q \in Paths, local'[q] # 0, Len(q) = 2 PROVE local'[Above(q)] # 0
    BY DEF LocalTree, HasPlace
  <2>1. Above(q) \in Paths /\ q \in Files
    BY PathShape DEF Paths
  <2>2. local[Above(q)] # 0
    BY <1>4, <2>1 DEF Good, LocalTree, HasPlace
  <2> QED
    BY <1>3, <2>1, <2>2
<1>6. RowLinks' /\ twice' = {} /\ Once'
  BY <1>1, <1>2 DEF Good, RowLinks, LinkHolds, Live, Parent, Linked, Once, userVars
<1>7. Before'
  <2>1. JobPlaced'
    BY <1>1, <1>2 DEF Before, JobPlaced, AtPlace, Parent, ParentOf
  <2>2. RowsPlaced'
    BY <1>2, <1>4 DEF Before, RowsPlaced, AtPlace, Parent, ParentOf
  <2>3. ItemsKnown' /\ FramesPlaced'
    BY <1>1, <1>2 DEF Before, ItemsKnown, FramesPlaced, Live, IsDir, Parent
  <2> QED
    BY <1>1, <1>2, <2>1, <2>2, <2>3 DEF Before
<1> QED
  BY <1>1, <1>2, <1>4, <1>5, <1>6, <1>7, InitialStepKeeps DEF Initial, InitialPcs

\* Only one path has the name, and the folder, that the item at work has.
LEMMA OnePlace ==
    ASSUME TInv, IInv, Good, Before, NEW p \in Paths, NEW i \in Ids, AtPlace(p, i)
    PROVE  RowsOf(i) \subseteq {p}
<1> SUFFICES ASSUME NEW q \in Paths, rows[q].id = i PROVE q = p
  BY DEF RowsOf
<1>1. AtPlace(q, i) /\ i # Root
  BY Facts DEF Good, Before, RowsPlaced
<1>2. Last(p) = Last(q) /\ ParentOf(p) = ParentOf(q)
  BY <1>1 DEF AtPlace
<1>3. CASE Len(p) = 1
  <2>1. Len(q) = 1
    BY <1>1, <1>2, <1>3, PathShape DEF AtPlace, ParentOf
  <2> QED
    BY <1>2, <1>3, <2>1, PathShape
<1>4. CASE Len(p) = 2
  <2>1. ParentOf(p) # Root
    BY <1>4 DEF AtPlace
  <2>2. Len(q) = 2
    BY <1>2, <2>1, PathShape DEF ParentOf
  <2>3. Above(p) \in Paths /\ Above(q) \in Paths
    BY <1>4, <2>2, PathShape DEF Paths
  <2>4. rows[Above(p)].id = rows[Above(q)].id /\ rows[Above(p)].id # 0
    BY <1>2, <1>4, <2>1, <2>2 DEF ParentOf, Root
  <2>5. Above(p) = Above(q)
    BY <2>3, <2>4, Facts DEF Good
  <2> QED
    BY <1>2, <1>4, <2>2, <2>5, PathShape
<1> QED
  BY <1>3, <1>4, PathShape

\* A folder that is there has its row already.
LEMMA KeepDirKeepsGood ==
    ASSUME TInv, IInv, Good, PullKeepDir
    PROVE  Good'
<1>1. /\ pc = "keep dir" /\ pc' = "list" /\ Record(job.path, job.id, 0)
      /\ UNCHANGED <<local, driveVars, hasToken, frames, job, content, batch, queue, errors,
                     userVars>>
  BY DEF PullKeepDir, Goes
<1>2. /\ Before /\ UNCHANGED <<remote, afterToken>> /\ twice = {}
      /\ job.path \in Dirs /\ job.path \in Paths
  BY <1>1 DEF Good, Initial, InitialPcs, driveVars, TInv, JobTyped, Paths
<1>3. job.id \in Ids /\ remote[job.id].state # "none" /\ AtPlace(job.path, job.id)
  BY <1>1, <1>2 DEF IInv, JobOK, OfKind, Before, JobPlaced
<1>4. twice' = {}
  BY <1>1, <1>2, <1>3, OnePlace DEF Record
<1>5. rows[job.path].id = job.id
  <2>1. PICK d \in DirNames : job.path = <<d>>
    BY <1>2 DEF Dirs
  <2>2. Last(job.path) = d
    BY <2>1 DEF Last
  <2>3. remote[job.id].name = d
    BY <1>3, <2>2 DEF AtPlace
  <2> QED
    BY <1>2, <1>3, <2>1, <2>3 DEF Before, ItemsKnown, IsDir
<1>6. rows[job.path].md5 = 0 /\ job.id # 0
  BY <1>2, <1>3, <1>5, Facts DEF Good, RowKinds
<1>7. rows' = rows
  <2>1. rows \in [Paths -> [id : Ids \cup {0}, md5 : Nat]]
    BY DEF IInv, Typed
  <2>2. rows[job.path] = [id |-> job.id, md5 |-> 0]
    BY <1>2, <1>5, <1>6, <2>1
  <2> QED
    BY <1>1, <1>2, <2>1, <2>2 DEF Record
<1>8. FramesPlaced'
  BY <1>1, <1>2, <1>7 DEF Before, FramesPlaced, Parent
<1>9. JobPlaced'
  <2>1. job.path # <<>>
    BY <1>2, PathShape
  <2> QED
    BY <1>1, <1>5, <1>7, <2>1 DEF JobPlaced
<1>10. Once' /\ errors' = {} /\ twice' = twice
  BY <1>1, <1>2, <1>4 DEF Good, Once, Before, userVars
<1> QED
  BY <1>1, <1>7, <1>8, <1>9, <1>10, LookingKeeps DEF Initial, InitialPcs

LEMMA WriteKeepsGood ==
    ASSUME TInv, IInv, Good, WriteLocal("write", "keep")
    PROVE  Good'
<1>1. /\ pc = "write" /\ pc' = "keep" /\ HasPlace(job.path)
      /\ local' = [local EXCEPT ![job.path] = content]
      /\ Notify(Modified(job.path))
      /\ UNCHANGED <<driveVars, dbVars, frames, job, batch, errors, userVars>>
  BY DEF WriteLocal, Goes, Refused
<1>2. /\ Before /\ UNCHANGED <<remote, rows, afterToken, twice>> /\ twice = {}
      /\ job.path \in Files /\ job.path \in Paths /\ local \in [Paths -> Nat]
  BY <1>1, Facts DEF Good, Initial, InitialPcs, driveVars, dbVars, TInv, JobTyped, FilePcs,
       Paths
<1>3. queue' = queue
  <2>1. queue \in Seq(Event) /\ ~Watching
    BY <1>1, Facts DEF Good, Watching, LocalPcs, PollPcs
  <2> QED
    BY <1>1, <2>1, NothingReported
<1>4. \A p \in Paths : local'[p] = IF p = job.path THEN content ELSE local[p]
  BY <1>1, <1>2
<1>5. Fetched(job.id, job.md5, content) /\ content # 0
  BY <1>1, <1>2 DEF Before, JobPlaced, Fetched
<1>6. LocalTree'
  <2> SUFFICES ASSUME NEW q \in Paths, local'[q] # 0, Len(q) = 2 PROVE local'[Above(q)] # 0
    BY DEF LocalTree, HasPlace
  <2>1. Above(q) \in Paths /\ Above(q) # job.path
    BY <1>2, PathShape DEF Paths
  <2>2. local[Above(q)] # 0
    BY <1>1, <1>4 DEF Good, LocalTree, HasPlace
  <2> QED
    BY <1>4, <2>1, <2>2
<1>7. RowLinks' /\ twice' = {} /\ Once'
  BY <1>1, <1>2 DEF Good, RowLinks, LinkHolds, Live, Parent, Linked, Once, userVars
<1>8. \A p : ~AtWork(p) /\ (AtWork(p)' <=> p = job.path)
  BY <1>1 DEF AtWork, LocalPcs
<1>9. Before'
  <2>1. JobPlaced'
    <3>1. AtPlace(job.path, job.id)'
      BY <1>1, <1>2 DEF Before, JobPlaced, AtPlace, Parent, ParentOf
    <3>2. Fetched(job.id, job.md5, local[job.path])'
      BY <1>1, <1>2, <1>4, <1>5 DEF Fetched
    <3> QED
      BY <1>1, <3>1, <3>2 DEF JobPlaced
  <2>2. RowsPlaced'
    BY <1>2, <1>4, <1>5, <1>8 DEF Before, RowsPlaced, AtPlace, Parent, ParentOf, Paths
  <2>3. ItemsKnown' /\ FramesPlaced'
    BY <1>1, <1>2 DEF Before, ItemsKnown, FramesPlaced, Live, IsDir, Parent
  <2> QED
    BY <1>1, <1>2, <1>3, <2>1, <2>2, <2>3 DEF Before
<1>10. \A p \in Files : AtWork(p)' \/ (local'[p] = local[p] /\ rows'[p] = rows[p] /\ ~AtWork(p))
  BY <1>2, <1>4, <1>8 DEF Paths
<1> QED
  BY <1>1, <1>2, <1>3, <1>6, <1>7, <1>9, <1>10, InitialStepKeeps DEF Initial, InitialPcs

\* What is recorded was fetched from Drive, and lies where Drive has it.
LEMMA KeepKeepsGood ==
    ASSUME TInv, IInv, Good, Keep("keep", "pull")
    PROVE  Good'
<1>1. /\ pc = "keep" /\ pc' = "pull" /\ Record(job.path, job.id, job.md5) /\ job' = NoJob
      /\ Notify(Modified(job.path)) \/ UNCHANGED queue
      /\ UNCHANGED <<local, driveVars, hasToken, frames, content, batch, errors, userVars>>
  BY DEF Keep, Goes
<1>2. /\ Before /\ UNCHANGED <<remote, afterToken, afterNew>> /\ twice = {}
      /\ job.path \in Files /\ job.path \in Paths
  BY <1>1 DEF Good, Initial, InitialPcs, driveVars, TInv, JobTyped, FilePcs, Paths
<1>3. queue' = queue
  <2>1. queue \in Seq(Event) /\ ~Watching
    BY <1>1, Facts DEF Good, Watching, LocalPcs, PollPcs
  <2> QED
    BY <1>1, <2>1, NothingReported
<1>4. PICK p, i : p = job.path /\ i = job.id
  OBVIOUS
<1>5. /\ i \in Ids /\ remote[i].state # "none" /\ AtPlace(p, i)
      /\ Fetched(i, job.md5, local[p]) /\ i # 0
  <2>1. i \in Ids /\ remote[i].state # "none"
    BY <1>1, <1>4 DEF IInv, JobOK, OfKind
  <2>2. AtPlace(p, i) /\ Fetched(i, job.md5, local[p])
    BY <1>1, <1>2, <1>4 DEF Before, JobPlaced
  <2> QED
    BY <2>1, <2>2, Facts DEF Good
<1>6. twice' = {}
  BY <1>1, <1>2, <1>4, <1>5, OnePlace DEF Record
<1>7. \A q \in Paths : rows'[q] = IF q = p THEN [id |-> i, md5 |-> job.md5] ELSE rows[q]
  BY <1>1, <1>4 DEF Record, IInv, Typed
<1>8. \A d \in Dirs : rows'[d] = rows[d]
  BY <1>2, <1>4, <1>7, PathShape DEF Paths
<1>9. \A q \in Paths : Len(q) = 2 => rows'[Above(q)] = rows[Above(q)]
  BY <1>8, PathShape
<1>10. Len(p) = 2 /\ Parent(i) # Root => Linked(p, Parent(i)) /\ Linked(p, Parent(i))'
  BY <1>2, <1>4, <1>5, <1>9 DEF AtPlace, ParentOf, Linked, Parent
<1>11. Parent(i) = Root \/ Len(p) = 2
  BY <1>2, <1>4, <1>5, PathShape DEF AtPlace, ParentOf
<1>12. RowLinks'
  <2> SUFFICES ASSUME NEW q \in Files, rows'[q].id # 0, remote[rows'[q].id].parent # Root,
                      Live(remote[rows'[q].id].parent)
               PROVE  Len(q) = 2 /\ rows'[Above(q)].id = remote[rows'[q].id].parent
    BY <1>2 DEF RowLinks, LinkHolds, Live, Parent, Linked
  <2>1. CASE q = p
    BY <1>2, <1>4, <1>7, <1>10, <1>11, <2>1 DEF Linked, Parent
  <2>2. CASE q # p
    <3>1. rows'[q] = rows[q] /\ q \in Paths
      BY <1>7, <2>2 DEF Paths
    <3>2. Len(q) = 2 /\ rows[Above(q)].id = remote[rows[q].id].parent
      BY <3>1 DEF Good, RowLinks, LinkHolds, Linked, Parent
    <3> QED
      BY <1>9, <3>1, <3>2
  <2> QED
    BY <2>1, <2>2
<1>13. OnCourse(p)'
  <2>1. rows'[p].id = i
    BY <1>2, <1>4, <1>7
  <2>2. CASE i \in afterToken
    <3>1. i \in After'
      BY <1>1, <1>2, <2>2 DEF After, Applying, PollPcs
    <3>2. Coming(i)'
      BY <3>1 DEF Coming
    <3> QED
      BY <1>5, <2>1, <3>2 DEF OnCourse
  <2>3. CASE i \notin afterToken
    <3>1. Live(i) /\ local[p] = remote[i].version
      BY <1>2, <1>5, <2>3 DEF Before, ItemsKnown, Fetched
    <3>2. InFolder(p, i)'
      <4>1. CASE Parent(i) = Root
        BY <1>2, <4>1 DEF InFolder, Parent
      <4>2. CASE Parent(i) # Root
        <5>1. PICK f \in Ids : f = Parent(i) /\ remote[f].state # "none"
          BY <1>5, <4>2, Facts DEF Good, DriveTree
        <5>2. Live(f) \/ f \in afterToken
          BY <1>2, <5>1 DEF Before, ItemsKnown
        <5>3. Parent(i)' = f /\ Linked(p, f)'
          <6>1. Parent(i)' = f
            BY <1>2, <5>1 DEF Parent
          <6>2. Linked(p, f)'
            BY <1>10, <1>11, <4>2, <5>1, <6>1 DEF Linked, Parent
          <6> QED
            BY <6>1, <6>2
        <5>4. Live(f)' \/ Going(f)'
          BY <1>1, <1>2, <5>2 DEF Live, Going, After, Applying, PollPcs
        <5> QED
          BY <5>3, <5>4 DEF InFolder
      <4> QED
        BY <4>1, <4>2
    <3> QED
      BY <1>1, <1>2, <1>5, <2>1, <3>1, <3>2 DEF OnCourse, Live
  <2> QED
    BY <2>2, <2>3
<1>14. \A q : (AtWork(q) <=> q = p) /\ ~AtWork(q)'
  BY <1>1, <1>4 DEF AtWork, LocalPcs
<1>15. Before'
  <2>1. JobPlaced'
    BY <1>1 DEF JobPlaced
  <2>3. RowsPlaced'
    <3>1. ASSUME NEW q \in Paths, NEW j, j = rows'[q].id, j # 0
          PROVE  /\ remote[j].name = Last(q)
                 /\ remote[j].parent = IF Len(q) = 1 THEN Root ELSE rows'[Above(q)].id
                 /\ Len(q) = 2 => remote[j].parent # Root
      <4>1. AtPlace(q, j)
        BY <1>2, <1>4, <1>5, <1>7, <3>1 DEF Before, RowsPlaced
      <4>2. Len(q) = 1 \/ rows'[Above(q)] = rows[Above(q)]
        BY <1>9, PathShape
      <4> QED
        BY <4>1, <4>2 DEF AtPlace, Parent, ParentOf
    <3>2. \A q \in Files : rows'[q].id # 0 =>
            /\ local[q] # 0
            /\ rows'[q].md5 <= local[q] /\ local[q] <= remote[rows'[q].id].version
      BY <1>2, <1>5, <1>7, <1>14 DEF Before, RowsPlaced, Fetched, Paths
    <3> QED
      BY <1>1, <1>2, <3>1, <3>2 DEF RowsPlaced, AtPlace, Parent, ParentOf
  <2>4. FramesPlaced'
    BY <1>1, <1>2, <1>8, PathShape DEF Before, FramesPlaced, Parent, TInv, FramesTyped,
         Listing, Places
  <2>5. ItemsKnown'
    <3> SUFFICES ASSUME NEW j \in Ids, remote[j].state # "none", IsDir(j)
                 PROVE  rows'[<<remote[j].name>>].id = j
      BY <1>2 DEF Before, ItemsKnown, Live, IsDir
    <3>1. <<remote[j].name>> \in Dirs
      BY DEF IsDir, Dirs
    <3> QED
      BY <1>2, <1>8, <3>1 DEF Before, ItemsKnown
  <2> QED
    BY <1>1, <1>2, <1>3, <2>1, <2>3, <2>4, <2>5 DEF Before
<1>16. \A q \in Files : OnCourse(q)' \/ (local'[q] = local[q] /\ rows'[q] = rows[q] /\ ~AtWork(q))
  BY <1>1, <1>7, <1>13, <1>14 DEF Paths
<1>17. LocalTree' /\ Once'
  BY <1>1 DEF Good, LocalTree, HasPlace, Once, userVars
<1> QED
  BY <1>1, <1>3, <1>6, <1>8, <1>12, <1>15, <1>16, <1>17, InitialStepKeeps
     DEF Initial, InitialPcs

\* The first moment somebody watches: nothing has been missed.
LEMMA WatchKeepsGood ==
    ASSUME TInv, IInv, Good, Watch
    PROVE  Good'
<1>1. /\ pc = "watch" /\ pc' = "select" /\ errors' = errors \ {InitialWork}
      /\ UNCHANGED <<local, driveVars, dbVars, frames, job, content, batch, queue, userVars>>
  BY DEF Watch, Goes
<1>2. /\ Before /\ UNCHANGED <<remote, rows, twice, afterToken, afterNew>> /\ queue = <<>>
      /\ errors' = errors /\ batch = {}
  BY <1>1 DEF Good, Initial, InitialPcs, driveVars, dbVars, Before, BatchFolders, Applying,
       PollPcs
<1>3. \A p : ~AtWork(p) /\ ~AtWork(p)'
  BY <1>1 DEF AtWork, LocalPcs
<1>4. NoneForgotten'
  <2>1. \A p : Excused(p) => Excused(p)'
    BY <1>1, <1>2 DEF Excused, Waits
  <2>2. \A p : OnCourse(p) => OnCourse(p)'
    BY <1>1, <1>2 DEF OnCourse, Coming, InFolder, Going, After, Applying, RowPcs, PollPcs, Live,
       Parent, Linked
  <2> QED
    BY <1>3, <2>1, <2>2 DEF Good, NoneForgotten
<1>5. /\ Once' /\ twice' = {} /\ LocalTree' /\ DriveTree' /\ RowKinds' /\ RowLinks'
      /\ BatchFolders'
  <2>1. Once' /\ twice' = {} /\ LocalTree' /\ BatchFolders'
    BY <1>1, <1>2 DEF Good, Once, userVars, LocalTree, HasPlace, BatchFolders
  <2>2. DriveTree' /\ RowKinds' /\ RowLinks'
    BY <1>2 DEF Good, DriveTree, RowKinds, RowLinks, LinkHolds, IsDir, Exists, Live, Parent,
       Linked
  <2> QED
    BY <2>1, <2>2
<1>6. During'
  <2>1. Vanished'
    BY <1>1, <1>2 DEF Before, RowsPlaced, Vanished
  <2>2. QueueOrder'
    <3>1. queue' = <<>> /\ Len(queue') = 0 /\ 1..0 = {}
      BY <1>1, <1>2
    <3> QED
      BY <3>1 DEF QueueOrder, Answered
  <2>3. RowsTrue'
    <3> SUFFICES ASSUME NEW p \in Files, rows[p].id # 0,
                        remote[rows[p].id].version = rows[p].md5
                 PROVE  local[p] = remote[rows[p].id].version
      BY <1>1, <1>2 DEF RowsTrue, Live
    <3>1. rows[p].md5 <= local[p] /\ local[p] <= remote[rows[p].id].version
      BY <1>2, <1>3 DEF Before, RowsPlaced
    <3>2. rows[p].md5 \in Nat /\ local[p] \in Nat
      BY Facts DEF Good, Paths
    <3> QED
      BY <3>1, <3>2
  <2>4. LocalWork' /\ PollWork'
    BY <1>1 DEF LocalWork, PollWork, RowPcs, PollPcs
  <2> QED
    BY <2>1, <2>2, <2>3, <2>4 DEF During
<1>7. ~Initial'
  BY <1>1 DEF Initial, InitialPcs
<1> QED
  BY <1>4, <1>5, <1>6, <1>7 DEF Good

-----------------------------------------------------------------------------
(* The loop of a folder that is watched.                                   *)

\* A file stays on course when nothing that is coming, or going, is lost.
LEMMA CourseStays ==
    ASSUME TInv, IInv, Good, NEW p \in Files, OnCourse(p),
           UNCHANGED remote, local'[p] = local[p], rows'[p].id = rows[p].id,
           \A i \in Ids : i = rows[p].id /\ Coming(i) => Coming(i)',
           \A f \in Ids : Linked(p, f) /\ Going(f) => (Linked(p, f)' /\ Going(f)') \/ Live(f)
    PROVE  OnCourse(p)'
<1>1. PICK i, f : i = rows[p].id /\ f = remote[i].parent
  OBVIOUS
<1>2. CASE i = 0
  BY <1>1, <1>2 DEF OnCourse
<1>3. CASE i # 0
  <2>1. i \in Ids /\ f \in Ids \cup {Root} /\ rows'[p].id = i
    BY <1>1, <1>3, Facts DEF Good, Paths, Parent
  <2>2. CASE Coming(i)
    <3>1. Coming(i)'
      BY <1>1, <2>1, <2>2
    <3> QED
      BY <1>3, <2>1, <3>1 DEF OnCourse
  <2>3. CASE Live(i) /\ local[p] = remote[i].version /\ InFolder(p, i)
    <3>1. InFolder(p, i)'
      <4>1. f = Root \/ Live(f) \/ (f # Root /\ Linked(p, f) /\ Going(f))
        BY <1>1, <2>3 DEF InFolder, Parent
      <4>2. f = Root \/ Live(f) \/ (Linked(p, f)' /\ Going(f)')
        BY <2>1, <4>1
      <4> QED
        BY <1>1, <4>2 DEF InFolder, Parent, Live
    <3> QED
      BY <1>3, <2>1, <2>3, <3>1 DEF OnCourse, Live
  <2> QED
    BY <1>1, <1>3, <2>2, <2>3 DEF OnCourse
<1> QED
  BY <1>2, <1>3

LEMMA StillWatching ==
    ASSUME TInv, IInv, Good, Watching, Watching', UNCHANGED <<local, remote>>,
           afterToken' \subseteq afterToken \cup afterNew,
           afterNew' \subseteq afterToken \cup afterNew,
           left'["move"] = left["move"], left'["start"] = left["start"]
    PROVE  LocalTree' /\ DriveTree' /\ Once' /\ ~Initial'
<1>1. LocalTree'
  BY DEF Good, LocalTree, HasPlace
<1>2. DriveTree'
  BY DEF Good, DriveTree, IsDir, Parent, Exists
<1>3. Once' /\ ~Initial'
  BY DEF Good, Once, Initial, Watching, InitialPcs, LocalPcs, PollPcs
<1> QED
  BY <1>1, <1>2, <1>3

LEMMA RowsStay ==
    ASSUME Good, UNCHANGED <<remote, rows, twice>>
    PROVE  RowKinds' /\ RowLinks' /\ twice' = {}
BY DEF Good, RowKinds, RowLinks, LinkHolds, IsDir, Live, Parent, Linked

\* What the row says, when it is the last word.
RowTrue(p) == LET i == rows[p].id
              IN  i # 0 /\ Live(i) /\ remote[i].version = rows[p].md5 =>
                      local[p] = remote[i].version

\* A step between two local changes, or a look before one.
LEMMA LookKeepsGood ==
    ASSUME TInv, IInv, Good, Watching, pc \notin Applying, Watching', pc' \notin Applying,
           UNCHANGED <<local, driveVars, rows, twice>>, batch' = {},
           left'["move"] = left["move"], left'["start"] = left["start"],
           \A p \in Files : Excused(p) \/ AtWork(p) =>
             Excused(p)' \/ AtWork(p)' \/ (OnCourse(p) /\ RowTrue(p)),
           Vanished', QueueOrder', LocalWork'
    PROVE  Good'
<1>1. /\ UNCHANGED <<remote, afterToken, afterNew>> /\ During /\ batch = {}
      /\ pc \notin RowPcs /\ pc' \notin RowPcs /\ pc \notin {"remove", "unrow"}
      /\ pc' \notin {"remove", "unrow"}
  BY DEF driveVars, Good, BatchFolders, Applying, RowPcs, PollPcs
<1>2. /\ LocalTree' /\ DriveTree' /\ Once' /\ ~Initial'
      /\ RowKinds' /\ RowLinks' /\ twice' = {}
  BY <1>1, StillWatching, RowsStay
<1>3. \A i : Coming(i) => Coming(i)'
  BY <1>1 DEF Coming, After
<1>4. \A f : Going(f) => Going(f)'
  BY <1>1 DEF Going, After
<1>5. \A p \in Files : OnCourse(p) => OnCourse(p)'
  BY <1>1, <1>3, <1>4, CourseStays DEF Linked
<1>6. NoneForgotten'
  BY <1>5 DEF Good, NoneForgotten
<1>7. RowsTrue'
  <2> SUFFICES ASSUME NEW p \in Files, rows[p].id # 0, Live(rows[p].id),
                      remote[rows[p].id].version = rows[p].md5
               PROVE  local[p] = remote[rows[p].id].version \/ Excused(p)' \/ AtWork(p)'
    BY <1>1 DEF RowsTrue, Live, Excused, Waits, AtWork
  <2>1. local[p] = remote[rows[p].id].version \/ Excused(p) \/ AtWork(p)
    BY <1>1 DEF During, RowsTrue
  <2> QED
    BY <2>1 DEF RowTrue
<1>8. PollWork' /\ BatchFolders'
  <2>1. pc' \notin {"refetch", "rewrite", "rekeep"}
    BY DEF Applying, PollPcs
  <2> QED
    BY <1>1, <2>1 DEF PollWork, BatchFolders
<1> QED
  BY <1>2, <1>6, <1>7, <1>8 DEF Good, During

LEMMA TakeRemovedKeepsGood ==
    ASSUME TInv, IInv, Good, TakeRemoved
    PROVE  Good'
<1>1. PICK p : p = Head(queue).path
  OBVIOUS
<1>2. /\ pc = "select" /\ queue # <<>> /\ Head(queue).removed /\ queue' = Tail(queue)
      /\ UNCHANGED <<local, driveVars, dbVars, frames, batch, userVars>>
      /\ IF rows[p].id = 0
         THEN Done({p})
         ELSE /\ pc' = "erase"
              /\ job' = [NoJob EXCEPT !.path = p, !.id = rows[p].id]
              /\ UNCHANGED <<content, errors>>
  BY <1>1 DEF TakeRemoved
<1>3. During /\ Watching /\ Watching' /\ pc \notin Applying /\ pc' \notin Applying /\ batch = {}
  BY <1>2 DEF Good, Watching, LocalPcs, Applying, PollPcs, Done, BatchFolders
<1>4. /\ Head(queue) \in Event
      /\ \A e : Queued(e) /\ e # Head(queue) => Queued(e)'
      /\ \A q : Waits(q) /\ q # p => Waits(q)'
      /\ \A q : Answered(q) => Answered(q)'
      /\ \A q : Answered(q) /\ Head(queue) = Removed(q) => Queued(Modified(q))'
  BY <1>1, <1>2, HeadTaken, Facts DEF Good
<1>5. Head(queue) = Removed(p) /\ p \in Paths
  BY <1>1, <1>2, <1>4 DEF Event, Removed
<1>6. QueueOrder'
  BY <1>2, <1>3, <1>4 DEF During, QueueOrder, Answered, Removed, Modified
<1>7. p \in Files /\ local[p] # 0 => Queued(Modified(p))' /\ Waits(p)'
  BY <1>3, <1>4, <1>5, QueuedWaits DEF During, QueueOrder
<1>8. \A q : ~AtWork(q)
  BY <1>2 DEF AtWork, LocalPcs
<1>9. \A q : q # p => Removed(q) # Head(queue)
  BY <1>5 DEF Removed
<1>10. CASE rows[p].id = 0
  <2>1. pc' = "select" /\ errors' = errors \ {p}
    BY <1>2, <1>10 DEF Done
  <2>2. \A q : Excused(q) /\ q # p => Excused(q)'
    BY <1>4, <2>1 DEF Excused
  <2>3. p \in Files => Excused(p)' \/ (OnCourse(p) /\ RowTrue(p))
    BY <1>7, <1>10 DEF Excused, OnCourse, RowTrue
  <2>4. Vanished'
    BY <1>2, <1>3, <1>4, <1>9, <1>10, <2>1 DEF During, Vanished, dbVars, Queued, Removed
  <2>5. LocalWork'
    BY <2>1 DEF LocalWork
  <2> QED
    BY <1>2, <1>3, <1>6, <1>8, <2>2, <2>3, <2>4, <2>5, LookKeepsGood DEF dbVars, userVars
<1>11. CASE rows[p].id # 0
  <2>1. /\ pc' = "erase" /\ job'.path = p /\ job'.id = rows[p].id /\ errors' = errors
    BY <1>2, <1>11 DEF NoJob
  <2>2. \A q : Excused(q) => Excused(q)' \/ AtWork(q)'
    BY <1>4, <2>1 DEF Excused, AtWork, LocalPcs
  <2>3. Vanished'
    BY <1>2, <1>3, <1>4, <1>9, <2>1 DEF During, Vanished, dbVars, Queued, Removed
  <2>4. LocalWork'
    BY <1>2, <1>7, <2>1 DEF LocalWork, dbVars, Queued, Modified
  <2> QED
    BY <1>2, <1>3, <1>6, <1>8, <2>2, <2>3, <2>4, LookKeepsGood DEF dbVars, userVars
<1> QED
  BY <1>10, <1>11

LEMMA TakeModifiedKeepsGood ==
    ASSUME TInv, IInv, Good, TakeModified
    PROVE  Good'
<1>1. PICK p : p = Head(queue).path
  OBVIOUS
<1>2. /\ pc = "select" /\ queue # <<>> /\ ~Head(queue).removed /\ queue' = Tail(queue)
      /\ pc' = "stat" /\ job' = [NoJob EXCEPT !.path = p]
      /\ UNCHANGED <<local, driveVars, dbVars, frames, content, batch, errors, userVars>>
  BY <1>1 DEF TakeModified
<1>3. During /\ Watching /\ Watching' /\ pc \notin Applying /\ pc' \notin Applying /\ batch = {}
  BY <1>2 DEF Good, Watching, LocalPcs, Applying, PollPcs, BatchFolders
<1>4. /\ \A e : Queued(e) /\ e # Head(queue) => Queued(e)'
      /\ \A q : Waits(q) /\ q # p => Waits(q)'
      /\ \A q : Answered(q) => Answered(q)'
  BY <1>1, <1>2, HeadTaken, Facts DEF Good
<1>5. QueueOrder'
  BY <1>2, <1>3, <1>4 DEF During, QueueOrder, Answered, Removed, Modified
<1>6. \A q : ~AtWork(q)
  BY <1>2 DEF AtWork, LocalPcs
<1>7. \A q : Removed(q) # Head(queue)
  BY <1>2 DEF Removed
<1>8. \A q : Excused(q) => Excused(q)' \/ AtWork(q)'
  BY <1>2, <1>4 DEF Excused, AtWork, LocalPcs, NoJob
<1>9. Vanished'
  BY <1>2, <1>3, <1>4, <1>7 DEF During, Vanished, dbVars, Queued, Removed
<1>10. LocalWork'
  BY <1>2 DEF LocalWork
<1> QED
  BY <1>2, <1>3, <1>5, <1>6, <1>8, <1>9, <1>10, LookKeepsGood DEF dbVars, userVars

\* What is gone has an event of its own, or an error, as long as it has a row.
LEMMA StatKeepsGood ==
    ASSUME TInv, IInv, Good, Stat
    PROVE  Good'
<1>1. PICK p : p = job.path
  OBVIOUS
<1>2. /\ pc = "stat" /\ p \in Paths
      /\ UNCHANGED <<local, driveVars, dbVars, frames, batch, queue, userVars>>
  BY <1>1 DEF Stat, TInv, JobTyped, LocalPcs
<1>3. /\ During /\ Watching /\ pc \notin Applying /\ batch = {}
  BY <1>2 DEF Good, Watching, LocalPcs, Applying, PollPcs, BatchFolders
<1>4. QueueOrder'
  BY <1>2, <1>3 DEF During, QueueOrder, Answered
<1>5. \A q : (AtWork(q) <=> q = p) /\ (Waits(q)' <=> Waits(q))
  BY <1>1, <1>2 DEF AtWork, LocalPcs, Waits
<1>6. CASE local[p] = 0 /\ Done(IF rows[p].id = 0 THEN {p} ELSE {})
  <2>1. /\ pc' = "select" /\ errors' = errors \ (IF rows[p].id = 0 THEN {p} ELSE {})
        /\ Watching' /\ pc' \notin Applying
    BY <1>6 DEF Done, Watching, Applying, PollPcs
  <2>2. \A q : Excused(q) /\ q # p => Excused(q)'
    BY <1>5, <2>1 DEF Excused
  <2>3. p \in Files => Excused(p)' \/ (OnCourse(p) /\ RowTrue(p))
    <3>1. CASE rows[p].id = 0
      BY <1>6, <3>1 DEF OnCourse, RowTrue
    <3>2. CASE rows[p].id # 0
      <4>1. p \in Files => Queued(Removed(p)) \/ p \in errors
        BY <1>2, <1>3, <1>6, <3>2 DEF During, Vanished
      <4>2. p \in Files => Waits(p)' \/ p \in errors'
        BY <1>5, <2>1, <3>2, <4>1, QueuedWaits
      <4> QED
        BY <4>2 DEF Excused
    <3> QED
      BY <3>1, <3>2
  <2>4. Vanished'
    BY <1>2, <1>3, <2>1 DEF During, Vanished, dbVars, Queued, Removed
  <2>5. LocalWork'
    BY <2>1 DEF LocalWork
  <2> QED
    BY <1>2, <1>3, <1>4, <1>5, <2>1, <2>2, <2>3, <2>4, <2>5, LookKeepsGood
       DEF dbVars, userVars
<1>7. CASE /\ local[p] # 0 /\ p \in Files /\ pc' = "read" /\ UNCHANGED <<job, content, errors>>
  <2>1. Watching' /\ pc' \notin Applying
    BY <1>7 DEF Watching, Applying, LocalPcs, PollPcs
  <2>2. \A q : (Excused(q) => Excused(q)') /\ (AtWork(q) => AtWork(q)')
    BY <1>5, <1>7 DEF Excused, AtWork, LocalPcs
  <2>3. Vanished'
    BY <1>2, <1>3, <1>7 DEF During, Vanished, dbVars, Queued, Removed
  <2>4. LocalWork'
    BY <1>1, <1>2, <1>7 DEF LocalWork
  <2> QED
    BY <1>2, <1>3, <1>4, <2>1, <2>2, <2>3, <2>4, LookKeepsGood DEF dbVars, userVars
<1>8. CASE /\ local[p] # 0 /\ p \in Dirs
           /\ IF rows[p].id # 0
              THEN Done({p})
              ELSE /\ pc' = "create" /\ job' = [job EXCEPT !.parent = ParentOf(p)]
                   /\ UNCHANGED <<content, errors>>
  <2>1. p \notin Files
    BY <1>2, <1>8, PathShape
  <2>2. /\ pc' \in {"select", "create"} /\ errors \ {p} \subseteq errors'
        /\ Watching' /\ pc' \notin Applying
        /\ pc' = "create" => rows[p].id = 0 /\ job'.path = p
    BY <1>1, <1>8 DEF Done, Watching, Applying, LocalPcs, PollPcs, TInv, JobTyped
  <2>3. \A q \in Files : ~AtWork(q) /\ (Excused(q) => Excused(q)')
    BY <1>5, <2>1, <2>2 DEF Excused
  <2>4. Vanished'
    BY <1>2, <1>3, <2>1, <2>2 DEF During, Vanished, dbVars, Queued, Removed
  <2>5. LocalWork'
    BY <1>2, <2>2 DEF LocalWork, dbVars
  <2> QED
    BY <1>2, <1>3, <1>4, <2>2, <2>3, <2>4, <2>5, LookKeepsGood DEF dbVars, userVars
<1> QED
  BY <1>1, <1>6, <1>7, <1>8 DEF Stat

\* What is to be uploaded is what the file holds, or an event of it waits.
LEMMA ReadKeepsGood ==
    ASSUME TInv, IInv, Good, Read
    PROVE  Good'
<1>1. PICK p : p = job.path
  OBVIOUS
<1>2. /\ pc = "read" /\ pc' = "upload" /\ content' = local[p] /\ local[p] # 0
      /\ Notify(Modified(p)) \/ UNCHANGED queue
      /\ job' = [job EXCEPT !.id = rows[p].id, !.parent = ParentOf(p)]
      /\ UNCHANGED <<local, driveVars, dbVars, frames, batch, errors, userVars>>
  BY <1>1 DEF Read, Goes, Refused
<1>3. /\ During /\ Watching /\ Watching' /\ pc \notin Applying /\ pc' \notin Applying
      /\ batch = {} /\ p \in Files /\ p \in Paths
  <2>1. During /\ Watching /\ Watching' /\ pc \notin Applying /\ pc' \notin Applying
    BY <1>2 DEF Good, Watching, LocalPcs, Applying, PollPcs
  <2>2. batch = {}
    BY <2>1 DEF Good, BatchFolders
  <2>3. p \in Files
    BY <1>1, <1>2 DEF TInv, JobTyped
  <2> QED
    BY <2>1, <2>2, <2>3 DEF Paths
<1>4. /\ \A e : Queued(e) => Queued(e)'
      /\ \A q : Waits(q) => Waits(q)'
      /\ \A q : Answered(q) => Answered(q)'
  <2>1. CASE UNCHANGED queue
    BY <2>1 DEF Queued, Waits, Answered
  <2>2. CASE Notify(Modified(p))
    BY <1>3, <2>2, ModifiedReported, Facts DEF Good
  <2> QED
    BY <1>2, <2>1, <2>2
<1>5. job'.path = p /\ job'.id = rows[p].id /\ job'.parent = ParentOf(p)
  BY <1>1, <1>2 DEF TInv, JobTyped
<1>6. QueueOrder'
  BY <1>2, <1>3, <1>4 DEF During, QueueOrder, Answered, Removed, Modified
<1>7. \A q : (Excused(q) => Excused(q)') /\ (AtWork(q) => AtWork(q)')
  BY <1>1, <1>2, <1>4, <1>5 DEF Excused, AtWork, LocalPcs
<1>8. Vanished'
  BY <1>2, <1>3, <1>4 DEF During, Vanished, dbVars, Queued, Removed
<1>9. ParentOf(p) # Root => Linked(p, ParentOf(p))
  BY <1>3, PathShape DEF ParentOf, Linked
<1>10. LocalWork'
  <2>1. job'.parent # Root => Linked(job.path, job.parent)'
    <3>1. PICK f : f = ParentOf(p)
      OBVIOUS
    <3> QED
      BY <1>2, <1>5, <1>9, <3>1 DEF Linked, dbVars
  <2> QED
    BY <1>2, <1>5, <2>1 DEF LocalWork, dbVars
<1> QED
  BY <1>2, <1>3, <1>6, <1>7, <1>8, <1>10, LookKeepsGood DEF dbVars, userVars

LEMMA PollTickKeepsGood ==
    ASSUME TInv, IInv, Good, PollTick
    PROVE  Good'
<1>1. /\ pc = "select" /\ pc' = "changes"
      /\ UNCHANGED <<local, driveVars, dbVars, frames, job, content, batch, queue, errors,
                     userVars>>
  BY DEF PollTick
<1>2. /\ During /\ Watching /\ Watching' /\ pc \notin Applying /\ pc' \notin Applying
  BY <1>1 DEF Good, Watching, LocalPcs, Applying, PollPcs
<1>3. batch = {}
  BY <1>2 DEF Good, BatchFolders
<1>4. \A q : (Excused(q) => Excused(q)') /\ ~AtWork(q)
  BY <1>1 DEF Excused, Waits, AtWork, LocalPcs
<1>5. Vanished' /\ QueueOrder' /\ LocalWork'
  BY <1>1, <1>2 DEF During, Vanished, QueueOrder, Queued, Answered, LocalWork, dbVars
<1> QED
  BY <1>1, <1>2, <1>3, <1>4, <1>5, LookKeepsGood DEF dbVars, userVars

\* A failed change leaves its error; a failed poll has changed nothing.
LEMMA FailedKeepsGood ==
    ASSUME TInv, IInv, Good, Failed, pc \in LocalPcs \cup {"changes"}
    PROVE  Good'
<1>1. /\ pc' = "select" /\ batch' = {}
      /\ UNCHANGED <<local, driveVars, dbVars, queue, clock>>
      /\ errors \subseteq errors' /\ (pc \in LocalPcs => job.path \in errors')
      /\ UNCHANGED left \/ Spend("fault")
  <2>1. pc \notin InitialPcs
    BY DEF InitialPcs, LocalPcs
  <2>2. PICK work : /\ errors' = errors \cup {work}
                    /\ work = CASE pc \in InitialPcs -> InitialWork
                                [] pc \in LocalPcs   -> job.path
                                [] pc \in PollPcs    -> RemoteWork
    BY DEF Failed
  <2>3. pc \in LocalPcs => work = job.path
    BY <2>1, <2>2 DEF LocalPcs, PollPcs
  <2> QED
    BY <2>1, <2>2, <2>3 DEF Failed
<1>2. left'["move"] = left["move"] /\ left'["start"] = left["start"]
  <2>1. left \in [Kinds -> Nat] /\ "move" \in Kinds /\ "start" \in Kinds
    BY DEF TInv, BudgetTyped, Kinds
  <2> QED
    BY <1>1, <2>1 DEF Spend
<1>3. During /\ Watching /\ Watching' /\ pc \notin Applying /\ pc' \notin Applying
  BY <1>1 DEF Good, Watching, LocalPcs, Applying, PollPcs
<1>4. \A q : Excused(q) \/ AtWork(q) => Excused(q)'
  BY <1>1 DEF Excused, Waits, AtWork, LocalPcs
<1>5. Vanished'
  BY <1>1, <1>3 DEF During, Vanished, dbVars, Queued, LocalPcs
<1>6. QueueOrder' /\ LocalWork'
  BY <1>1, <1>3 DEF During, QueueOrder, Answered, LocalWork
<1> QED
  BY <1>1, <1>2, <1>3, <1>4, <1>5, <1>6, LookKeepsGood DEF dbVars

-----------------------------------------------------------------------------
(* What the worker does on Drive.                                          *)

LEMMA OwnChangeKeepsGood ==
    ASSUME TInv, IInv, Good, DriveGoes, pc \in LocalPcs, pc' \in LocalPcs,
           job'.path = job.path, pc = "erase" => pc' = "forget", pc # "forget",
           UNCHANGED <<local, rows, twice, queue, errors, batch, left>>,
           \A p \in Files : rows[p].id # 0 =>
             remote'[rows[p].id].version = remote[rows[p].id].version \/ p = job.path,
           LocalWork'
    PROVE  Good'
<1>1. Watching /\ Watching' /\ ~Initial' /\ StaysAtWork /\ During
  BY DEF Watching, LocalPcs, PollPcs, Initial, InitialPcs, StaysAtWork, Good
<1>2. /\ twice' = {} /\ LocalTree' /\ DriveTree' /\ RowKinds' /\ RowLinks'
      /\ NoneForgotten' /\ BatchFolders'
  BY <1>1, DriveKeeps
<1>3. RowsTrue'
  BY <1>1, RowsTrueOnDrive DEF AtWork
<1>4. Vanished' /\ QueueOrder'
  BY <1>1 DEF During, Vanished, QueueOrder, Queued, Answered, LocalPcs
<1>5. Once' /\ PollWork'
  BY <1>1 DEF Good, Once, PollWork, RowPcs, PollPcs, LocalPcs, Watching
<1> QED
  BY <1>1, <1>2, <1>3, <1>4, <1>5 DEF Good, During

LEMMA UpdateKeepsGood ==
    ASSUME TInv, IInv, Good, Upload, job.id # 0
    PROVE  Good'
<1>1. PICK p, i, v : p = job.path /\ i = job.id /\ v = content
  OBVIOUS
<1> DEFINE item == [remote[i] EXCEPT !.version = v]
<1>2. /\ pc = "upload" /\ pc' = "record" /\ Exists(i) /\ Put(i, item) /\ Changed({i})
      /\ job' = [job EXCEPT !.md5 = IF UploadAnswersMd5 THEN v ELSE 0]
      /\ UNCHANGED <<local, dbVars, frames, content, batch, queue, errors, userVars>>
  BY <1>1 DEF Upload, Goes, Refused
<1>3. p \in Files /\ p \in Paths /\ LocalWork
  BY <1>1, <1>2 DEF TInv, JobTyped, Paths, Good, Watching, LocalPcs, During
<1>4. /\ i = rows[p].id /\ i # 0 /\ i \in Ids /\ v # 0 /\ v \in Nat
      /\ local[p] = 0 => Queued(Removed(p))
      /\ local[p] = v \/ Waits(p)
  BY <1>1, <1>2, <1>3, Facts DEF LocalWork, Good, IInv, Typed
<1>5. job'.path = p /\ job'.id = i /\ job'.md5 \in {0, v} /\ content' = v
  BY <1>1, <1>2 DEF TInv, JobTyped
<1>6. i # Root /\ remote[i].state \in {"live", "trashed"} /\ "live" \in States
  BY <1>2, <1>4, Facts DEF Good, Exists, States
<1>7. /\ item \in Item /\ item.name = remote[i].name /\ item.parent = remote[i].parent
      /\ item.state = remote[i].state /\ item.version = v
      /\ remote[i].parent # Root =>
           /\ remote[i].parent # i /\ IsDir(remote[i].parent) /\ Exists(remote[i].parent)
  <2>1. remote[i].state # "none" /\ Exists(i)
    BY <1>2, <1>6
  <2>2. /\ item \in Item /\ item.name = remote[i].name /\ item.parent = remote[i].parent
        /\ item.state = remote[i].state /\ item.version = v
    <3>1. remote[i] \in Item /\ v \in Nat
      BY <1>4 DEF IInv, Typed
    <3> QED
      BY <3>1 DEF Item
  <2>3. remote[i].parent # Root =>
          remote[i].parent # i /\ IsDir(remote[i].parent) /\ Exists(remote[i].parent)
    BY <1>4, <1>6, <2>1, OldItemParts
  <2> QED
    BY <2>2, <2>3
<1> HIDE DEF item
<1>8. DriveGoes
  BY <1>2, <1>4, <1>6, <1>7, PutGoes DEF Live
<1>9. \A q \in Files : rows[q].id # 0 =>
        remote'[rows[q].id].version = remote[rows[q].id].version \/ q = p
  <2>1. \A j \in Ids : j # i => remote'[j] = remote[j]
    BY <1>2 DEF Put, IInv, Typed
  <2> QED
    BY <1>3, <1>4, <2>1, Facts DEF Good, Paths
<1>10. LocalWork'
  <2>1. RowsOf(i) \subseteq {p}
    BY <1>3, <1>4, Facts DEF RowsOf, Good
  <2>2. LinkHolds(p, i)'
    <3>1. RowLinks'
      BY <1>2, <1>8, TreeStays DEF dbVars
    <3>2. rows'[p].id = i
      BY <1>2, <1>4 DEF dbVars
    <3> QED
      BY <1>3, <1>4, <3>1, <3>2 DEF RowLinks, LinkHolds, Linked, Parent, Live
  <2>3. p \notin Dirs
    BY <1>3, PathShape
  <2>4. LinkHolds(job.path, job.id)' /\ RowsOf(job.id)' \subseteq {job'.path}
    BY <1>2, <1>5, <2>1, <2>2 DEF RowsOf, dbVars, LinkHolds, Linked, Parent, Live
  <2>5. /\ local'[job'.path] = 0 => Queued(Removed(job.path))'
        /\ local'[job'.path] = content' \/ Waits(job.path)'
    BY <1>2, <1>4, <1>5 DEF Queued, Removed, Waits
  <2> QED
    BY <1>2, <1>4, <1>5, <2>3, <2>4, <2>5 DEF LocalWork
<1> QED
  BY <1>1, <1>2, <1>5, <1>8, <1>9, <1>10, OwnChangeKeepsGood DEF LocalPcs, dbVars, userVars

\* A new item lies in the root, or in the folder of the directory's row.
LEMMA NewItemGoes ==
    ASSUME TInv, IInv, Good, NEW i \in FreshIds, NEW v \in Nat, NewItem(i, v),
           job.path \in Paths, job.path \in Dirs \/ v # 0,
           job.parent # Root => IsDir(job.parent), Exists(job.parent)
    PROVE  /\ DriveGoes
           /\ i \in Ids /\ i # 0 /\ remote'[i].name = Last(job.path)
           /\ remote'[i].parent = job.parent
           /\ job'.path = job.path /\ job'.id = i /\ job'.md5 \in {0, v}
           /\ \A p \in Paths : rows[p].id # i
           /\ \A j \in Ids : j # i => remote'[j] = remote[j]
<1> DEFINE item == [name |-> Last(job.path), parent |-> job.parent, version |-> v,
                    state |-> "live"]
<1>1. /\ i \in Ids /\ i # 0 /\ remote[i].state = "none" /\ Put(i, item) /\ Changed({i})
      /\ job' = [job EXCEPT !.id = i, !.md5 = IF UploadAnswersMd5 THEN v ELSE 0]
  BY Facts DEF NewItem, FreshIds, Good
<1>2. job'.path = job.path /\ job'.id = i /\ job'.md5 \in {0, v}
  BY <1>1 DEF TInv, JobTyped
<1>3. Last(job.path) \in Names /\ (job.path \in Dirs => Last(job.path) \in DirNames)
  <2>1. Last(job.path) \in Names
    BY LastName
  <2>2. ASSUME job.path \in Dirs PROVE Last(job.path) \in DirNames
    <3>1. PICK d \in DirNames : job.path = <<d>>
      BY <2>2 DEF Dirs
    <3> QED
      BY <3>1 DEF Last
  <2> QED
    BY <2>1, <2>2
<1>4. job.parent \in Ids \cup {Root}
  BY DEF TInv, JobTyped
<1>5. /\ item \in Item /\ item.name = Last(job.path) /\ item.parent = job.parent
      /\ item.version = v /\ item.state = "live"
  BY <1>3, <1>4 DEF Item
<1>6. job.parent # Root => job.parent # i
  BY <1>1 DEF Exists
<1> HIDE DEF item
<1>7. DriveGoes
  BY <1>1, <1>3, <1>5, <1>6, PutGoes
<1>8. remote'[i] = item /\ \A j \in Ids : j # i => remote'[j] = remote[j]
  BY <1>1 DEF Put, IInv, Typed
<1>9. \A p \in Paths : rows[p].id # i
  BY <1>1, Facts DEF Good
<1> QED
  BY <1>1, <1>2, <1>5, <1>7, <1>8, <1>9

LEMMA NewFileKeepsGood ==
    ASSUME TInv, IInv, Good, Upload, job.id = 0
    PROVE  Good'
<1>1. PICK p, f, v : p = job.path /\ f = job.parent /\ v = content
  OBVIOUS
<1>2. PICK i \in FreshIds : NewItem(i, v)
  BY <1>1 DEF Upload
<1>3. /\ pc = "upload" /\ pc' = "record" /\ Exists(f)
      /\ UNCHANGED <<local, dbVars, frames, content, batch, queue, errors, userVars>>
  BY <1>1 DEF Upload, Goes, Refused
<1>4. p \in Files /\ p \in Paths /\ LocalWork
  BY <1>1, <1>3 DEF TInv, JobTyped, Paths, Good, Watching, LocalPcs, During
<1>5. /\ v # 0 /\ v \in Nat
      /\ local[p] = 0 => Queued(Removed(p))
      /\ local[p] = v \/ Waits(p)
      /\ f # Root => Linked(p, f)
  BY <1>1, <1>3, <1>4 DEF LocalWork, Good, IInv, Typed
<1>6. f # Root => IsDir(f)
  <2> SUFFICES ASSUME f # Root PROVE IsDir(f)
    OBVIOUS
  <2>1. rows[Above(p)].id = f /\ Above(p) \in Dirs
    BY <1>4, <1>5, PathShape DEF Linked
  <2> QED
    BY <2>1 DEF Good, RowKinds, Root
<1>7. /\ DriveGoes /\ i \in Ids /\ i # 0 /\ remote'[i].parent = f
      /\ job'.path = p /\ job'.id = i /\ job'.md5 \in {0, v}
      /\ \A q \in Paths : rows[q].id # i
      /\ \A j \in Ids : j # i => remote'[j] = remote[j]
  BY <1>1, <1>2, <1>3, <1>4, <1>5, <1>6, NewItemGoes
<1>8. \A q \in Files : rows[q].id # 0 =>
        remote'[rows[q].id].version = remote[rows[q].id].version
  BY <1>7, Facts DEF Good, Paths
<1>9. LocalWork'
  <2>1. RowsOf(i) = {}
    BY <1>7 DEF RowsOf
  <2>2. LinkHolds(p, i)'
    BY <1>3, <1>5, <1>7 DEF LinkHolds, Linked, Parent, dbVars
  <2>3. p \notin Dirs
    BY <1>4, PathShape
  <2>4. LinkHolds(job.path, job.id)' /\ RowsOf(job.id)' \subseteq {job'.path}
    BY <1>3, <1>7, <2>1, <2>2 DEF RowsOf, dbVars, LinkHolds, Linked, Parent, Live
  <2>5. /\ local'[job'.path] = 0 => Queued(Removed(job.path))'
        /\ local'[job'.path] = content' \/ Waits(job.path)'
    BY <1>1, <1>3, <1>5, <1>7 DEF Queued, Removed, Waits
  <2> QED
    BY <1>1, <1>3, <1>5, <1>7, <2>3, <2>4, <2>5 DEF LocalWork
<1> QED
  BY <1>1, <1>3, <1>7, <1>8, <1>9, OwnChangeKeepsGood DEF LocalPcs, dbVars, userVars

LEMMA CreateFolderKeepsGood ==
    ASSUME TInv, IInv, Good, CreateFolder
    PROVE  Good'
<1>1. PICK p : p = job.path
  OBVIOUS
<1>2. PICK i \in FreshIds : NewItem(i, 0)
  BY DEF CreateFolder
<1>3. /\ pc = "create" /\ pc' = "record"
      /\ UNCHANGED <<local, dbVars, frames, content, batch, queue, errors, userVars>>
  BY DEF CreateFolder, Goes
<1>4. p \in Dirs /\ p \in Paths /\ job.parent = Root /\ rows[p].id = 0
  BY <1>1, <1>3 DEF TInv, JobTyped, Paths, Good, Watching, LocalPcs, During, LocalWork
<1>5. /\ DriveGoes /\ i \in Ids /\ i # 0 /\ remote'[i].name = Last(p)
      /\ job'.path = p /\ job'.id = i /\ job'.md5 = 0
      /\ \A q \in Paths : rows[q].id # i
      /\ \A j \in Ids : j # i => remote'[j] = remote[j]
  BY <1>1, <1>2, <1>4, NewItemGoes DEF Exists
<1>6. \A q \in Files : rows[q].id # 0 =>
        remote'[rows[q].id].version = remote[rows[q].id].version
  BY <1>5, Facts DEF Good, Paths
<1>7. LocalWork'
  <2>1. RowsOf(i) = {}
    BY <1>5 DEF RowsOf
  <2>2. IsDir(i)'
    <3>1. PICK d \in DirNames : p = <<d>>
      BY <1>4 DEF Dirs
    <3> QED
      BY <1>5, <3>1 DEF IsDir, Last
  <2>3. p \notin Files
    BY <1>4, PathShape
  <2>4. IsDir(job.id)' /\ RowsOf(job.id)' \subseteq {job'.path}
    BY <1>3, <1>5, <2>1, <2>2 DEF RowsOf, dbVars, IsDir
  <2> QED
    BY <1>3, <1>4, <1>5, <2>3, <2>4 DEF LocalWork, dbVars
<1> QED
  BY <1>1, <1>3, <1>5, <1>6, <1>7, OwnChangeKeepsGood DEF LocalPcs, dbVars, userVars

LEMMA DeleteKeepsGood ==
    ASSUME TInv, IInv, Good, DeleteFile
    PROVE  Good'
<1>1. PICK p, i : p = job.path /\ i = job.id
  OBVIOUS
<1>2. /\ pc = "erase" /\ pc' = "forget" /\ Exists(i) /\ DeletePermanently(i)
      /\ UNCHANGED <<local, dbVars, frames, job, content, batch, queue, errors, userVars>>
  BY <1>1 DEF DeleteFile, Goes, Refused
<1>3. /\ p \in Paths /\ i \in Ids /\ i # 0 /\ rows[p].id = i
      /\ p \in Files /\ local[p] # 0 => Queued(Modified(p))
  <2>1. LocalWork
    BY <1>2 DEF Good, Watching, LocalPcs, During
  <2> QED
    BY <1>1, <1>2, <2>1 DEF LocalWork, TInv, JobTyped, LocalPcs
<1>4. /\ DriveGoes /\ remote'[i].state = "deleted"
      /\ \A j \in Ids : remote'[j].version = remote[j].version
  BY <1>2, <1>3, DeleteGoes
<1>5. \A q \in Files : rows[q].id # 0 =>
        remote'[rows[q].id].version = remote[rows[q].id].version
  BY <1>4, Facts DEF Good, Paths
<1>6. LocalWork'
  <2>1. ~Exists(job.id)'
    BY <1>1, <1>2, <1>3, <1>4 DEF Exists, Root
  <2> QED
    BY <1>1, <1>2, <1>3, <2>1 DEF LocalWork, dbVars, Queued, Modified
<1> QED
  BY <1>1, <1>2, <1>4, <1>5, <1>6, OwnChangeKeepsGood DEF LocalPcs, dbVars, userVars

-----------------------------------------------------------------------------
(* The rows of a path that was pushed to Drive.                            *)

LEMMA RecordUploadKeepsGood ==
    ASSUME TInv, IInv, Good, RecordUpload
    PROVE  Good'
<1>1. PICK p, i, m, v : p = job.path /\ i = job.id /\ m = job.md5 /\ v = content
  OBVIOUS
<1>2. /\ pc = "record" /\ pc' = "select" /\ Record(p, i, m) /\ errors' = errors \ {p}
      /\ UNCHANGED <<local, driveVars, hasToken, frames, batch, queue, userVars>>
  BY <1>1 DEF RecordUpload, Done
<1>3. /\ During /\ Watching /\ Watching' /\ pc \notin Applying /\ pc' \notin Applying
      /\ UNCHANGED <<remote, afterToken, afterNew>> /\ batch = {} /\ batch' = {}
  BY <1>2 DEF Good, Watching, LocalPcs, Applying, PollPcs, driveVars, BatchFolders
<1>4. /\ p \in Paths /\ i \in Ids /\ i # 0 /\ i \in afterToken /\ remote[i].state # "none"
      /\ p \in Files => ~IsDir(i)
  <2>1. p \in Paths /\ i # 0
    BY <1>1, <1>2 DEF TInv, JobTyped, LocalPcs
  <2>2. OfKind(p, i) /\ i \in afterToken
    BY <1>1, <1>2 DEF IInv, JobOK
  <2> QED
    BY <2>1, <2>2, NamesAssumption DEF OfKind, IsDir
<1>5. /\ RowsOf(i) \subseteq {p}
      /\ p \in Files => /\ local[p] = 0 => Queued(Removed(p))
                        /\ v # 0 /\ (local[p] = v \/ Waits(p))
                        /\ m \in {0, v} /\ LinkHolds(p, i)
      /\ p \in Dirs => rows[p].id = 0 /\ IsDir(i) /\ m = 0
  <2>1. LocalWork
    BY <1>3 DEF During
  <2> QED
    BY <1>1, <1>2, <2>1 DEF LocalWork
<1>6. /\ twice' = {}
      /\ \A q \in Paths : rows'[q] = IF q = p THEN [id |-> i, md5 |-> m] ELSE rows[q]
  BY <1>2, <1>5 DEF Record, Good, IInv, Typed
<1>7. \A q \in Files : \A f : f # 0 /\ Linked(q, f) => Linked(q, f)'
  <2> SUFFICES ASSUME NEW q \in Files, NEW f, f # 0, Len(q) = 2, rows[Above(q)].id = f
               PROVE  rows'[Above(q)].id = f
    BY DEF Linked
  <2>1. Above(q) \in Dirs /\ Above(q) \in Paths
    BY PathShape DEF Paths
  <2>2. Above(q) # p
    BY <1>5, <2>1
  <2> QED
    BY <1>6, <2>1, <2>2
<1>8. RowKinds'
  BY <1>3, <1>5, <1>6 DEF Good, RowKinds, IsDir, Paths
<1>9. RowLinks'
  <2> SUFFICES ASSUME NEW q \in Files, NEW j, NEW f, j = rows'[q].id, j # 0,
                      f = remote[j].parent, f # Root, Live(f)
               PROVE  Linked(q, f)'
    BY <1>3 DEF RowLinks, LinkHolds, Live, Parent, Linked
  <2>1. Linked(q, f)
    <3>1. CASE q = p
      <4>1. j = i
        BY <1>6, <3>1 DEF Paths
      <4> QED
        BY <1>5, <3>1, <4>1 DEF LinkHolds, Parent
    <3>2. CASE q # p
      <4>1. rows[q].id = j
        BY <1>6, <3>2 DEF Paths
      <4> QED
        BY <4>1 DEF Good, RowLinks, LinkHolds, Parent
    <3> QED
      BY <3>1, <3>2
  <2> QED
    BY <1>7, <2>1 DEF Root
<1>10. \A q : q # p /\ Excused(q) => Excused(q)'
  BY <1>2 DEF Excused, Waits
<1>11. \A q : (AtWork(q) => q = p) /\ ~AtWork(q)'
  BY <1>1, <1>2 DEF AtWork, LocalPcs
<1>12. /\ After' = After /\ \A j : Coming(j) => Coming(j)'
       /\ \A f : Going(f) => Going(f)'
  BY <1>2, <1>3 DEF After, Coming, Going, RowPcs, PollPcs
<1>13. NoneForgotten'
  <2> SUFFICES ASSUME NEW q \in Files PROVE Excused(q)' \/ OnCourse(q)'
    BY DEF NoneForgotten
  <2>1. CASE q = p
    <3>1. rows'[q].id = i
      BY <1>4, <1>6, <2>1
    <3>2. Coming(i)'
      BY <1>3, <1>4 DEF Coming, After
    <3> QED
      BY <1>4, <3>1, <3>2 DEF OnCourse
  <2>2. CASE q # p /\ ~Excused(q)
    <3>1. OnCourse(q)
      BY <1>11, <2>2 DEF Good, NoneForgotten
    <3>2. rows'[q].id = rows[q].id /\ local'[q] = local[q]
      BY <1>2, <1>6, <2>2 DEF Paths
    <3>3. \A f \in Ids : Linked(q, f) /\ Going(f) => Linked(q, f)' /\ Going(f)'
      BY <1>7, <1>12, Facts DEF Good
    <3> QED
      BY <1>3, <1>12, <3>1, <3>2, <3>3, CourseStays
  <2> QED
    BY <1>10, <2>1, <2>2
<1>14. Vanished'
  <2> SUFFICES ASSUME NEW q \in Files, rows'[q].id # 0, local[q] = 0
               PROVE  Queued(Removed(q))' \/ q \in errors'
    BY <1>2 DEF Vanished, Queued, Removed
  <2>1. CASE q = p
    BY <1>2, <1>5, <2>1 DEF Queued, Removed
  <2>2. CASE q # p
    <3>1. rows[q].id # 0
      BY <1>6, <2>2 DEF Paths
    <3>2. Queued(Removed(q)) \/ q \in errors
      BY <1>2, <1>3, <3>1 DEF During, Vanished
    <3> QED
      BY <1>2, <2>2, <3>2 DEF Queued, Removed
  <2> QED
    BY <2>1, <2>2
<1>15. RowsTrue'
  <2> SUFFICES ASSUME NEW q \in Files, NEW j, j = rows'[q].id, j # 0, Live(j),
                      remote[j].version = rows'[q].md5
               PROVE  local[q] = remote[j].version \/ Excused(q)'
    BY <1>2, <1>3 DEF RowsTrue, Live, Excused, Waits, AtWork
  <2>1. CASE q = p
    <3>1. j = i /\ rows'[q].md5 = m
      BY <1>4, <1>6, <2>1
    <3>2. remote[i].version # 0
      BY <1>4, <2>1 DEF Good, DriveTree
    <3>3. remote[i].version = v
      BY <1>5, <2>1, <3>1, <3>2
    <3> QED
      BY <1>2, <1>5, <2>1, <3>1, <3>3 DEF Excused, Waits
  <2>2. CASE q # p
    <3>1. rows[q] = rows'[q]
      BY <1>6, <2>2 DEF Paths
    <3>2. local[q] = remote[j].version \/ Excused(q) \/ AtWork(q)
      BY <1>3, <3>1 DEF During, RowsTrue
    <3> QED
      BY <1>10, <1>11, <2>2, <3>2
  <2> QED
    BY <2>1, <2>2
<1>16. QueueOrder' /\ LocalWork' /\ PollWork' /\ BatchFolders'
  BY <1>2, <1>3 DEF During, QueueOrder, Answered, LocalWork, PollWork, RowPcs, PollPcs,
     BatchFolders
<1>17. LocalTree' /\ DriveTree' /\ Once' /\ ~Initial'
  BY <1>2, <1>3, StillWatching DEF userVars
<1> QED
  BY <1>6, <1>8, <1>9, <1>13, <1>14, <1>15, <1>16, <1>17 DEF Good, During

\* A folder that is gone from Drive holds nothing there.
LEMMA NothingInside ==
    ASSUME TInv, IInv, Good, NEW j \in Ids, Live(j), Parent(j) # Root
    PROVE  Exists(Parent(j))
<1>1. remote[j].state # "none" /\ Exists(j)
  BY DEF Live, Exists
<1> QED
  BY <1>1 DEF Good, DriveTree

LEMMA ForgetKeepsGood ==
    ASSUME TInv, IInv, Good, ForgetDeleted
    PROVE  Good'
<1>1. PICK p, i : p = job.path /\ i = job.id
  OBVIOUS
<1>2. /\ pc = "forget" /\ pc' = "select" /\ RemoveRowOf(p) /\ errors' = errors \ {p}
      /\ UNCHANGED <<local, driveVars, hasToken, frames, batch, queue, userVars>>
  BY <1>1 DEF ForgetDeleted, Done
<1>3. /\ During /\ Watching /\ Watching' /\ pc \notin Applying /\ pc' \notin Applying
      /\ UNCHANGED <<remote, afterToken, afterNew>> /\ batch = {} /\ batch' = {}
  BY <1>2 DEF Good, Watching, LocalPcs, Applying, PollPcs, driveVars, BatchFolders
<1>4. /\ p \in Paths /\ rows[p].id = i /\ ~Exists(i)
      /\ p \in Files /\ local[p] # 0 => Queued(Modified(p))
  <2>1. LocalWork
    BY <1>3 DEF During
  <2> QED
    BY <1>1, <1>2, <2>1 DEF LocalWork, TInv, JobTyped, LocalPcs
<1>5. \A q \in Paths : rows'[q] = IF q = p THEN NoRow ELSE rows[q]
  BY <1>2 DEF RemoveRowOf, IInv, Typed
<1>6. NoRow.id = 0 /\ twice' = {}
  BY <1>2 DEF NoRow, RemoveRowOf, Good
<1>7. \A q \in Files : \A f : Linked(q, f) => Linked(q, f)' \/ f = i
  <2> SUFFICES ASSUME NEW q \in Files, NEW f, Len(q) = 2, rows[Above(q)].id = f, f # i
               PROVE  rows'[Above(q)].id = f
    BY DEF Linked
  <2>1. Above(q) \in Paths
    BY PathShape DEF Paths
  <2> QED
    BY <1>4, <1>5, <2>1
<1>8. ~Live(i) /\ \A j \in Ids : Live(j) => Parent(j) # i
  <2>1. ~Live(i) /\ i # Root
    BY <1>4 DEF Live, Exists
  <2> QED
    BY <1>4, <2>1, NothingInside
<1>9. RowKinds'
  BY <1>3, <1>5, <1>6 DEF Good, RowKinds, IsDir, Paths
<1>10. RowLinks'
  <2> SUFFICES ASSUME NEW q \in Files, NEW j, NEW f, j = rows'[q].id, j # 0,
                      f = remote[j].parent, f # Root, Live(f)
               PROVE  Linked(q, f)'
    BY <1>3 DEF RowLinks, LinkHolds, Live, Parent, Linked
  <2>1. rows[q].id = j
    BY <1>5, <1>6 DEF Paths
  <2>2. Linked(q, f)
    BY <2>1 DEF Good, RowLinks, LinkHolds, Parent
  <2> QED
    BY <1>7, <1>8, <2>2
<1>11. \A q : q # p /\ Excused(q) => Excused(q)'
  BY <1>2 DEF Excused, Waits
<1>12. \A q : (AtWork(q) => q = p) /\ ~AtWork(q)'
  BY <1>1, <1>2 DEF AtWork, LocalPcs
<1>13. /\ After' = After /\ \A j : Coming(j) => Coming(j)'
       /\ \A f : Going(f) => Going(f)'
  BY <1>2, <1>3 DEF After, Coming, Going, RowPcs, PollPcs
<1>14. NoneForgotten'
  <2> SUFFICES ASSUME NEW q \in Files PROVE Excused(q)' \/ OnCourse(q)'
    BY DEF NoneForgotten
  <2>1. CASE q = p
    <3>1. rows'[q].id = 0
      BY <1>4, <1>5, <1>6, <2>1
    <3>2. local[q] # 0 => Waits(q)'
      <4>1. local[q] # 0 => Waits(q)
        BY <1>4, <2>1, QueuedWaits
      <4> QED
        BY <1>2, <4>1 DEF Waits
    <3> QED
      BY <1>2, <3>1, <3>2 DEF OnCourse, Excused
  <2>2. CASE q # p /\ ~Excused(q)
    <3>1. OnCourse(q)
      BY <1>12, <2>2 DEF Good, NoneForgotten
    <3>2. rows'[q].id = rows[q].id /\ local'[q] = local[q]
      BY <1>2, <1>5, <2>2 DEF Paths
    <3>3. PICK j : j = rows[q].id
      OBVIOUS
    <3>4. CASE j = 0
      BY <3>1, <3>2, <3>3, <3>4 DEF OnCourse
    <3>5. CASE j # 0 /\ Coming(j)
      <4>1. Coming(j)'
        BY <1>13, <3>5
      <4> QED
        BY <3>2, <3>3, <3>5, <4>1 DEF OnCourse
    <3>6. CASE j # 0 /\ Live(j) /\ local[q] = remote[j].version /\ InFolder(q, j)
      <4>1. j \in Ids /\ Parent(j) # i
        BY <1>8, <3>3, <3>6, Facts DEF Good, Paths
      <4>2. \A f : f = Parent(j) /\ Linked(q, f) => Linked(q, f)'
        BY <1>7, <4>1
      <4>3. InFolder(q, j)'
        <5>1. PICK f : f = Parent(j)
          OBVIOUS
        <5>2. f = Root \/ Live(f) \/ (Linked(q, f)' /\ Going(f)')
          BY <1>13, <3>6, <4>2, <5>1 DEF InFolder
        <5>3. Parent(j)' = f
          BY <1>3, <5>1 DEF Parent
        <5> QED
          BY <1>3, <5>2, <5>3 DEF InFolder, Parent, Live
      <4> QED
        BY <1>2, <1>3, <3>2, <3>3, <3>6, <4>3 DEF OnCourse, Live
    <3> QED
      BY <3>1, <3>3, <3>4, <3>5, <3>6 DEF OnCourse
  <2> QED
    BY <1>11, <2>1, <2>2
<1>15. Vanished'
  <2> SUFFICES ASSUME NEW q \in Files, rows'[q].id # 0, local[q] = 0
               PROVE  Queued(Removed(q))' \/ q \in errors'
    BY <1>2 DEF Vanished, Queued, Removed
  <2>1. q # p /\ rows[q].id # 0
    BY <1>5, <1>6 DEF Paths
  <2>2. Queued(Removed(q)) \/ q \in errors
    BY <1>1, <1>2, <1>3, <2>1 DEF During, Vanished
  <2> QED
    BY <1>2, <2>1, <2>2 DEF Queued, Removed
<1>16. RowsTrue'
  <2> SUFFICES ASSUME NEW q \in Files, NEW j, j = rows'[q].id, j # 0, Live(j),
                      remote[j].version = rows'[q].md5
               PROVE  local[q] = remote[j].version \/ Excused(q)'
    BY <1>2, <1>3 DEF RowsTrue, Live, Excused, Waits, AtWork
  <2>1. q # p /\ rows[q] = rows'[q]
    BY <1>5, <1>6 DEF Paths
  <2>2. local[q] = remote[j].version \/ Excused(q) \/ AtWork(q)
    BY <1>3, <2>1 DEF During, RowsTrue
  <2> QED
    BY <1>11, <1>12, <2>1, <2>2
<1>17. QueueOrder' /\ LocalWork' /\ PollWork' /\ BatchFolders'
  BY <1>2, <1>3 DEF During, QueueOrder, Answered, LocalWork, PollWork, RowPcs, PollPcs,
     BatchFolders
<1>18. LocalTree' /\ DriveTree' /\ Once' /\ ~Initial'
  BY <1>2, <1>3, StillWatching DEF userVars
<1> QED
  BY <1>6, <1>9, <1>10, <1>14, <1>15, <1>16, <1>17, <1>18 DEF Good, During

-----------------------------------------------------------------------------
(* A poll of Drive's changes.                                              *)

LEMMA PollLookKeepsGood ==
    ASSUME TInv, IInv, Good, pc \in PollPcs, pc' \in PollPcs \cup {"select"},
           UNCHANGED <<local, remote, rows, twice, queue>>,
           \A p \in Files : p \in errors => p \in errors',
           afterToken' \subseteq afterToken \cup afterNew,
           afterNew' \subseteq afterToken \cup afterNew,
           left'["move"] = left["move"], left'["start"] = left["start"],
           \A p \in Files : OnCourse(p) /\ ~Excused(p) => OnCourse(p)',
           BatchFolders', PollWork'
    PROVE  Good'
<1>1. Watching /\ Watching' /\ During
  BY DEF Watching, Good
<1>2. /\ LocalTree' /\ DriveTree' /\ Once' /\ ~Initial'
      /\ RowKinds' /\ RowLinks' /\ twice' = {}
  BY <1>1, StillWatching, RowsStay
<1>3. \A p \in Files : ~AtWork(p) /\ ~AtWork(p)' /\ (Excused(p) => Excused(p)')
  BY DEF AtWork, LocalPcs, PollPcs, Excused, Waits
<1>4. NoneForgotten'
  BY <1>3 DEF Good, NoneForgotten
<1>5. Vanished' /\ QueueOrder' /\ LocalWork'
  BY <1>1 DEF During, Vanished, QueueOrder, Queued, Answered, LocalWork, PollPcs
<1>6. RowsTrue'
  <2> SUFFICES ASSUME NEW p \in Files, rows[p].id # 0, Live(rows[p].id),
                      remote[rows[p].id].version = rows[p].md5
               PROVE  local[p] = remote[rows[p].id].version \/ Excused(p)'
    BY DEF RowsTrue, Live, Excused, Waits, AtWork
  <2>1. local[p] = remote[rows[p].id].version \/ Excused(p) \/ AtWork(p)
    BY <1>1 DEF During, RowsTrue
  <2> QED
    BY <1>3, <2>1
<1> QED
  BY <1>1, <1>2, <1>4, <1>5, <1>6 DEF Good, During

\* Of a folder, Drive's answer tells whether it is there.
LEMMA FoldersListed ==
    ASSUME TInv, IInv, Good, NEW i \in Ids
    PROVE  /\ IsDir(i) => (~Live(i) \/ InTrash(i) <=> ~Live(i)) /\ remote[i].version = 0
           /\ Live(i) /\ ~InTrash(i) => Parent(i) = Root \/ (IsDir(Parent(i)) /\ Live(Parent(i)))
<1>1. IsDir(i) => (~Live(i) \/ InTrash(i) <=> ~Live(i)) /\ remote[i].version = 0
  BY Facts DEF Good, Live, InTrash, Parent
<1>2. ASSUME Live(i), ~InTrash(i), Parent(i) # Root
      PROVE  IsDir(Parent(i)) /\ Live(Parent(i))
  <2>1. PICK f \in Ids : f = remote[i].parent
    BY <1>2, Facts DEF Good, Parent
  <2>2. remote[i].state # "none" /\ Exists(i)
    BY <1>2 DEF Live, Exists
  <2>3. IsDir(f) /\ Exists(f) /\ f # Root
    BY <1>2, <2>1, <2>2 DEF Good, DriveTree, Parent
  <2>4. remote[f].state # "trashed"
    BY <1>2, <2>1, <2>3 DEF InTrash
  <2> QED
    BY <2>1, <2>3, <2>4 DEF Exists, Live, Parent
<1> QED
  BY <1>1, <1>2

LEMMA ListChangesKeepsGood ==
    ASSUME TInv, IInv, Good, ListChanges
    PROVE  Good'
<1> DEFINE change(i) == [id |-> i, gone |-> ~Live(i) \/ InTrash(i), md5 |-> remote[i].version]
<1>1. /\ pc = "changes" /\ pc' = "apply" /\ batch' = {change(i) : i \in afterToken}
      /\ afterNew' = {} /\ afterToken' = afterToken
      /\ UNCHANGED <<local, remote, dbVars, frames, job, content, queue, errors, userVars>>
  BY DEF ListChanges, Goes
<1>2. afterToken \subseteq Ids
  BY Facts DEF Good
<1>3. \A i : change(i).id = i /\ change(i).gone = (~Live(i) \/ InTrash(i))
             /\ change(i).md5 = remote[i].version
  OBVIOUS
<1>4. batch = {}
  BY <1>1 DEF Good, BatchFolders, Applying
<1> HIDE DEF change
<1>5. ASSUME NEW p \in Files, OnCourse(p) PROVE OnCourse(p)'
  <2>1. ASSUME NEW i, Coming(i) PROVE Coming(i)'
    <3>1. i \in afterToken
      BY <1>1, <1>4, <2>1 DEF Coming, After, Applying, RowPcs
    <3>2. change(i) \in batch' /\ change(i).id = i
      BY <1>1, <1>3, <3>1
    <3> QED
      BY <3>2 DEF Coming
  <2>2. ASSUME NEW f \in Ids, Linked(p, f), Going(f)
        PROVE  (Linked(p, f)' /\ Going(f)') \/ Live(f)
    <3>1. f \in afterToken
      BY <1>1, <1>4, <2>2 DEF Going, After, Applying
    <3>2. change(f) \in batch' /\ change(f).id = f
      BY <1>1, <1>3, <3>1
    <3>3. Linked(p, f)'
      BY <1>1, <2>2 DEF Linked, dbVars
    <3>4. CASE ~Live(f)
      <4>1. change(f).gone
        BY <1>3, <3>4
      <4> QED
        BY <3>2, <3>3, <4>1 DEF Going
    <3> QED
      BY <3>4
  <2> QED
    BY <1>1, <1>5, <2>1, <2>2, CourseStays DEF dbVars
<1>6. BatchFolders'
  <2> SUFFICES ASSUME NEW i \in afterToken
               PROVE  /\ IsDir(i) => /\ change(i).md5 = 0
                                     /\ change(i).gone => ~Live(i)
                      /\ ~change(i).gone =>
                           /\ Parent(i) = Root \/ Live(Parent(i))
                           /\ ~\E g \in batch' : g.id = Parent(i) /\ g.gone
    <3>1. \A c \in batch' : \E i \in afterToken : c = change(i) /\ c.id = i
      BY <1>1, <1>3
    <3>2. pc' = "apply" /\ pc' \in Applying
      BY <1>1 DEF Applying, PollPcs
    <3> QED
      BY <1>1, <3>1, <3>2 DEF BatchFolders, IsDir, Live, Parent
  <2>1. i \in Ids
    BY <1>2
  <2>2. IsDir(i) => change(i).md5 = 0 /\ (change(i).gone => ~Live(i))
    BY <1>3, <2>1, FoldersListed
  <2>3. ASSUME ~change(i).gone
        PROVE  /\ Parent(i) = Root \/ Live(Parent(i))
               /\ ~\E g \in batch' : g.id = Parent(i) /\ g.gone
    <3>1. Parent(i) = Root \/ (IsDir(Parent(i)) /\ Live(Parent(i)))
      BY <1>3, <2>1, <2>3, FoldersListed
    <3>2. ASSUME NEW g \in batch', g.id = Parent(i), g.gone PROVE FALSE
      <4>1. PICK j \in afterToken : g = change(j)
        BY <1>1
      <4>2. j = Parent(i) /\ j \in Ids /\ change(j).gone
        BY <1>2, <1>3, <3>2, <4>1
      <4>3. j # Root
        BY <4>2, Facts DEF Good
      <4> QED
        BY <1>3, <3>1, <4>2, <4>3, FoldersListed
    <3> QED
      BY <3>1, <3>2
  <2> QED
    BY <2>2, <2>3
<1>7. PollWork'
  BY <1>1 DEF PollWork, RowPcs
<1> QED
  BY <1>1, <1>5, <1>6, <1>7, PollLookKeepsGood DEF PollPcs, dbVars, userVars

\* A change that is passed over is one the row, and the local file, have already.
LEMMA SkippedIsHere ==
    ASSUME TInv, IInv, Good, pc = "apply", NEW c \in batch, ~c.gone, NEW p \in Files,
           rows[p].id = c.id, rows[p].md5 = c.md5, ~Excused(p)
    PROVE  \/ c.id \in afterNew
           \/ /\ Live(c.id) /\ local[p] = remote[c.id].version
              /\ \/ Parent(c.id) = Root \/ Live(Parent(c.id))
                 \/ Linked(p, Parent(c.id)) /\ Parent(c.id) \in afterNew
<1>1. c.id \in Ids /\ c.id # 0
  BY Facts DEF Good
<1>2. c.id \in afterNew \/ (Live(c.id) /\ remote[c.id].version = c.md5)
  BY <1>1 DEF IInv, PollOK, Applying, PollPcs, UpToDate, Live
<1>3. ASSUME Live(c.id), remote[c.id].version = c.md5 PROVE local[p] = remote[c.id].version
  <2>1. Watching /\ ~AtWork(p)
    BY DEF Watching, PollPcs, AtWork, LocalPcs
  <2> QED
    BY <1>1, <1>3, <2>1 DEF Good, During, RowsTrue
<1>4. \/ c.id \in afterNew \/ Parent(c.id) = Root \/ Live(Parent(c.id))
      \/ Parent(c.id) \in afterNew /\ Linked(p, Parent(c.id))
  BY DEF Good, BatchFolders
<1> QED
  BY <1>2, <1>3, <1>4

LEMMA ApplyChangeKeepsGood ==
    ASSUME TInv, IInv, Good, ApplyChange
    PROVE  Good'
<1>1. PICK c \in batch :
         /\ batch' = batch \ {c}
         /\ IF RowsOf(c.id) = {}
            THEN UNCHANGED <<pc, job>>
            ELSE \E p \in RowsOf(c.id) :
                   IF ~c.gone /\ rows[p].md5 = c.md5
                   THEN UNCHANGED <<pc, job>>
                   ELSE /\ job' = [path |-> p, id |-> c.id, md5 |-> c.md5, parent |-> 0]
                        /\ pc' = IF c.gone THEN "remove" ELSE "refetch"
  BY DEF ApplyChange
<1>2. /\ pc = "apply"
      /\ UNCHANGED <<local, driveVars, dbVars, frames, content, queue, errors, userVars>>
  BY DEF ApplyChange
<1>3. /\ c.id \in Ids /\ c.id # 0 /\ c.gone \in BOOLEAN /\ c.id \in afterToken
      /\ UNCHANGED <<remote, afterToken, afterNew, rows, twice>>
  BY <1>2, Facts DEF Good, BatchFolders, driveVars, dbVars
<1>4. CASE /\ UNCHANGED <<pc, job>>
           /\ RowsOf(c.id) # {} => \E p \in RowsOf(c.id) : ~c.gone /\ rows[p].md5 = c.md5
  <2>1. ASSUME NEW q \in Files, OnCourse(q), ~Excused(q) PROVE OnCourse(q)'
    <3>1. PICK i : i = rows[q].id
      OBVIOUS
    <3>2. CASE i = c.id
      <4>1. ~c.gone /\ rows[q].md5 = c.md5
        <5>1. q \in RowsOf(c.id) /\ q \in Paths
          BY <3>1, <3>2 DEF RowsOf, Paths
        <5>2. PICK p \in RowsOf(c.id) : ~c.gone /\ rows[p].md5 = c.md5
          BY <1>4, <5>1
        <5>3. p = q
          BY <1>3, <3>1, <3>2, <5>1, <5>2, Facts DEF RowsOf, Good
        <5> QED
          BY <5>2, <5>3
      <4>2. \/ i \in afterNew
            \/ /\ Live(i) /\ local[q] = remote[i].version
               /\ \/ Parent(i) = Root \/ Live(Parent(i))
                  \/ Linked(q, Parent(i)) /\ Parent(i) \in afterNew
        BY <1>2, <2>1, <3>1, <3>2, <4>1, SkippedIsHere
      <4>3. After' = afterNew
        BY <1>2, <1>3, <1>4 DEF After, Applying, PollPcs
      <4>4. CASE i \in afterNew
        <5>1. Coming(i)'
          BY <4>3, <4>4 DEF Coming
        <5> QED
          BY <1>3, <3>1, <3>2, <5>1 DEF OnCourse
      <4>5. CASE /\ Live(i) /\ local[q] = remote[i].version
                 /\ \/ Parent(i) = Root \/ Live(Parent(i))
                    \/ Linked(q, Parent(i)) /\ Parent(i) \in afterNew
        <5>1. PICK f : f = Parent(i)
          OBVIOUS
        <5>2. f = Root \/ Live(f) \/ (Linked(q, f)' /\ Going(f)')
          BY <1>3, <4>3, <4>5, <5>1 DEF Linked, Going
        <5>3. InFolder(q, i)'
          BY <1>3, <5>1, <5>2 DEF InFolder, Parent, Live
        <5> QED
          BY <1>2, <1>3, <3>1, <3>2, <4>5, <5>3 DEF OnCourse, Live
      <4> QED
        BY <4>2, <4>4, <4>5
    <3>3. CASE i # c.id
      <4>1. \A j \in Ids : j = i /\ Coming(j) => Coming(j)'
        BY <1>1, <1>3, <1>4, <3>3 DEF Coming, After
      <4>2. ASSUME NEW f \in Ids, Linked(q, f), Going(f) PROVE Linked(q, f)' /\ Going(f)'
        <5>1. ASSUME f = c.id PROVE ~c.gone
          <6>1. Above(q) \in RowsOf(f)
            BY <4>2, PathShape DEF Linked, RowsOf, Paths
          <6> QED
            BY <1>4, <5>1, <6>1
        <5>2. Going(f)'
          BY <1>1, <1>3, <1>4, <4>2, <5>1 DEF Going, After
        <5> QED
          BY <1>3, <4>2, <5>2 DEF Linked
      <4> QED
        BY <1>2, <1>3, <2>1, <3>1, <4>1, <4>2, CourseStays
    <3> QED
      BY <3>2, <3>3
  <2>2. BatchFolders'
    BY <1>1, <1>2, <1>3, <1>4 DEF Good, BatchFolders, Applying, PollPcs, IsDir, Live, Parent,
       Linked
  <2>3. PollWork'
    BY <1>2, <1>4 DEF PollWork, RowPcs
  <2> QED
    BY <1>2, <1>3, <1>4, <2>1, <2>2, <2>3, PollLookKeepsGood DEF PollPcs, userVars
<1>5. ASSUME NEW p \in RowsOf(c.id), c.gone \/ rows[p].md5 # c.md5,
             job' = [path |-> p, id |-> c.id, md5 |-> c.md5, parent |-> 0],
             pc' = IF c.gone THEN "remove" ELSE "refetch"
      PROVE  Good'
  <2>1. /\ job'.path = p /\ job'.id = c.id /\ p \in Paths /\ rows[p].id = c.id
        /\ pc' \in RowPcs /\ pc' \in Applying
    BY <1>3, <1>5 DEF RowsOf, RowPcs, Applying, PollPcs
  <2>2. p \in Dirs => IsDir(c.id) /\ rows[p].md5 = 0 /\ c.md5 = 0 /\ (c.gone => ~Live(c.id))
    BY <1>3, <2>1 DEF Good, RowKinds, BatchFolders
  <2>3. After' = After
    BY <1>2, <1>3, <2>1 DEF After, Applying, PollPcs
  <2>4. \A i : Coming(i) => Coming(i)'
    BY <1>1, <1>2, <2>1, <2>3 DEF Coming, RowPcs
  <2>5. \A f : Going(f) => Going(f)'
    BY <1>1, <1>2, <1>5, <2>1, <2>3 DEF Going
  <2>6. \A q \in Files : OnCourse(q) => OnCourse(q)'
    BY <1>2, <1>3, <2>4, <2>5, CourseStays DEF Linked
  <2>7. BatchFolders'
    <3>1. pc' = "remove" => c.gone
      BY <1>5
    <3>2. pc' # "unrow"
      BY <1>5
    <3> QED
      BY <1>1, <1>3, <2>1, <3>1, <3>2 DEF Good, BatchFolders, IsDir, Live, Parent, Linked
  <2>8. PollWork'
    <3>1. pc' = "refetch" => p \in Files
      BY <1>5, <2>1, <2>2 DEF Paths
    <3>2. pc' = "remove" /\ p \in Dirs => ~Live(c.id)
      BY <1>5, <2>2
    <3> QED
      BY <1>3, <1>5, <2>1, <3>1, <3>2 DEF PollWork, Live
  <2> QED
    BY <1>2, <1>3, <2>1, <2>6, <2>7, <2>8, PollLookKeepsGood
       DEF PollPcs, RowPcs, userVars
<1> QED
  <2>1. CASE UNCHANGED <<pc, job>>
    <3>1. RowsOf(c.id) # {} => \E p \in RowsOf(c.id) : ~c.gone /\ rows[p].md5 = c.md5
      BY <1>1, <1>2, <2>1
    <3> QED
      BY <1>4, <2>1, <3>1
  <2>2. CASE ~UNCHANGED <<pc, job>>
    BY <1>1, <1>5, <2>2
  <2> QED
    BY <2>1, <2>2

LEMMA RefetchKeepsGood ==
    ASSUME TInv, IInv, Good, Download("refetch", "rewrite")
    PROVE  Good'
<1>1. /\ pc = "refetch" /\ pc' = "rewrite" /\ content' = remote[job.id].version
      /\ UNCHANGED <<local, driveVars, dbVars, frames, job, batch, queue, errors, userVars>>
  BY DEF Download, Goes
<1>2. /\ PollWork /\ pc \in PollPcs /\ pc' \in PollPcs
      /\ UNCHANGED <<remote, afterToken, afterNew, rows, twice>>
  BY <1>1 DEF Good, During, Watching, PollPcs, driveVars, dbVars
<1>3. remote[job.id].version # 0
  <2>1. job.path \in Files
    BY <1>1, <1>2 DEF PollWork
  <2>2. job.id \in Ids /\ remote[job.id].state # "none" /\ ~IsDir(job.id)
    BY <1>1, <2>1, NamesAssumption DEF IInv, JobOK, OfKind, IsDir
  <2> QED
    BY <2>2 DEF Good, DriveTree
<1>4. After' = After /\ \A i : Coming(i) => Coming(i)'
  BY <1>1, <1>2 DEF After, Coming, Applying, RowPcs, PollPcs
<1>5. \A f : Going(f) => Going(f)'
  BY <1>1, <1>4 DEF Going
<1>6. \A q \in Files : OnCourse(q) => OnCourse(q)'
  BY <1>1, <1>2, <1>4, <1>5, CourseStays DEF Linked
<1>7. BatchFolders'
  BY <1>1, <1>2 DEF Good, BatchFolders, Applying, IsDir, Live, Parent, Linked, PollPcs
<1>8. PollWork'
  BY <1>1, <1>2, <1>3 DEF PollWork, RowPcs, PollPcs
<1> QED
  BY <1>1, <1>2, <1>6, <1>7, <1>8, PollLookKeepsGood DEF userVars

LEMMA SetTokenKeepsGood ==
    ASSUME TInv, IInv, Good, SetToken
    PROVE  Good'
<1>1. /\ pc = "apply" /\ pc' = "select" /\ batch = {} /\ afterToken' = afterNew
      /\ errors' = errors \ {RemoteWork}
      /\ UNCHANGED <<local, remote, afterNew, dbVars, frames, batch, queue, userVars>>
  BY DEF SetToken, Done
<1>2. \A p \in Files : p # RemoteWork
  <2>1. Len(RemoteWork) = 3
    BY DEF RemoteWork
  <2> QED
    BY <2>1, PathShape DEF Paths
<1>3. After' = After /\ \A i : Coming(i) => Coming(i)'
  BY <1>1 DEF After, Coming, Applying, RowPcs, PollPcs
<1>4. \A f : Going(f) => Going(f)'
  BY <1>1, <1>3 DEF Going
<1>5. \A q \in Files : OnCourse(q) => OnCourse(q)'
  BY <1>1, <1>3, <1>4, CourseStays DEF Linked, dbVars
<1>6. BatchFolders' /\ PollWork'
  BY <1>1 DEF BatchFolders, PollWork, RowPcs, PollPcs
<1> QED
  BY <1>1, <1>2, <1>5, <1>6, PollLookKeepsGood DEF PollPcs, dbVars, userVars

\* The token has not moved: what a failed poll has left is listed again.
LEMMA FailedPollKeepsGood ==
    ASSUME TInv, IInv, Good, Failed, pc \in Applying
    PROVE  Good'
<1>1. /\ pc' = "select" /\ batch' = {} /\ errors \subseteq errors'
      /\ UNCHANGED <<local, driveVars, dbVars, queue, clock>>
      /\ UNCHANGED left \/ Spend("fault")
  BY DEF Failed, Applying, PollPcs, InitialPcs
<1>2. left'["move"] = left["move"] /\ left'["start"] = left["start"]
  <2>1. left \in [Kinds -> Nat] /\ "move" \in Kinds /\ "start" \in Kinds
    BY DEF TInv, BudgetTyped, Kinds
  <2> QED
    BY <1>1, <2>1 DEF Spend
<1>3. /\ pc \in PollPcs /\ PollWork /\ afterNew \subseteq afterToken
      /\ UNCHANGED <<remote, afterToken, afterNew, rows, twice>>
  BY <1>1 DEF Applying, Good, During, Watching, IInv, PollOK, driveVars, dbVars
<1>4. After = afterNew /\ After' = afterToken
  BY <1>1, <1>3 DEF After, Applying, PollPcs
<1>5. \A c \in batch : c.id \in afterToken
  BY DEF Good, BatchFolders
<1>6. \A i : Coming(i) => Coming(i)'
  BY <1>3, <1>4, <1>5 DEF Coming, PollWork
<1>7. \A f : Going(f) => Going(f)'
  BY <1>3, <1>4, <1>5 DEF Going, PollWork, RowPcs, PollPcs
<1>8. \A q \in Files : OnCourse(q) => OnCourse(q)'
  BY <1>1, <1>3, <1>6, <1>7, CourseStays DEF Linked
<1>9. BatchFolders' /\ PollWork'
  BY <1>1 DEF BatchFolders, PollWork, RowPcs, PollPcs
<1> QED
  BY <1>1, <1>2, <1>3, <1>8, <1>9, PollLookKeepsGood

-----------------------------------------------------------------------------
(* What a poll does in the local tree.                                     *)

\* What is removed with a directory has left events of its own.
LEMMA RemoveLocalKeepsGood ==
    ASSUME TInv, IInv, Good, RemoveLocal
    PROVE  Good'
<1>1. PICK p, i : p = job.path /\ i = job.id
  OBVIOUS
<1>2. /\ pc = "remove" /\ pc' = "unrow"
      /\ IF local[p] # 0 THEN LocalDelete(p) ELSE UNCHANGED <<local, queue>>
      /\ UNCHANGED <<driveVars, dbVars, frames, job, content, batch, errors, userVars>>
  BY <1>1 DEF RemoveLocal, Goes
<1>3. /\ Watching /\ Watching' /\ ~Initial' /\ During /\ p \in Paths /\ rows[p].id = i
      /\ i \in afterToken /\ (p \in Dirs => ~Live(i))
      /\ (p \in Paths => p \in Files \/ p \in Dirs)
      /\ UNCHANGED <<remote, afterToken, rows, twice>>
  <2>1. Watching /\ Watching' /\ ~Initial' /\ p \in Paths
    BY <1>1, <1>2 DEF Watching, PollPcs, Initial, InitialPcs, TInv, JobTyped, RowPcs
  <2> QED
    BY <1>1, <1>2, <2>1 DEF Good, During, PollWork, RowPcs, PollPcs, Paths, driveVars, dbVars
<1>4. /\ EditsReported
      /\ \A q \in {p} \cup Below(p) : local'[q] = 0
  <2>1. CASE local[p] # 0
    <3>1. /\ EditsReported
          /\ \A q \in Paths : local'[q] = IF q \in {p} \cup Below(p) THEN 0 ELSE local[q]
      BY <1>2, <1>3, <2>1, DeletionReported
    <3> QED
      BY <1>3, <3>1 DEF Below
  <2>2. CASE local[p] = 0
    <3>1. UNCHANGED <<local, queue>>
      BY <1>2, <2>2
    <3>2. QueueOrder' /\ LocalTree'
      BY <1>3, <3>1 DEF During, QueueOrder, Answered, Good, LocalTree, HasPlace
    <3>3. EditsReported
      BY <3>1, <3>2 DEF EditsReported, Queued, Waits
    <3>4. \A q \in Below(p) : local[q] = 0
      BY <2>2 DEF Good, LocalTree, HasPlace, Below
    <3> QED
      BY <2>2, <3>1, <3>3, <3>4
  <2> QED
    BY <2>1, <2>2
<1>5. /\ twice' = {} /\ LocalTree' /\ DriveTree' /\ RowKinds' /\ RowLinks'
      /\ NoneForgotten' /\ BatchFolders' /\ Vanished' /\ QueueOrder' /\ RowsTrue'
  BY <1>2, <1>3, <1>4, LocalEditKeeps DEF dbVars
<1>6. LocalWork'
  BY <1>2 DEF LocalWork
<1>7. PollWork'
  <2>1. ASSUME NEW q \in Below(p), rows[q].id # 0 PROVE Excused(q)'
    <3>1. local'[q] = 0 /\ rows'[q].id # 0 /\ q \in Files
      BY <1>3, <1>4, <2>1, PathShape DEF Below
    <3>2. Queued(Removed(q))' \/ q \in errors'
      BY <1>2, <1>5, <3>1 DEF Vanished, Queued, Removed
    <3> QED
      BY <3>2, QueuedWaits DEF Excused
  <2>2. local'[p] = 0
    BY <1>4
  <2> QED
    BY <1>1, <1>2, <1>3, <2>1, <2>2 DEF PollWork, Live, Excused, Waits
<1>8. Once'
  BY <1>2, <1>3 DEF Good, Once, userVars, Watching, LocalPcs, PollPcs
<1> QED
  BY <1>3, <1>5, <1>6, <1>7, <1>8 DEF Good, During

\* The row of what was removed goes; whatever was below has an event that waits.
LEMMA RemoveRowKeepsGood ==
    ASSUME TInv, IInv, Good, RemoveRow
    PROVE  Good'
<1>1. PICK p, i : p = job.path /\ i = job.id
  OBVIOUS
<1>2. /\ pc = "unrow" /\ pc' = "apply" /\ RemoveRowOf(p)
      /\ UNCHANGED <<local, driveVars, hasToken, frames, content, batch, queue, errors,
           userVars>>
  BY <1>1 DEF RemoveRow, Goes
<1>3. /\ During /\ Watching /\ Watching' /\ pc \in Applying /\ pc' \in Applying
      /\ UNCHANGED <<remote, afterToken, afterNew>>
  BY <1>2 DEF Good, Watching, Applying, PollPcs, driveVars
<1>4. /\ p \in Paths /\ rows[p].id = i /\ i # 0 /\ (p \in Dirs => ~Live(i))
      /\ p \in Files => local[p] = 0 \/ Waits(p)
      /\ \A q \in Below(p) : rows[q].id # 0 => Excused(q)
  <2>1. PollWork
    BY <1>3 DEF During
  <2> QED
    BY <1>1, <1>2, <2>1 DEF PollWork, TInv, JobTyped, RowPcs, PollPcs
<1>5. \A q \in Paths : rows'[q] = IF q = p THEN NoRow ELSE rows[q]
  BY <1>2 DEF RemoveRowOf, IInv, Typed
<1>6. NoRow.id = 0 /\ twice' = {}
  BY <1>2 DEF NoRow, RemoveRowOf, Good
<1>7. \A q \in Files : \A f :
       Linked(q, f) => Linked(q, f)' \/ (f = i /\ p \in Dirs /\ q \in Below(p))
  <2> SUFFICES ASSUME NEW q \in Files, NEW f, Len(q) = 2, rows[Above(q)].id = f
               PROVE  rows'[Above(q)].id = f \/ (f = i /\ p \in Dirs /\ q \in Below(p))
    BY DEF Linked
  <2>1. Above(q) \in Paths /\ Above(q) \in Dirs /\ q \in Paths
    BY PathShape DEF Paths
  <2> QED
    BY <1>4, <1>5, <2>1 DEF Below
<1>8. RowKinds'
  BY <1>3, <1>5, <1>6 DEF Good, RowKinds, IsDir, Paths
<1>9. RowLinks'
  <2> SUFFICES ASSUME NEW q \in Files, NEW j, NEW f, j = rows'[q].id, j # 0,
                      f = remote[j].parent, f # Root, Live(f)
               PROVE  Linked(q, f)'
    BY <1>3 DEF RowLinks, LinkHolds, Live, Parent, Linked
  <2>1. rows[q].id = j
    BY <1>5, <1>6 DEF Paths
  <2>2. Linked(q, f)
    BY <2>1 DEF Good, RowLinks, LinkHolds, Parent
  <2> QED
    BY <1>4, <1>7, <2>2
<1>10. \A q : (Excused(q) => Excused(q)') /\ ~AtWork(q) /\ ~AtWork(q)'
  BY <1>2 DEF Excused, Waits, AtWork, LocalPcs
<1>11. After' = After
  BY <1>3 DEF After
<1>12. \A j : j # i /\ Coming(j) => Coming(j)'
  BY <1>1, <1>2, <1>11 DEF Coming, RowPcs, PollPcs
<1>13. \A f : f # i /\ Going(f) => Going(f)'
  BY <1>1, <1>2, <1>11 DEF Going
<1>14. \A q \in Files : \A f : q \notin Below(p) /\ Linked(q, f) => f # i
  <2> SUFFICES ASSUME NEW q \in Files, q \notin Below(p), Len(q) = 2, rows[Above(q)].id = i
               PROVE  FALSE
    BY DEF Linked
  <2>1. Above(q) \in Paths /\ q \in Paths
    BY PathShape DEF Paths
  <2>2. Above(q) = p
    BY <1>4, <2>1, Facts DEF Good
  <2> QED
    BY <2>1, <2>2 DEF Below
<1>15. NoneForgotten'
  <2> SUFFICES ASSUME NEW q \in Files PROVE Excused(q)' \/ OnCourse(q)'
    BY DEF NoneForgotten
  <2>1. CASE q = p
    <3>1. rows'[q].id = 0
      BY <1>4, <1>5, <1>6, <2>1
    <3> QED
      BY <1>2, <1>4, <2>1, <3>1 DEF OnCourse, Excused, Waits
  <2>2. CASE q # p /\ ~Excused(q)
    <3>1. OnCourse(q)
      BY <1>10, <2>2 DEF Good, NoneForgotten
    <3>2. rows'[q].id = rows[q].id /\ local'[q] = local[q] /\ q \in Paths
      BY <1>2, <1>5, <2>2 DEF Paths
    <3>3. CASE rows[q].id = 0
      BY <3>1, <3>2, <3>3 DEF OnCourse
    <3>4. CASE rows[q].id # 0
      <4>1. rows[q].id # i /\ q \notin Below(p)
        BY <1>4, <2>2, <3>2, <3>4, Facts DEF Good
      <4>2. \A j \in Ids : j = rows[q].id /\ Coming(j) => Coming(j)'
        BY <1>12, <4>1
      <4>3. \A f \in Ids : Linked(q, f) /\ Going(f) => Linked(q, f)' /\ Going(f)'
        BY <1>7, <1>13, <1>14, <4>1
      <4> QED
        BY <1>3, <3>1, <3>2, <4>2, <4>3, CourseStays
    <3> QED
      BY <3>3, <3>4
  <2> QED
    BY <1>10, <2>1, <2>2
<1>16. BatchFolders'
  <2> SUFFICES ASSUME NEW c \in batch, ~c.gone,
                      c.id \notin afterNew, Parent(c.id) # Root, ~Live(Parent(c.id)),
                      NEW q \in Files, rows'[q].id = c.id
               PROVE  Linked(q, remote[c.id].parent)'
    BY <1>2, <1>3 DEF Good, BatchFolders, IsDir, Live, Parent, Linked
  <2>1. rows[q].id = c.id
    <3>1. c.id # 0
      BY Facts DEF Good
    <3> QED
      BY <1>5, <1>6, <3>1 DEF Paths
  <2>2. Linked(q, Parent(c.id)) /\ Parent(c.id) # i
    BY <1>1, <1>2, <2>1 DEF Good, BatchFolders
  <2>3. PICK f : f = remote[c.id].parent
    OBVIOUS
  <2> QED
    BY <1>3, <1>7, <2>2, <2>3 DEF Parent, Linked
<1>17. Vanished'
  <2> SUFFICES ASSUME NEW q \in Files, rows'[q].id # 0, local[q] = 0
               PROVE  Queued(Removed(q))' \/ q \in errors'
    BY <1>2 DEF Vanished, Queued, Removed
  <2>1. rows[q].id # 0
    BY <1>5, <1>6 DEF Paths
  <2>2. Queued(Removed(q)) \/ q \in errors
    BY <1>2, <1>3, <2>1 DEF During, Vanished
  <2> QED
    BY <1>2, <2>2 DEF Queued, Removed
<1>18. RowsTrue'
  <2> SUFFICES ASSUME NEW q \in Files, NEW j, j = rows'[q].id, j # 0, Live(j),
                      remote[j].version = rows'[q].md5
               PROVE  local[q] = remote[j].version \/ Excused(q)'
    BY <1>2, <1>3 DEF RowsTrue, Live, Excused, Waits, AtWork
  <2>1. rows[q] = rows'[q]
    BY <1>5, <1>6 DEF Paths
  <2>2. local[q] = remote[j].version \/ Excused(q) \/ AtWork(q)
    BY <1>3, <2>1 DEF During, RowsTrue
  <2> QED
    BY <1>10, <2>2
<1>19. QueueOrder' /\ LocalWork' /\ PollWork'
  BY <1>2, <1>3 DEF During, QueueOrder, Answered, LocalWork, PollWork, RowPcs, PollPcs
<1>20. LocalTree' /\ DriveTree' /\ Once' /\ ~Initial'
  BY <1>2, <1>3, StillWatching DEF userVars
<1> QED
  BY <1>6, <1>8, <1>9, <1>15, <1>16, <1>17, <1>18, <1>19, <1>20 DEF Good, During

\* What is downloaded into a file comes back as an event.
LEMMA RewriteKeepsGood ==
    ASSUME TInv, IInv, Good, WriteLocal("rewrite", "rekeep")
    PROVE  Good'
<1>1. PICK p, v : p = job.path /\ v = content
  OBVIOUS
<1>2. /\ pc = "rewrite" /\ pc' = "rekeep" /\ HasPlace(p)
      /\ local' = [local EXCEPT ![p] = v]
      /\ Notify(Modified(p))
      /\ UNCHANGED <<driveVars, dbVars, frames, job, batch, errors, userVars>>
  BY <1>1 DEF WriteLocal, Goes, Refused
<1>3. /\ Watching /\ Watching' /\ ~Initial' /\ During /\ p \in Files /\ p \in Paths /\ v # 0
      /\ UNCHANGED <<remote, afterToken, rows, twice>> /\ PollWork
  <2>1. Watching /\ Watching' /\ ~Initial'
    BY <1>2 DEF Watching, PollPcs, Initial, InitialPcs
  <2>2. During /\ PollWork
    BY <2>1 DEF Good, During
  <2> QED
    BY <1>1, <1>2, <2>1, <2>2 DEF PollWork, Paths, driveVars, dbVars
<1>4. /\ queue \in Seq(Event) /\ local \in [Paths -> Nat]
  BY Facts DEF Good
<1>5. /\ Queued(Modified(p))' /\ Answered(p)' /\ Waits(p)'
      /\ \A e : Queued(e) => Queued(e)'
      /\ \A q : Waits(q) => Waits(q)'
      /\ \A q : Answered(q) => Answered(q)'
  BY <1>2, <1>3, <1>4, ModifiedReported
<1>6. \A q \in Paths : local'[q] = IF q = p THEN v ELSE local[q]
  BY <1>2, <1>4
<1>7. QueueOrder'
  <2> SUFFICES ASSUME NEW q \in Files, local'[q] # 0 PROVE Answered(q)'
    BY DEF QueueOrder, Answered
  <2> QED
    BY <1>3, <1>5, <1>6 DEF During, QueueOrder, Paths
<1>8. LocalTree'
  <2> SUFFICES ASSUME NEW q \in Paths, local'[q] # 0, Len(q) = 2 PROVE local'[Above(q)] # 0
    BY DEF LocalTree, HasPlace
  <2>1. Above(q) \in Paths
    BY PathShape DEF Paths
  <2>2. q = p \/ local[q] # 0
    BY <1>6
  <2>3. local[Above(q)] # 0
    BY <1>2, <2>2 DEF Good, LocalTree, HasPlace
  <2> QED
    BY <1>3, <1>6, <2>1, <2>3
<1>9. EditsReported
  BY <1>3, <1>5, <1>6, <1>7, <1>8 DEF EditsReported
<1>10. /\ twice' = {} /\ LocalTree' /\ DriveTree' /\ RowKinds' /\ RowLinks'
      /\ NoneForgotten' /\ BatchFolders' /\ Vanished' /\ QueueOrder' /\ RowsTrue'
  BY <1>2, <1>3, <1>9, LocalEditKeeps DEF dbVars
<1>11. LocalWork' /\ PollWork'
  <2>1. Waits(job.path)'
    BY <1>1, <1>2, <1>5 DEF Waits
  <2> QED
    BY <1>1, <1>2, <1>3, <2>1 DEF LocalWork, PollWork, RowPcs, PollPcs
<1>12. Once'
  BY <1>2, <1>3 DEF Good, Once, userVars, Watching, LocalPcs, PollPcs
<1> QED
  BY <1>3, <1>10, <1>11, <1>12 DEF Good, During

LEMMA RekeepKeepsGood ==
    ASSUME TInv, IInv, Good, Keep("rekeep", "apply")
    PROVE  Good'
<1>1. PICK p, i, m : p = job.path /\ i = job.id /\ m = job.md5
  OBVIOUS
<1>2. /\ pc = "rekeep" /\ pc' = "apply" /\ Record(p, i, m)
      /\ Notify(Modified(p)) \/ UNCHANGED queue
      /\ UNCHANGED <<local, driveVars, hasToken, frames, content, batch, errors, userVars>>
  BY <1>1 DEF Keep, Goes
<1>3. /\ During /\ Watching /\ Watching' /\ pc \in Applying /\ pc' \in Applying
      /\ UNCHANGED <<remote, afterToken, afterNew>>
  BY <1>2 DEF Good, Watching, Applying, PollPcs, driveVars
<1>4. /\ p \in Files /\ p \in Paths /\ rows[p].id = i /\ i # 0 /\ Waits(p)
  <2>1. PollWork
    BY <1>3 DEF During
  <2> QED
    BY <1>1, <1>2, <2>1 DEF PollWork, TInv, JobTyped, RowPcs, PollPcs, Paths
<1>5. RowsOf(i) \subseteq {p} /\ \A d \in Dirs : d # p /\ d \in Paths
  BY <1>4, Facts, PathShape DEF RowsOf, Good, Paths
<1>6. /\ twice' = {}
      /\ \A q \in Paths : rows'[q] = IF q = p THEN [id |-> i, md5 |-> m] ELSE rows[q]
  BY <1>2, <1>5 DEF Record, Good, IInv, Typed
<1>7. \A q \in Paths : rows'[q].id = rows[q].id
  BY <1>4, <1>6
<1>8. \A q \in Files : q \in Paths /\ (Len(q) = 2 => Above(q) \in Paths)
  BY PathShape DEF Paths
<1>9. \A q \in Files : \A f : Linked(q, f)' <=> Linked(q, f)
  BY <1>7, <1>8 DEF Linked
<1>10. /\ \A e : Queued(e) => Queued(e)'
       /\ \A q : Waits(q) => Waits(q)'
       /\ \A q : Answered(q) => Answered(q)'
  <2>1. CASE UNCHANGED queue
    BY <2>1 DEF Queued, Waits, Answered
  <2>2. CASE Notify(Modified(p))
    BY <1>3, <1>4, <2>2, ModifiedReported, Facts DEF Good
  <2> QED
    BY <1>2, <2>1, <2>2
<1>11. \A q : (Excused(q) => Excused(q)') /\ ~AtWork(q) /\ ~AtWork(q)'
  BY <1>2, <1>10 DEF Excused, AtWork, LocalPcs
<1>12. RowKinds'
  BY <1>3, <1>5, <1>6 DEF Good, RowKinds, IsDir
<1>13. RowLinks'
  <2> SUFFICES ASSUME NEW q \in Files, NEW j, NEW f, j = rows'[q].id, j # 0,
                      f = remote[j].parent, f # Root, Live(f)
               PROVE  Linked(q, f)'
    BY <1>3 DEF RowLinks, LinkHolds, Live, Parent, Linked
  <2>1. rows[q].id = j
    BY <1>7, <1>8
  <2>2. Linked(q, f)
    BY <2>1 DEF Good, RowLinks, LinkHolds, Parent
  <2> QED
    BY <1>9, <2>2
<1>14. /\ After' = After
       /\ \A j : j # i /\ Coming(j) => Coming(j)'
       /\ \A f : Going(f) => Going(f)'
  BY <1>1, <1>2, <1>3 DEF After, Coming, Going, RowPcs, PollPcs
<1>15. NoneForgotten'
  <2> SUFFICES ASSUME NEW q \in Files PROVE Excused(q)' \/ OnCourse(q)'
    BY DEF NoneForgotten
  <2>1. CASE q = p
    BY <1>4, <1>10, <2>1 DEF Excused
  <2>2. CASE q # p /\ ~Excused(q)
    <3>1. OnCourse(q)
      BY <1>11, <2>2 DEF Good, NoneForgotten
    <3>2. rows'[q].id = rows[q].id /\ local'[q] = local[q] /\ rows[q].id # i
      BY <1>2, <1>4, <1>7, <1>8, <2>2, Facts DEF Good
    <3> QED
      BY <1>3, <1>9, <1>14, <3>1, <3>2, CourseStays
  <2> QED
    BY <1>11, <2>1, <2>2
<1>16. BatchFolders'
  <2>1. \A q \in Files : rows'[q].id = rows[q].id
    BY <1>7, <1>8
  <2> QED
    BY <1>2, <1>3, <1>9, <2>1 DEF Good, BatchFolders, IsDir, Live, Parent, Linked
<1>17. Vanished'
  <2> SUFFICES ASSUME NEW q \in Files, rows'[q].id # 0, local[q] = 0
               PROVE  Queued(Removed(q))' \/ q \in errors'
    BY <1>2 DEF Vanished, Queued, Removed
  <2>1. rows[q].id # 0
    BY <1>7, <1>8
  <2>2. Queued(Removed(q)) \/ q \in errors
    BY <1>2, <1>3, <2>1 DEF During, Vanished
  <2> QED
    BY <1>2, <1>10, <2>2 DEF Queued, Removed
<1>18. RowsTrue'
  <2> SUFFICES ASSUME NEW q \in Files, NEW j, j = rows'[q].id, j # 0, Live(j),
                      remote[j].version = rows'[q].md5
               PROVE  local[q] = remote[j].version \/ Excused(q)'
    BY <1>2, <1>3 DEF RowsTrue, Live, Excused, Waits, AtWork
  <2>1. CASE q = p
    BY <1>4, <1>10, <2>1 DEF Excused
  <2>2. CASE q # p
    <3>1. rows[q] = rows'[q]
      BY <1>6, <1>8, <2>2
    <3>2. local[q] = remote[j].version \/ Excused(q) \/ AtWork(q)
      BY <1>3, <3>1 DEF During, RowsTrue
    <3> QED
      BY <1>11, <3>2
  <2> QED
    BY <2>1, <2>2
<1>19. QueueOrder'
  BY <1>2, <1>3, <1>10 DEF During, QueueOrder, Answered, Removed, Modified
<1>20. LocalWork' /\ PollWork'
  BY <1>2 DEF LocalWork, PollWork, RowPcs, PollPcs
<1>21. LocalTree' /\ DriveTree' /\ Once' /\ ~Initial'
  BY <1>2, <1>3, StillWatching DEF userVars
<1> QED
  BY <1>6, <1>12, <1>13, <1>15, <1>16, <1>17, <1>18, <1>19, <1>20, <1>21 DEF Good, During

-----------------------------------------------------------------------------
(* Every step, and what follows.                                           *)

\* A failed initial sync is not started again.
LEMMA FailedPullStops ==
    ASSUME TInv, IInv, Good, Failed, pc \in InitialPcs
    PROVE  Stopped'
<1>1. pc' = "off" /\ (UNCHANGED left \/ Spend("fault"))
  BY DEF Failed
<1>2. left["start"] = 0
  BY DEF Good, Once, InitialPcs
<1>3. left \in [Kinds -> Nat] /\ "start" \in Kinds
  BY DEF TInv, BudgetTyped, Kinds
<1>4. left'["start"] = left["start"]
  BY <1>1, <1>3 DEF Spend
<1> QED
  BY <1>1, <1>2, <1>4 DEF Stopped

LEMMA WorkerKeepsGood ==
    ASSUME TInv, IInv, Good, Worker
    PROVE  Good' \/ Stopped'
<1>1. ASSUME InitialPull PROVE Good'
  <2>1. ~AskToken /\ ~StoreToken
    BY Facts DEF AskToken, StoreToken, Good
  <2> QED
    BY <1>1, <2>1, ListKeepsGood, ChildKeepsGood, MkdirKeepsGood, KeepDirKeepsGood,
       FetchKeepsGood, WriteKeepsGood, KeepKeepsGood, PullDoneKeepsGood, WatchKeepsGood
       DEF InitialPull
<1>2. ASSUME LocalChange PROVE Good'
  <2>1. Upload => Good'
    BY UpdateKeepsGood, NewFileKeepsGood
  <2> QED
    BY <1>2, <2>1, TakeRemovedKeepsGood, TakeModifiedKeepsGood, StatKeepsGood, ReadKeepsGood,
       CreateFolderKeepsGood, DeleteKeepsGood, RecordUploadKeepsGood, ForgetKeepsGood
       DEF LocalChange
<1>3. ASSUME RemoteChanges PROVE Good'
  BY <1>3, PollTickKeepsGood, ListChangesKeepsGood, ApplyChangeKeepsGood, RemoveLocalKeepsGood,
     RemoveRowKeepsGood, RefetchKeepsGood, RewriteKeepsGood, RekeepKeepsGood, SetTokenKeepsGood
     DEF RemoteChanges
<1>4. ASSUME Failed PROVE Good' \/ Stopped'
  <2>1. pc \in InitialPcs \cup LocalPcs \cup {"changes"} \cup Applying
    <3>1. pc \in InitialPcs \cup LocalPcs \cup PollPcs \cup {"off", "select"}
      BY DEF TInv, WorkTyped
    <3>2. pc \notin {"off", "select"}
      BY <1>4 DEF Failed, Refused, Fallible
    <3> QED
      BY <3>1, <3>2 DEF Applying
  <2> QED
    BY <1>4, <2>1, FailedPullStops, FailedKeepsGood, FailedPollKeepsGood
<1> QED
  BY <1>1, <1>2, <1>3, <1>4 DEF Worker

\* Without a start that is left, nothing happens but what users do.
LEMMA StoppedStays ==
    ASSUME TInv, Stopped, [Next]_vars
    PROVE  Stopped'
<1>1. pc = "off" /\ left["start"] = 0 /\ left \in [Kinds -> Nat] /\ "start" \in Kinds
  BY DEF Stopped, TInv, BudgetTyped, Kinds
<1>2. CASE Users
  <2>1. pc' = pc
    BY <1>2 DEF Users, UserWrites, UserRemoves, UserMoves, RemoteWrites, RemoteTrashes,
       RemoteDeletes, RemoteCreates, workerVars
  <2>2. \E kind \in {"write", "remove", "move", "remote write", "trash", "delete"} : Edit(kind)
    BY <1>2 DEF Users, UserWrites, UserRemoves, UserMoves, RemoteWrites, RemoteTrashes,
       RemoteDeletes, RemoteCreates
  <2>3. left'["start"] = left["start"]
    BY <1>1, <2>2 DEF Edit
  <2> QED
    BY <1>1, <2>1, <2>3 DEF Stopped
<1>3. ~Start /\ ~Abort
  BY <1>1 DEF Start, Abort, Spend
<1>4. ~Worker
  <2>1. ~InitialPull
    BY <1>1 DEF InitialPull, PullList, PullChild, PullMkdir, PullKeepDir, Download, WriteLocal,
       Keep, PullDone, AskToken, StoreToken, Watch
  <2>2. ~LocalChange
    BY <1>1 DEF LocalChange, TakeRemoved, DeleteFile, ForgetDeleted, TakeModified, Stat, Read,
       Upload, CreateFolder, RecordUpload
  <2>3. ~RemoteChanges
    BY <1>1 DEF RemoteChanges, PollTick, ListChanges, ApplyChange, RemoveLocal, RemoveRow,
       Download, WriteLocal, Keep, SetToken
  <2>4. ~Failed
    BY <1>1 DEF Failed, Refused, Fallible
  <2> QED
    BY <2>1, <2>2, <2>3, <2>4 DEF Worker
<1>5. CASE UNCHANGED vars
  BY <1>5 DEF Stopped, vars, workerVars, userVars
<1> QED
  BY <1>2, <1>3, <1>4, <1>5 DEF Next

LEMMA StutterKeepsGood ==
    ASSUME Good, UNCHANGED vars
    PROVE  Good'
<1>1. UNCHANGED <<local, remote, afterToken, afterNew, rows, twice, hasToken, pc, frames, job,
                 content, batch, queue, errors, clock, left>>
  BY DEF vars, driveVars, dbVars, workerVars, userVars
<1>2. Once' /\ twice' = {} /\ LocalTree'
  BY <1>1 DEF Good, Once, LocalTree, HasPlace
<1>3. DriveTree' /\ RowKinds' /\ RowLinks'
  BY <1>1 DEF Good, DriveTree, RowKinds, RowLinks, LinkHolds, IsDir, Live, Exists, Parent,
       Linked
<1>4. After' = After /\ Watching' = Watching /\ Initial' = Initial
  BY <1>1 DEF After, Watching, Initial
<1>5. \A p, i : InFolder(p, i) => InFolder(p, i)'
  BY <1>1, <1>4 DEF InFolder, Linked, Going, Parent, Live
<1>6. \A i : Coming(i) => Coming(i)'
  BY <1>1, <1>4 DEF Coming
<1>7. \A p : OnCourse(p) => OnCourse(p)'
  BY <1>1, <1>5, <1>6 DEF OnCourse, Live
<1>8. NoneForgotten'
  BY <1>1, <1>7 DEF Good, NoneForgotten, Excused, Waits, AtWork
<1>9. BatchFolders'
  BY <1>1 DEF Good, BatchFolders, IsDir, Live, Parent, Linked
<1>10. Before => Before'
  BY <1>1 DEF Before, ItemsKnown, RowsPlaced, FramesPlaced, JobPlaced, AtPlace, Fetched, AtWork,
     Live, IsDir, Parent, ParentOf
<1>11. During => During'
  <2>1. Vanished => Vanished'
    BY <1>1 DEF Vanished, Queued
  <2>2. QueueOrder => QueueOrder'
    BY <1>1 DEF QueueOrder, Answered
  <2>3. RowsTrue => RowsTrue'
    BY <1>1 DEF RowsTrue, Live, Excused, Waits, AtWork
  <2>4. LocalWork => LocalWork'
    BY <1>1 DEF LocalWork, Queued, Waits, Exists, Linked, RowsOf, LinkHolds, Live, Parent, IsDir
  <2>5. PollWork => PollWork'
    BY <1>1 DEF PollWork, Waits, Live, Excused
  <2> QED
    BY <2>1, <2>2, <2>3, <2>4, <2>5 DEF During
<1> QED
  BY <1>2, <1>3, <1>4, <1>8, <1>9, <1>10, <1>11 DEF Good

LEMMA NextKeepsNInv ==
    ASSUME TInv, IInv, NInv, ~EditsWhileOff, [Next]_vars
    PROVE  NInv'
<1>1. CASE Stopped
  BY <1>1, StoppedStays DEF NInv
<1>2. CASE Good
  <2>1. ~Abort
    BY <1>2 DEF Good, Once, Abort
  <2> QED
    BY <1>2, <2>1, UsersKeepGood, StartsGood, WorkerKeepsGood, StutterKeepsGood DEF Next, NInv
<1> QED
  BY <1>1, <1>2 DEF NInv

-----------------------------------------------------------------------------
(* The first state.                                                        *)

LEMMA InitIsGood ==
    ASSUME Resumed, Budget["start"] <= 1, Budget["move"] = 0, Init
    PROVE  NInv
<1> DEFINE at(i) == CHOOSE q \in DOMAIN Seed : Seed[q] = i
           none == [name |-> CHOOSE n \in FileNames : TRUE, state |-> "none", version |-> 0,
                    parent |-> Root]
<1>1. /\ local = [p \in Paths |-> IF p \in DOMAIN Seed THEN 1 ELSE 0]
      /\ remote = [i \in Ids |-> IF \E p \in DOMAIN Seed : Seed[p] = i
                                 THEN SeedItem(at(i)) ELSE none]
      /\ rows = [p \in Paths |-> IF p \in DOMAIN Seed
                                 THEN [id |-> Seed[p], md5 |-> IF p \in Dirs THEN 0 ELSE 1]
                                 ELSE NoRow]
      /\ afterToken = {} /\ afterNew = {} /\ pc = "off" /\ twice = {}
      /\ frames = <<>> /\ job = NoJob /\ content = 0 /\ batch = {} /\ queue = <<>>
      /\ errors = {} /\ left = Budget
  BY DEF Init, SeedItem
<1>2. ASSUME NEW p \in DOMAIN Seed PROVE at(Seed[p]) = p
  BY SeedAssumption
<1>3. none.state = "none"
  OBVIOUS
<1> HIDE DEF at, none
<1>4. DriveSeeded
  BY <1>1, <1>2, <1>3, SeedShape DEF DriveSeeded
<1>5. \A p \in Paths :
        /\ p \in DOMAIN Seed => /\ rows[p].id = Seed[p] /\ local[p] = 1
                                /\ rows[p].md5 = IF p \in Dirs THEN 0 ELSE 1
        /\ p \notin DOMAIN Seed => rows[p].id = 0 /\ local[p] = 0
  BY <1>1 DEF NoRow
<1>6. ASSUME NEW p \in DOMAIN Seed
      PROVE  /\ p \in Paths /\ Seed[p] \in Ids /\ Seed[p] # 0 /\ rows[p].id = Seed[p]
             /\ Live(Seed[p]) /\ remote[Seed[p]].name = Last(p)
             /\ remote[Seed[p]].version = IF p \in Dirs THEN 0 ELSE 1
             /\ Parent(Seed[p]) = ParentOf(p)
             /\ IsDir(Seed[p]) <=> p \in Dirs
             /\ Len(p) = 2 => /\ Above(p) \in DOMAIN Seed /\ Above(p) \in Dirs
                              /\ Above(p) \in Paths
                              /\ ParentOf(p) = Seed[Above(p)]
                              /\ ParentOf(p) # Root
             /\ Len(p) \in {1, 2} /\ (Len(p) = 1 => ParentOf(p) = Root)
  <2>1. /\ p \in Paths /\ Seed[p] \in Ids /\ Seed[p] # Root
        /\ Len(p) = 2 => /\ Above(p) \in DOMAIN Seed /\ Above(p) \in Dirs
                         /\ Seed[Above(p)] # Root
        /\ Len(p) \in {1, 2}
    BY SeedShape, PathShape
  <2>2. Len(p) = 2 => Above(p) \in Paths /\ ParentOf(p) = Seed[Above(p)]
    BY <1>5, <2>1 DEF Paths, ParentOf
  <2>3. /\ remote[Seed[p]].name = Last(p) /\ Live(Seed[p])
        /\ remote[Seed[p]].version = IF p \in Dirs THEN 0 ELSE 1
        /\ remote[Seed[p]].parent = IF Len(p) = 1 THEN Root ELSE Seed[Above(p)]
    BY <1>4, SeededChild
  <2>4. IsDir(Seed[p]) <=> p \in Dirs
    <3>1. p \in Files => Last(p) \notin DirNames
      BY <2>1, LastName, NamesAssumption
    <3> QED
      BY <2>1, <2>3, <3>1, LastName DEF IsDir, Paths
  <2>5. Parent(Seed[p]) = ParentOf(p)
    BY <2>1, <2>2, <2>3 DEF Parent, ParentOf
  <2> QED
    BY <1>5, <2>1, <2>2, <2>3, <2>4, <2>5 DEF Root, ParentOf
<1>7. \A i \in Ids : remote[i].state # "none" => \E p \in DOMAIN Seed : Seed[p] = i
  BY <1>4 DEF DriveSeeded
<1>8. \A p \in Paths : rows[p].id # 0 => p \in DOMAIN Seed
  BY <1>5
<1>9. \A p \in Files : p \in Paths /\ p \notin Dirs
  BY PathShape DEF Paths
<1>10. Once /\ LocalTree
  BY <1>1, <1>5, <1>6 DEF Once, LocalTree, HasPlace
<1>11. DriveTree
  <2>1. ASSUME NEW p \in DOMAIN Seed
        PROVE  /\ IsDir(Seed[p]) \/ remote[Seed[p]].version # 0
               /\ Parent(Seed[p]) # Root =>
                    /\ IsDir(Parent(Seed[p])) /\ remote[Parent(Seed[p])].state # "none"
                    /\ Exists(Parent(Seed[p]))
    <3>1. IsDir(Seed[p]) \/ remote[Seed[p]].version # 0
      BY <1>6
    <3>2. ASSUME Parent(Seed[p]) # Root
          PROVE  /\ IsDir(Parent(Seed[p])) /\ remote[Parent(Seed[p])].state # "none"
                 /\ Exists(Parent(Seed[p]))
      <4>1. Len(p) = 2
        BY <1>6, <3>2
      <4>2. Above(p) \in DOMAIN Seed /\ Parent(Seed[p]) = Seed[Above(p)] /\ Above(p) \in Dirs
        BY <1>6, <4>1
      <4>3. IsDir(Seed[Above(p)]) /\ Live(Seed[Above(p)])
        BY <1>6, <4>2
      <4> QED
        BY <4>2, <4>3 DEF Live, Exists
    <3> QED
      BY <3>1, <3>2
  <2>2. ASSUME NEW i \in Ids, remote[i].state # "none"
        PROVE  /\ IsDir(i) \/ remote[i].version # 0
               /\ Parent(i) # Root =>
                    /\ IsDir(Parent(i)) /\ remote[Parent(i)].state # "none"
                    /\ Exists(i) => Exists(Parent(i))
    <3>1. PICK p \in DOMAIN Seed : Seed[p] = i
      BY <1>7, <2>2
    <3> QED
      BY <2>1, <3>1
  <2>3. afterToken \cup afterNew = {}
    BY <1>1
  <2> QED
    BY <2>2, <2>3 DEF DriveTree
<1>12. RowKinds
  BY <1>5, <1>6, <1>8 DEF RowKinds, Paths
<1>13. RowLinks
  BY <1>6, <1>8, <1>9 DEF RowLinks, LinkHolds, Linked
<1>14. NoneForgotten
  <2> SUFFICES ASSUME NEW p \in Files PROVE OnCourse(p)
    BY DEF NoneForgotten
  <2>1. CASE p \notin DOMAIN Seed
    BY <1>5, <1>9, <2>1 DEF OnCourse
  <2>2. CASE p \in DOMAIN Seed
    <3>1. rows[p].id = Seed[p] /\ local[p] = 1 /\ Live(Seed[p]) /\ remote[Seed[p]].version = 1
      BY <1>5, <1>6, <1>9, <2>2
    <3>2. Parent(Seed[p]) = Root \/ Live(Parent(Seed[p]))
      BY <1>6, <2>2
    <3>3. PICK i : i = Seed[p]
      OBVIOUS
    <3>4. InFolder(p, i)
      BY <3>2, <3>3 DEF InFolder
    <3>5. i # 0 /\ rows[p].id = i /\ Live(i) /\ local[p] = remote[i].version
      BY <1>6, <2>2, <3>1, <3>3
    <3> QED
      BY <3>4, <3>5 DEF OnCourse
  <2> QED
    BY <2>1, <2>2
<1>15. BatchFolders /\ ~Watching
  BY <1>1 DEF BatchFolders, Applying, Watching, LocalPcs, PollPcs
<1>16. Before
  <2>1. ItemsKnown
    <3> SUFFICES ASSUME NEW p \in DOMAIN Seed
                 PROVE  /\ Live(Seed[p])
                        /\ IsDir(Seed[p]) => rows[<<remote[Seed[p]].name>>].id = Seed[p]
      BY <1>7 DEF ItemsKnown
    <3>1. ASSUME p \in Dirs PROVE <<Last(p)>> = p
      <4>1. PICK d \in DirNames : p = <<d>>
        BY <3>1 DEF Dirs
      <4> QED
        BY <4>1 DEF Last
    <3> QED
      BY <1>6, <3>1
  <2>2. RowsPlaced
    <3>1. \A p \in DOMAIN Seed : AtPlace(p, Seed[p])
      BY <1>6 DEF AtPlace
    <3>2. \A p \in Files : p \in DOMAIN Seed =>
            local[p] = 1 /\ rows[p].md5 = 1 /\ remote[rows[p].id].version = 1
      BY <1>5, <1>6, <1>9
    <3> QED
      BY <1>6, <1>8, <1>9, <3>1, <3>2 DEF RowsPlaced
  <2>3. FramesPlaced
    <3>1. Len(frames) = 0 /\ 1..0 = {}
      BY <1>1
    <3> QED
      BY <3>1 DEF FramesPlaced
  <2>4. JobPlaced
    BY <1>1 DEF JobPlaced
  <2> QED
    BY <1>1, <2>1, <2>2, <2>3, <2>4 DEF Before
<1> QED
  BY <1>1, <1>10, <1>11, <1>12, <1>13, <1>14, <1>15, <1>16 DEF Good, NInv

-----------------------------------------------------------------------------
\* What is coming, or going, is listed after the stored token.
LEMMA GoodShowsDivergence ==
    ASSUME TInv, IInv, NInv
    PROVE  NoSilentDivergence
<1> SUFFICES ASSUME Watching, NEW p \in Files, Kept(p)
             PROVE  \/ InStep(p)
                    \/ \E k \in DOMAIN queue : queue[k].path = p
                    \/ job.path = p
                    \/ rows[p].id # 0 /\ Listed(rows[p].id)
                    \/ p \in errors
  BY DEF NoSilentDivergence
<1>1. Good /\ During
  BY DEF NInv, Stopped, Good, Watching, LocalPcs, PollPcs
<1>2. After \subseteq afterToken
  BY DEF After, IInv, PollOK
<1>3. \A c \in batch : c.id \in afterToken
  BY <1>1 DEF Good, BatchFolders
<1>4. \A i : Coming(i) => i \in afterToken
  BY <1>1, <1>2, <1>3 DEF Coming, During, PollWork
<1>5. \A f : Going(f) => f \in afterToken
  BY <1>1, <1>2, <1>3 DEF Going, During, PollWork, RowPcs, PollPcs
<1>6. Excused(p) \/ AtWork(p) \/ OnCourse(p)
  BY <1>1 DEF Good, NoneForgotten
<1>7. CASE Excused(p)
  <2>1. DOMAIN queue = 1..Len(queue)
    BY <1>1, Facts, LenProperties DEF Good
  <2> QED
    BY <1>7, <2>1 DEF Excused, Waits
<1>8. CASE AtWork(p)
  BY <1>8 DEF AtWork
<1>9. CASE OnCourse(p)
  <2>1. PICK i : i = rows[p].id
    OBVIOUS
  <2>2. CASE i = 0
    BY <1>9, <2>1, <2>2 DEF OnCourse, Kept
  <2>3. CASE i # 0 /\ Coming(i)
    BY <1>4, <2>1, <2>3 DEF Listed
  <2>4. CASE i # 0 /\ Live(i) /\ local[p] = remote[i].version /\ InFolder(p, i)
    <3>1. CASE Parent(i) = Root \/ Live(Parent(i))
      <4>1. ~InTrash(i)
        BY <2>4, <3>1 DEF InTrash, Live, Parent
      <4> QED
        BY <2>1, <2>4, <4>1 DEF InStep
    <3>2. CASE Going(Parent(i))
      BY <1>5, <2>1, <2>4, <3>2 DEF Listed, Parent
    <3> QED
      BY <2>4, <3>1, <3>2 DEF InFolder
  <2> QED
    BY <1>9, <2>1, <2>2, <2>3, <2>4 DEF OnCourse
<1> QED
  BY <1>6, <1>7, <1>8, <1>9

\* In a folder synchronised before, started once and not edited while nobody
\* watches it, every file that is here or has a row is, while the folder is
\* watched, in step with the item of its row on Drive, or leaves a trace: an event
\* that waits, work in hand, a change Drive lists or an error that is shown;
\* whatever users do but rename, and whatever fails (engine.rs, run_folder).  A
\* file that is on Drive only, and has no row, may well leave none: Kept leaves
\* it out, as the code does until the next start.
THEOREM WatchedFilesInSight ==
    /\ Resumed /\ ~EditsWhileOff /\ Budget["start"] <= 1 /\ Budget["move"] = 0
    /\ Spec
    => []NoSilentDivergence
<1> SUFFICES ASSUME Resumed, ~EditsWhileOff, Budget["start"] <= 1, Budget["move"] = 0
             PROVE  Spec => []NoSilentDivergence
  OBVIOUS
<1>1. Init => NInv
  BY InitIsGood
<1>2. TInv /\ IInv /\ NInv /\ [Next]_vars => NInv'
  BY NextKeepsNInv
<1>3. TInv /\ IInv /\ NInv => NoSilentDivergence
  BY GoodShowsDivergence
<1>4. Spec => []TInv
  BY TypesKept
<1>5. Spec => []IInv
  BY Invariance
<1> QED
  BY <1>1, <1>2, <1>3, <1>4, <1>5, PTL DEF Spec
=============================================================================

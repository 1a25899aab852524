--------------------------------- MODULE Fs ---------------------------------
(***************************************************************************)
(* The file system calls of fs/: create_dir_all and DirBuilder, OpenOptions*)
(* and File with its loops of positioned reads and writes, read and write  *)
(* of whole files, metadata, remove_file, remove_dir, rename and symlink.  *)
(* Every await lets the other tasks, which may stand for other processes,  *)
(* change the tree; every positioned read or write may be short, be        *)
(* interrupted, or fail.                                                   *)
(*                                                                         *)
(* A path is a sequence of names, <<>> the empty path, which std's parent()*)
(* ends with; a relative path is looked up from the working directory.     *)
(***************************************************************************)
EXTENDS Integers, SequencesExt

CONSTANTS
  Tasks,
  Scenes,      \* initial trees, with the contents of files, and calls
  Paths,       \* closed under Front
  Inodes,
  Default,     \* the contents of a call to write are of this length
  MaxFaults,   \* bound on interrupted and failing reads, writes and mkdirs
  Missing      \* no inode, no contents

VARIABLES
  tree,        \* the kind of every path, and its inode or target
  data,        \* the contents of every inode
  call,        \* what every task calls
  st,          \* where it is
  noise,       \* what others have done since the call began: add, cut, data (history)
  before,      \* the contents at the path when it was opened (history)
  faults

fsVars == <<tree, data, call, st, noise, before, faults>>

None == [kind |-> "none"]
Dir == [kind |-> "dir"]
Entries == {None, Dir} \cup [kind : {"file"}, ino : Inodes] \cup [kind : {"link"}, to : Paths]

\* A tree: what is there is in a directory, and a file has contents.
IsTree(tr, d) ==
  /\ tr \in [Paths -> Entries] /\ tr[<<>>] \in {None, Dir}
  /\ \A p \in Paths \ {<<>>} : tr[p] # None => tr[Front(p)] = Dir
  /\ d \in [Inodes -> Seq(Nat) \cup {Missing}]
  /\ \A p \in Paths : tr[p].kind = "file" => d[tr[p].ino] # Missing

ASSUME FsAssumption ==
  /\ Paths \subseteq Seq(STRING) /\ <<>> \in Paths
  /\ \A p \in Paths \ {<<>>} : Front(p) \in Paths
  /\ Missing \notin Inodes /\ Missing \notin Seq(Nat)
  /\ Default \in Nat
  /\ \A s \in Scenes :
       /\ IsTree(s.tree, s.data)
       /\ \A t \in Tasks :
            /\ s.call[t].path \in Paths /\ s.call[t].to \in Paths
            /\ s.call[t].name = "write" => /\ s.call[t].contents \in Seq(Nat)
                                          /\ Len(s.call[t].contents) = Default

Fresh(path) == [pc |-> "start", path |-> path, need |-> <<>>, ino |-> Missing,
                n |-> 0, len |-> 0, buf |-> <<>>, res |-> "none"]

FsStart(s) ==
  /\ tree = s.tree
  /\ data = s.data
  /\ call = s.call
  /\ st = [t \in Tasks |-> Fresh(s.call[t].path)]
  /\ noise = [t \in Tasks |-> {}]
  /\ before = [t \in Tasks |-> Missing]
  /\ faults = 0

FsInit == \E s \in Scenes : FsStart(s)

-----------------------------------------------------------------------------
(* The kernel's view of a path.                                            *)

Follow(p) == IF p \in Paths /\ tree[p].kind = "link" THEN tree[p].to ELSE p

\* The entry that p names, its parents' links resolved one after the other.  (A
\* link is taken to name an entry itself: there are no links on its way.)
Real(p) ==
  LET real[n \in 0..Len(p)] == IF n = 0 THEN <<>> ELSE Append(Follow(real[n - 1]), p[n])
  IN  real[Len(p)]
Target(p) == Follow(Real(p))
Kind(p) == IF Target(p) \in Paths THEN tree[Target(p)].kind ELSE "none"

Children(p) == {q \in Paths : q # <<>> /\ Front(q) = p /\ tree[q].kind # "none"}

KernelMkdir(p) ==
  CASE p = <<>> -> "NotFound"
    [] p # <<>> /\ Kind(Front(p)) = "none" -> "NotFound"
    [] p # <<>> /\ Kind(Front(p)) \in {"file", "link"} -> "NotADirectory"
    [] OTHER -> IF tree[Real(p)].kind # "none" THEN "AlreadyExists" ELSE "Ok"

\* Bound: no directory, file or link is made outside of Paths.
Within(p) == p # <<>> /\ Kind(Front(p)) = "dir" => Real(p) \in Paths

\* The end of a call, and a step of one that goes on.
Ends(t, r) == st' = [st EXCEPT ![t].pc = "done", ![t].res = r]
Disturbs(t, what) ==
  noise' = [u \in Tasks |-> IF u # t /\ st[u].pc # "start" THEN noise[u] \cup what ELSE noise[u]]

-----------------------------------------------------------------------------
(* DirBuilder.                                                             *)

Makes(t, name) == st[t].pc = "start" /\ call[t].name = name

\* DirBuilder::create without recursive: one mkdir.
create_dir(t) ==
  /\ Makes(t, "create_dir") /\ Within(call[t].path)
  /\ Ends(t, KernelMkdir(call[t].path))
  /\ IF KernelMkdir(call[t].path) = "Ok"
     THEN tree' = [tree EXCEPT ![Real(call[t].path)] = Dir] /\ Disturbs(t, {"add"})
     ELSE UNCHANGED <<tree, noise>>
  /\ UNCHANGED <<data, call, before, faults>>

create_dir_all(t) ==
  /\ Makes(t, "create_dir_all")
  /\ IF call[t].path = <<>> THEN Ends(t, "Ok") ELSE st' = [st EXCEPT ![t].pc = "climb"]
  /\ UNCHANGED <<tree, data, call, noise, before, faults>>

\* The tree above is there: mkdir what was missing, or nothing was.
Descend(t, need) ==
  [st[t] EXCEPT !.need = need, !.pc = IF need = <<>> THEN "done" ELSE "descend",
                !.res = IF need = <<>> THEN "Ok" ELSE @]

\* The loop: up to the first directory that is there or can be made.
Climb(t) ==
  LET s == st[t]
      r == KernelMkdir(s.path)
  IN  /\ s.pc = "climb" /\ Within(s.path)
      /\ CASE r = "Ok" -> /\ tree' = [tree EXCEPT ![Real(s.path)] = Dir]
                          /\ Disturbs(t, {"add"})
                          /\ st' = [st EXCEPT ![t] = Descend(t, s.need)]
           [] r = "NotFound" -> /\ IF s.path = <<>> THEN Ends(t, "WholeTree")
                                   ELSE st' = [st EXCEPT ![t].need = Append(@, s.path),
                                                         ![t].path = Front(@)]
                                /\ UNCHANGED <<tree, noise>>
           [] OTHER -> /\ st' = [st EXCEPT ![t].pc = "is_dir", ![t].res = r]
                       /\ UNCHANGED <<tree, noise>>
      /\ UNCHANGED <<data, call, before, faults>>

MkdirFails(t) ==
  /\ st[t].pc \in {"climb", "descend"} /\ faults < MaxFaults
  /\ faults' = faults + 1
  /\ st' = [st EXCEPT ![t].pc = IF @ = "climb" THEN "is_dir" ELSE "done", ![t].res = "Failed"]
  /\ UNCHANGED <<tree, data, call, noise, before>>

\* After any other error it looks, by std::fs::metadata, whether a directory
\* is there.
is_dir(t) ==
  /\ st[t].pc = "is_dir"
  /\ IF Kind(st[t].path) = "dir"
     THEN st' = [st EXCEPT ![t] = Descend(t, st[t].need)]
     ELSE st' = [st EXCEPT ![t].pc = "done"]
  /\ UNCHANGED <<tree, data, call, noise, before, faults>>

\* Mutant: the directories are made in the order they were found missing.
NextMissingFirst(need) == [p |-> Head(need), rest |-> Tail(need)]

NextMissing(need) == [p |-> Last(need), rest |-> Front(need)]

\* The directories that were missing, from the top; any error ends it.
Down(t) ==
  LET m == NextMissing(st[t].need)
  IN  /\ st[t].pc = "descend" /\ Within(m.p)
      /\ IF KernelMkdir(m.p) = "Ok"
         THEN /\ tree' = [tree EXCEPT ![Real(m.p)] = Dir]
              /\ Disturbs(t, {"add"})
              /\ st' = [st EXCEPT ![t] = Descend(t, m.rest)]
         ELSE Ends(t, KernelMkdir(m.p)) /\ UNCHANGED <<tree, noise>>
      /\ UNCHANGED <<data, call, before, faults>>

-----------------------------------------------------------------------------
(* Files.                                                                  *)

\* The options that the setters of OpenOptions have turned on, and those of
\* File::open and File::create.
OptionsOf(t) == call[t].options
OpenPreset == {"read"}
CreatePreset == {"write", "create", "truncate"}

\* OpenOptions::access_mode and creation_mode: the flags, or EINVAL.
InvalidAccess(o) == ~("read" \in o \/ "write" \in o \/ "append" \in o)
InvalidCreation(o) ==
  \/ o \cap {"write", "append"} = {} /\ o \cap {"truncate", "create", "create_new"} # {}
  \/ "append" \in o /\ "truncate" \in o /\ "create_new" \notin o

access_mode(o) ==
  {IF "append" \in o \/ "write" \in o THEN (IF "read" \in o THEN "RDWR" ELSE "WRONLY") ELSE "RDONLY"}
    \cup (IF "append" \in o THEN {"APPEND"} ELSE {})

creation_mode(o) ==
  IF "create_new" \in o THEN {"CREAT", "EXCL"}
  ELSE (IF "create" \in o THEN {"CREAT"} ELSE {}) \cup (IF "truncate" \in o THEN {"TRUNC"} ELSE {})

flags(o) == access_mode(o) \cup creation_mode(o)

FreeInodes == {i \in Inodes : data[i] = Missing}

KernelOpen(p, f) ==
  LET entry == IF "EXCL" \in f THEN Real(p) ELSE Target(p)
      exists == entry \in Paths /\ tree[entry].kind # "none"
  IN  CASE ~exists /\ "CREAT" \notin f -> "NotFound"
        [] ~exists /\ (entry \notin Paths \/ tree[Front(entry)] # Dir) -> "NotFound"
        [] exists /\ "EXCL" \in f -> "AlreadyExists"
        [] exists /\ "EXCL" \notin f /\ tree[entry].kind # "file" -> "IsADirectory"
        [] OTHER -> IF exists THEN "Ok" ELSE IF FreeInodes # {} THEN "Created" ELSE "Failed"

Contents(p) == IF Kind(p) = "file" THEN data[tree[Target(p)].ino] ELSE Missing

NextIo(t) == IF call[t].name = "read" THEN "size" ELSE "write"

\* What the options or the kernel say to OpenOptions::open, and the file that
\* it opens.
OpenAnswer(t) ==
  IF InvalidAccess(OptionsOf(t)) \/ InvalidCreation(OptionsOf(t)) THEN "InvalidInput"
  ELSE KernelOpen(call[t].path, flags(OptionsOf(t)))
NewInode == CHOOSE i \in FreeInodes : TRUE
OpenedInode(t) == IF OpenAnswer(t) = "Created" THEN NewInode ELSE tree[Target(call[t].path)].ino
Truncates(t) == "TRUNC" \in flags(OptionsOf(t))

\* OpenOptions::open, File::open for read and File::create for write.
open(t) ==
  LET r == OpenAnswer(t)
      ino == OpenedInode(t)
  IN  /\ st[t].pc = "start" /\ call[t].name \in {"read", "write"}
      /\ before' = [before EXCEPT ![t] = Contents(call[t].path)]
      /\ IF r \in {"Ok", "Created"}
         THEN /\ st' = [st EXCEPT ![t].pc = NextIo(t), ![t].ino = ino, ![t].len = Default]
              /\ tree' = IF r = "Created"
                         THEN [tree EXCEPT ![Target(call[t].path)] = [kind |-> "file", ino |-> ino]]
                         ELSE tree
              /\ data' = [data EXCEPT ![ino] = IF r = "Created" \/ Truncates(t) THEN <<>> ELSE @]
              /\ Disturbs(t, (IF r = "Created" THEN {"add"} ELSE {})
                             \cup (IF Truncates(t) THEN {"data"} ELSE {}))
         ELSE Ends(t, r) /\ UNCHANGED <<tree, data, noise>>
      /\ UNCHANGED <<call, faults>>

\* statx of an open file, whatever its path names by now.
FdStatx(t) == Len(data[st[t].ino])

\* read takes the length from the metadata of the open file, and then reads
\* exactly that.
size(t) ==
  LET len == FdStatx(t)
  IN  /\ st[t].pc = "size"
      /\ st' = [st EXCEPT ![t].len = len, ![t].pc = IF len = 0 THEN "done" ELSE "read",
                          ![t].res = IF len = 0 THEN "Ok" ELSE @]
      /\ UNCHANGED <<tree, data, call, noise, before, faults>>

KernelRead(d, pos, k) == SubSeq(d, pos + 1, pos + k)

\* read_at may give any number of the bytes asked for, up to the end.
read_at(t, k) == st[t].n + k <= Len(data[st[t].ino])

\* The loop of read_exact_at: nothing read is an unexpected end.
read_exact_at(t) ==
  LET s == st[t]
      d == data[s.ino]
  IN  /\ s.pc = "read"
      /\ IF s.n >= Len(d) THEN Ends(t, "UnexpectedEof")
         ELSE \E k \in 1..(s.len - s.n) :
                /\ read_at(t, k)
                /\ st' = [st EXCEPT ![t].n = @ + k, ![t].buf = @ \o KernelRead(d, s.n, k),
                                    ![t].pc = IF s.n + k = s.len THEN "done" ELSE @,
                                    ![t].res = IF s.n + k = s.len THEN "Ok" ELSE @]
      /\ UNCHANGED <<tree, data, call, noise, before, faults>>

\* A positioned write of k bytes b of a file d; one that was opened to append
\* goes to its end.
KernelWrite(d, b, pos, append) ==
  IF append THEN d \o b
  ELSE [j \in 1..(IF pos + Len(b) > Len(d) THEN pos + Len(b) ELSE Len(d)) |->
          IF j \in (pos + 1)..(pos + Len(b)) THEN b[j - pos] ELSE IF j <= Len(d) THEN d[j] ELSE 0]

\* Mutant: the position does not move on with what was written.
PositionFixed(s) == 0

Position(s) == s.n

\* write_at may take any number of the bytes it is given.
write_at(t, k) ==
  data' = [data EXCEPT ![st[t].ino] =
             KernelWrite(@, SubSeq(call[t].contents, st[t].n + 1, st[t].n + k), Position(st[t]),
                         "append" \in OptionsOf(t))]

\* The loop of write_all_at.
write_all_at(t) ==
  LET s == st[t]
  IN  /\ s.pc = "write"
      /\ OptionsOf(t) \cap {"write", "append"} # {}
      /\ \E k \in 1..(s.len - s.n) :
           /\ write_at(t, k)
           /\ st' = [st EXCEPT ![t].n = @ + k,
                               ![t].pc = IF s.n + k = s.len THEN "done" ELSE @,
                               ![t].res = IF s.n + k = s.len THEN "Ok" ELSE @]
      /\ Disturbs(t, {"data"})
      /\ UNCHANGED <<tree, call, before, faults>>

\* A file that was only opened to read is not written.
NotWritable(t) ==
  /\ st[t].pc = "write"
  /\ OptionsOf(t) \cap {"write", "append"} = {}
  /\ Ends(t, "Failed")
  /\ UNCHANGED <<tree, data, call, noise, before, faults>>

\* An interrupted call is made again; a write of nothing and any other error
\* end the loop.
IoFails(t) ==
  /\ st[t].pc \in {"read", "write"} /\ faults < MaxFaults
  /\ faults' = faults + 1
  /\ \/ UNCHANGED st
     \/ st[t].pc = "write" /\ Ends(t, "WriteZero")
     \/ Ends(t, "Failed")
  /\ UNCHANGED <<tree, data, call, noise, before>>

-----------------------------------------------------------------------------
(* One call of the kernel each.                                            *)

\* What a call that the kernel answers at once leaves behind.
Answers(t, ok, newTree, what) ==
  /\ Ends(t, IF ok THEN "Ok" ELSE "Failed")
  /\ tree' = IF ok THEN newTree ELSE tree
  /\ Disturbs(t, IF ok THEN what ELSE {})
  /\ UNCHANGED <<data, call, before, faults>>

KernelUnlink(e) == e \in Paths /\ tree[e].kind \in {"file", "link"}
KernelRmdir(e) == e \in Paths /\ tree[e].kind = "dir" /\ Children(e) = {}

remove_file(t) ==
  LET e == Real(call[t].path)
  IN  /\ Makes(t, "remove_file")
      /\ Answers(t, KernelUnlink(e), [tree EXCEPT ![e] = None], {"cut"})

remove_dir(t) ==
  LET e == Real(call[t].path)
  IN  /\ Makes(t, "remove_dir")
      /\ Answers(t, KernelRmdir(e), [tree EXCEPT ![e] = None], {"cut"})

\* A directory goes over nothing or an empty directory, ...
KernelRename(p, q) ==
  /\ {p, q} \subseteq Paths \ {<<>>} /\ tree[p].kind # "none" /\ tree[Front(q)] = Dir
  /\ IF tree[p].kind = "dir" THEN tree[q].kind \in {"none", "dir"} /\ Children(q) = {}
     ELSE tree[q].kind # "dir"

\* ... with what is in it.
Renamed(p, q) ==
  [e \in Paths |->
     IF IsPrefix(p, e) THEN None
     ELSE IF IsPrefix(q, e) THEN LET old == p \o SubSeq(e, Len(q) + 1, Len(e))
                                 IN  IF old \in Paths THEN tree[old] ELSE None
     ELSE tree[e]]

rename(t) ==
  LET p == Real(call[t].path)
      q == Real(call[t].to)
  IN  /\ Makes(t, "rename")
      /\ Answers(t, KernelRename(p, q), Renamed(p, q), {"add", "cut"})

KernelSymlink(p) == KernelMkdir(p) = "Ok"

symlink(t) ==
  LET e == Real(call[t].path)
  IN  /\ Makes(t, "symlink") /\ Within(call[t].path)
      /\ Answers(t, KernelSymlink(call[t].path),
                 [tree EXCEPT ![e] = [kind |-> "link", to |-> call[t].to]], {"add"})

\* statx of a path, through a link or of the link itself.
PathStatx(p, follow) ==
  IF follow THEN Kind(p) ELSE IF Real(p) \in Paths THEN tree[Real(p)].kind ELSE "none"

metadata(t) ==
  /\ Makes(t, "metadata")
  /\ Ends(t, PathStatx(call[t].path, TRUE))
  /\ UNCHANGED <<tree, data, call, noise, before, faults>>

symlink_metadata(t) ==
  /\ Makes(t, "symlink_metadata")
  /\ Ends(t, PathStatx(call[t].path, FALSE))
  /\ UNCHANGED <<tree, data, call, noise, before, faults>>

Step(t) ==
  \/ create_dir(t) \/ create_dir_all(t) \/ Climb(t) \/ MkdirFails(t) \/ is_dir(t) \/ Down(t)
  \/ open(t) \/ size(t) \/ read_exact_at(t) \/ write_all_at(t) \/ NotWritable(t) \/ IoFails(t)
  \/ remove_file(t) \/ remove_dir(t) \/ rename(t) \/ symlink(t)
  \/ metadata(t) \/ symlink_metadata(t)

FsNext == \E t \in Tasks : Step(t)

FsSpec == FsInit /\ [][FsNext]_fsVars

-----------------------------------------------------------------------------
\* Something that is not a directory, nor a link to one, is on the way.
Blocked(p) == \E q \in Prefixes(p) \ {<<>>} : Real(q) \in Paths /\ tree[Real(q)].kind # "none" /\ Kind(q) # "dir"

\* create_dir_all made the directory if it says so, whatever others add
\* meanwhile; and it only fails if something that is no directory is in the
\* way, if the kernel failed, or if others changed the tree under it.
TreeMade ==
  \A t \in Tasks : call[t].name = "create_dir_all" /\ st[t].pc = "done" =>
    LET p == call[t].path
    IN  CASE st[t].res = "Ok" -> noise[t] \cap {"cut"} = {} /\ p # <<>> => Kind(p) = "dir"
          [] st[t].res \in {"AlreadyExists", "NotADirectory"} -> noise[t] # {} \/ Blocked(p)
          [] st[t].res = "NotFound" -> "cut" \in noise[t]
          [] st[t].res = "WholeTree" -> "cut" \in noise[t] \/ tree[<<>>].kind = "none"
          [] OTHER -> st[t].res = "Failed" /\ faults > 0

\* What a file holds after it was opened and written, as std documents the
\* options: created only if asked to, emptied only if asked to, added to in
\* append mode, written from the start otherwise.
Written(o, old, new) ==
  LET kept == IF old = Missing \/ ("truncate" \in o /\ "create_new" \notin o) THEN <<>> ELSE old
  IN  IF "append" \in o THEN kept \o new
      ELSE new \o SubSeq(kept, Len(new) + 1, Len(kept))

\* A file opened and written with no other call in between holds what the
\* options promise, short and interrupted writes notwithstanding, and is as it
\* was if it could not be opened; a file read whole is what it holds.
FilesRight ==
  \A t \in Tasks : st[t].pc = "done" /\ noise[t] = {} /\ call[t].name \in {"read", "write"} =>
    LET o == call[t].options
        old == before[t]
    IN  IF st[t].ino = Missing THEN st[t].res \notin {"Ok", "Created"} /\ Contents(call[t].path) = old
        ELSE /\ old # Missing => "create_new" \notin o
             /\ old = Missing => o \cap {"create", "create_new"} # {}
             /\ st[t].res = "UnexpectedEof" => FALSE
             /\ st[t].res = "Ok" =>
                  data[st[t].ino] = IF call[t].name = "read" THEN st[t].buf
                                    ELSE Written(o, old, call[t].contents)

=============================================================================

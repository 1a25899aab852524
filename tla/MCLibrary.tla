----------------------------- MODULE MCLibrary ------------------------------
(***************************************************************************)
(* The parts of the library that share nothing with each other: a          *)
(* behaviour exercises the slab, the intrusive list or the file system.    *)
(***************************************************************************)
EXTENDS Slab, LinkedList, Fs, TLC

VARIABLE which

libraryVars == <<slabVars, listVars, fsVars, which>>

\* No call of the file system is made.
FsIdle ==
  FsStart([tree |-> [p \in Paths |-> None], data |-> [i \in Inodes |-> Missing],
           call |-> [t \in Tasks |-> [name |-> "none", path |-> <<>>]]])

Init ==
  /\ which \in {"slab", "list", "fs"}
  /\ SlabInit /\ ListInit
  /\ IF which = "fs" THEN FsInit ELSE FsIdle

Next ==
  /\ \/ which = "slab" /\ SlabNext /\ UNCHANGED <<listVars, fsVars>>
     \/ which = "list" /\ ListNext /\ UNCHANGED <<slabVars, fsVars>>
     \/ which = "fs" /\ FsNext /\ UNCHANGED <<slabVars, listVars>>
  /\ UNCHANGED which

Spec == Init /\ [][Next]_libraryVars

\* Neither the values nor the nodes and lists are told apart.
Alike == Permutations(Values) \cup Permutations(Nodes) \cup Permutations(Lists)

-----------------------------------------------------------------------------
A == <<"a">>
C == <<"c">>
AB == <<"a", "b">>
CB == <<"c", "b">>
ABD == <<"a", "b", "d">>
MCPaths == {<<>>, A, C, AB, CB, ABD, <<"c", "b", "d">>}

Call(name, path) == [name |-> name, path |-> path, to |-> C, options |-> {}, contents |-> <<>>]
Move(p, q) == [Call("rename", p) EXCEPT !.to = q]
Write(p, o, b) == [Call("write", p) EXCEPT !.options = o, !.contents = <<b, b>>]
Read(p) == [Call("read", p) EXCEPT !.options = OpenPreset]

File(i) == [kind |-> "file", ino |-> i]
Link(p) == [kind |-> "link", to |-> p]
Bare == [p \in MCPaths |-> IF p = <<>> THEN Dir ELSE None]

Scene(tree0, first, second) ==
  [tree |-> tree0, call |-> (1 :> first @@ 2 :> second),
   data |-> [i \in Inodes |-> IF \E p \in MCPaths : tree0[p] = File(i) THEN <<9, 9, 9>> ELSE Missing]]

\* Directories made under others that make and remove them.
Trees == {Bare, [Bare EXCEPT ![<<>>] = None], [Bare EXCEPT ![A] = Dir],
          [Bare EXCEPT ![A] = File(1)], [Bare EXCEPT ![A] = Dir, ![AB] = Dir],
          [Bare EXCEPT ![A] = Dir, ![AB] = File(1)], [Bare EXCEPT ![A] = Dir, ![AB] = Link(C)],
          [Bare EXCEPT ![A] = Link(C), ![C] = Dir], [Bare EXCEPT ![A] = Link(C)],
          [Bare EXCEPT ![C] = Dir, ![CB] = Dir]}
Others == {Call("create_dir_all", AB), Call("create_dir_all", ABD), Call("create_dir_all", A), Call("create_dir", A),
           Call("create_dir", AB), Call("remove_dir", A), Call("remove_dir", AB),
           Call("remove_file", A), Move(A, C), Move(C, A), Call("symlink", A), Call("metadata", A),
           Call("symlink_metadata", A), Call("create_dir_all", <<>>),
           Write(A, {"write", "create"}, 2)}

\* Files opened in every way, read and written under others.
Options == SUBSET {"read", "write", "append", "truncate", "create", "create_new"}
FileTrees == {Bare, [Bare EXCEPT ![A] = File(1)], [Bare EXCEPT ![A] = Dir],
              [Bare EXCEPT ![A] = Link(C), ![C] = File(1)], [Bare EXCEPT ![A] = Link(C)]}
Writers == {Write(A, o, 2) : o \in {CreatePreset, {"append"}}}

MCScenes ==
  {Scene(tr, Call("create_dir_all", p), o) : p \in {AB, ABD}, tr \in Trees, o \in Others}
  \cup {Scene(tr, Write(A, o, 1), Call("metadata", A)) : tr \in FileTrees, o \in Options}
  \cup {Scene(tr, c, o) : tr \in FileTrees,
          c \in Writers \cup {Read(A)},
          o \in Writers \cup {Read(A), Call("remove_file", A), Move(A, C)}}
=============================================================================

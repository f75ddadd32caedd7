----------------------------- MODULE PathTable -----------------------------
(***************************************************************************)
(* src/walk.rs, PathTable and Paths: the paths that the walk pushes are    *)
(* compressed into a table of directories and one arena of bytes, and are  *)
(* put together again when a file is hashed, compared or cloned.           *)
(*                                                                         *)
(* A path is a non-empty sequence of components, a component a sequence of *)
(* bytes; the first one is the root entry, "/" or "".  Numbers of          *)
(* directories start at 0 and offsets are those of the code.               *)
(***************************************************************************)
EXTENDS Integers, Sequences, FiniteSets, SequencesExt

CONSTANTS Byte,
          Width,        \* 2^32: offsets and numbers are u32
          Parents,      \* the directories that are pushed
          FileNames,    \* the files in them
          MaxFiles      \* bound on pushes

Component == Seq(Byte)
Path      == Seq(Component) \ {<<>>}

ASSUME PathTableAssumption ==
    /\ Width \in Nat \ {0}
    /\ Parents \subseteq Path /\ FileNames \subseteq Component
    /\ MaxFiles \in Nat

VARIABLES
    arena, dirs,    \* PathTable
    ids,            \* directory path -> number
    files,          \* the Vec of Paths: payload -> [dir, off, len]
    pushed,         \* history: the paths pushed so far; payloads number them
    todo,           \* the path that push is working on, or <<>>
    state           \* "walk", "sealed" or "panic"

vars == <<arena, dirs, ids, files, pushed, todo, state>>

NO_PARENT == Width - 1

\* The bytes that name returns: off + len is a sum of u32.  A slice that ends
\* before it begins is a panic.
Reads(off, len, name) ==
    LET end == (off + len) % Width IN
    off <= end /\ end <= Len(arena) /\ name = SubSeq(arena, off + 1, end)

\* Where add_name puts a name: after the arena; and a faulty variant that
\* counts from one.
OffsetFromOne == Len(arena) + 1
Offset == Len(arena)

\* The prefixes of a path that intern has yet to add, the shortest one first.
Missing(p) == { k \in 1 .. Len(p) : SubSeq(p, 1, k) \notin DOMAIN ids }

\* push: a file below some directory; intern starts.
Push(parent, name) ==
    /\ state = "walk" /\ todo = <<>> /\ Len(pushed) < MaxFiles
    /\ todo' = Append(parent, name)
    /\ UNCHANGED <<arena, dirs, ids, files, pushed, state>>

\* The parent of a new entry; and a faulty variant that takes the entry before.
ParentIsLast(p) == IF Len(p) = 1 THEN NO_PARENT ELSE Len(dirs) - 1
ParentOf(p) == IF Len(p) = 1 THEN NO_PARENT ELSE ids[Front(p)]

\* The path that intern stores an entry for; and a faulty variant that does
\* not look prefixes up.
NextAny(p) == \E k \in 1 .. Len(todo) - 1 : p = SubSeq(todo, 1, k) /\ Missing(Front(p)) = {}
NextMissing(p) == \E k \in Missing(Front(todo)) :
                      p = SubSeq(todo, 1, k) /\ \A j \in Missing(Front(todo)) : k <= j

\* One level of intern: the expects and the assert are Overflow.
AddDir(p) ==
    /\ state = "walk" /\ todo # <<>>
    /\ NextMissing(p)
    /\ Len(arena) < Width /\ Len(dirs) < NO_PARENT
    /\ arena' = arena \o Last(p)
    /\ dirs' = Append(dirs, [parent |-> ParentOf(p), off |-> Offset, len |-> Len(Last(p))])
    /\ ids' = [q \in DOMAIN ids \cup {p} |-> IF q = p THEN Len(dirs) ELSE ids[q]]
    /\ UNCHANGED <<files, pushed, todo, state>>

\* The end of push.
AddFile ==
    /\ state = "walk" /\ todo # <<>>
    /\ Missing(Front(todo)) = {}
    /\ Len(arena) < Width
    /\ arena' = arena \o Last(todo)
    /\ pushed' = Append(pushed, todo)
    /\ files' = [i \in DOMAIN files \cup {Len(pushed')} |->
                     IF i = Len(pushed')
                     THEN [dir |-> ids[Front(todo)], off |-> Offset, len |-> Len(Last(todo))]
                     ELSE files[i]]
    /\ todo' = <<>>
    /\ UNCHANGED <<dirs, ids, state>>

Overflow ==
    /\ state = "walk" /\ todo # <<>>
    /\ \/ Len(arena) >= Width
       \/ Missing(Front(todo)) # {} /\ Len(dirs) >= NO_PARENT
    /\ state' = "panic"
    /\ UNCHANGED <<arena, dirs, ids, files, pushed, todo>>

seal ==
    /\ state = "walk" /\ todo = <<>>
    /\ state' = "sealed"
    /\ ids' = <<>>
    /\ UNCHANGED <<arena, dirs, files, pushed, todo>>

\* The hashed files are re-tagged (map_batched, in place), and those whose
\* payload is rejected dropped (filter_map).
filter_map(keep) ==
    /\ state = "sealed"
    /\ files' = [i \in DOMAIN files \cap keep |-> files[i]]
    /\ UNCHANGED <<arena, dirs, ids, pushed, todo, state>>

Init ==
    /\ arena = <<>> /\ dirs = <<>> /\ ids = <<>> /\ files = <<>> /\ pushed = <<>>
    /\ todo = <<>> /\ state = "walk"

Next ==
    \/ \E parent \in Parents, name \in FileNames : Push(parent, name)
    \/ \E k \in 1 .. Len(todo) : AddDir(SubSeq(todo, 1, k))
    \/ AddFile \/ Overflow \/ seal
    \/ \E keep \in SUBSET (1 .. Len(pushed)) : filter_map(keep)

Spec == Init /\ [][Next]_vars

-----------------------------------------------------------------------------
(* Properties.                                                             *)

\* What dir_path puts together for directory id: the names along the parents,
\* up to an entry without one.
LeadsTo(id, p) ==
    \E c \in [1 .. Len(p) -> 0 .. Len(dirs) - 1] :
        /\ c[Len(p)] = id
        /\ \A k \in 1 .. Len(p) :
              LET d == dirs[c[k] + 1] IN
              /\ Reads(d.off, d.len, p[k])
              /\ d.parent = IF k = 1 THEN NO_PARENT ELSE c[k - 1]

to_path(f, p) == LeadsTo(f.dir, Front(p)) /\ Reads(f.off, f.len, Last(p))

DirRec  == [parent : Nat, off : Nat, len : Nat]
FileRec == [dir : Nat, off : Nat, len : Nat]

\* The types of the state; parents come before their children, so that dir_path
\* ends, and numbers fit their width.
TypeOK ==
    /\ arena \in Seq(Byte)
    /\ dirs \in Seq(DirRec) /\ Len(dirs) <= NO_PARENT
    /\ \A i \in 1 .. Len(dirs) : dirs[i].off < Width /\ (dirs[i].parent = NO_PARENT \/ dirs[i].parent < i - 1)
    /\ DOMAIN ids \subseteq Path /\ \A p \in DOMAIN ids : ids[p] \in 0 .. Len(dirs) - 1
    /\ DOMAIN files \subseteq 1 .. Len(pushed)
    /\ \A i \in DOMAIN files : files[i] \in FileRec /\ files[i].dir < Len(dirs) /\ files[i].off < Width
    /\ pushed \in Seq(Seq(Component)) /\ \A i \in 1 .. Len(pushed) : Len(pushed[i]) >= 2
    /\ todo = <<>> \/ (todo \in Seq(Component) /\ Len(todo) >= 2)
    /\ state \in {"walk", "sealed", "panic"}

\* A file that is opened for hashing, comparing or cloning is the one that the
\* walk found: its path comes back component by component as it was pushed,
\* whatever directories were interned in between, in whatever order the batches
\* arrived, and after payloads were dropped; as long as the arena's end fits
\* its width.
FilesResolve ==
    Len(arena) < Width => \A i \in DOMAIN files : to_path(files[i], pushed[i])

\* "Each path component is stored once rather than once per file": between two
\* pushes the table has exactly one entry per directory of the pushed paths.
DirsOf(p) == { SubSeq(p, 1, k) : k \in 1 .. Len(p) - 1 }
AllDirs   == UNION { DirsOf(pushed[i]) : i \in 1 .. Len(pushed) }
StoredOnce == todo = <<>> => Len(dirs) = Cardinality(AllDirs)
=============================================================================

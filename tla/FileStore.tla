----------------------------- MODULE FileStore -----------------------------
(***************************************************************************)
(* What filefs (projects/project2b) promises its user: a store of files    *)
(* under paths, which -a adds to without overwriting, -r removes a file or *)
(* a whole directory from and -e reads.  A directory is nothing but a      *)
(* proper prefix of the path of a file.  A command that fails changes      *)
(* nothing, with one exception: a -r that does not come to its end may     *)
(* have spoilt the files it was to remove, and those only.                 *)
(***************************************************************************)
EXTENDS Naturals, Sequences

CONSTANTS Paths,   \* paths, as non-empty sequences of names
          Content  \* Content[name]: what the file the user calls name holds

VARIABLES files, \* the files stored: path and content
          out    \* what -e has printed last

vars == <<files, out>>

IsPrefixOf(p, q) == Len(p) <= Len(q) /\ SubSeq(q, 1, Len(p)) = p

Init ==
  /\ files = {}
  /\ out = << >>

\* -a: the user has the file, no file and no directory has the path, and no
\* file is on the way.
Add(path) ==
  /\ path[Len(path)] \in DOMAIN Content
  /\ \A f \in files : ~IsPrefixOf(path, f.path) /\ ~IsPrefixOf(f.path, path)
  /\ files' = files \union {[path |-> path, content |-> Content[path[Len(path)]]]}
  /\ UNCHANGED out

\* -r: the file goes, or all the files of the directory.
Remove(path) ==
  /\ \E f \in files : IsPrefixOf(path, f.path)
  /\ files' = {f \in files : ~IsPrefixOf(path, f.path)}
  /\ UNCHANGED out

\* -r before it is done: the files it is to remove are still there, but what
\* they hold may be gone.
Spoil(path) ==
  /\ {f.path : f \in files'} = {f.path : f \in files}
  /\ {f \in files' : ~IsPrefixOf(path, f.path)} = {f \in files : ~IsPrefixOf(path, f.path)}
  /\ UNCHANGED out

Extract(path) ==
  /\ \E f \in files : f.path = path /\ out' = f.content
  /\ UNCHANGED files

Next == \E path \in Paths : Add(path) \/ Remove(path) \/ Spoil(path) \/ Extract(path)

Spec == Init /\ [][Next]_vars
=============================================================================

---------------------------- MODULE FileTree ----------------------------
(***************************************************************************)
(* What the file system of P6 promises its users: a tree of names over     *)
(* objects with contents.  Nothing here is a block, a bitmap or a disk;    *)
(* FileSystem is shown to implement this specification, a remount of the   *)
(* volume being a step that changes nothing.                               *)
(***************************************************************************)
EXTENDS Naturals, Sequences, FiniteSets

CONSTANTS Objects, Names, Root, Data, MaxSize

Kinds    == {"DIRECTORY", "NORMAL_FILE", "SOFT_LINK"}
NoObject == "NONE"

VARIABLES
  entries,   \* the names: <<directory, name, object>>
  kind,      \* the type of each object, NoObject when it does not exist
  content    \* the units of each file that exists

treeVars == <<entries, kind, content>>

EntriesOf(d) == {e \in entries : e[1] = d}
NamesOf(i)   == {e \in entries : e[3] = i}
Free(d, n)   == \A e \in EntriesOf(d) : e[2] # n

TreeInit ==
  /\ entries = {}
  /\ kind = [i \in Objects |-> IF i = Root THEN "DIRECTORY" ELSE NoObject]
  /\ content = [i \in Objects |-> <<>>]

\* mkdir, mknod and symlink: only a symbolic link is born with a content
Create(d, n, i, k) ==
  /\ kind[d] = "DIRECTORY" /\ Free(d, n) /\ kind[i] = NoObject
  /\ entries' = entries \cup {<<d, n, i>>}
  /\ kind' = [kind EXCEPT ![i] = k]
  /\ k # "SOFT_LINK" => content'[i] = <<>>
  /\ content' = [content EXCEPT ![i] = content'[i]]

Link(d, n, i) ==
  /\ kind[d] = "DIRECTORY" /\ Free(d, n) /\ kind[i] \in Kinds \ {"DIRECTORY"}
  /\ entries' = entries \cup {<<d, n, i>>}
  /\ UNCHANGED <<kind, content>>

\* unlink and rmdir: the object goes with its last name
Remove(e) ==
  /\ e \in entries /\ EntriesOf(e[3]) = {}
  /\ entries' = entries \ {e}
  /\ IF NamesOf(e[3]) = {e}
       THEN /\ kind' = [kind EXCEPT ![e[3]] = NoObject]
            /\ content' = [content EXCEPT ![e[3]] = <<>>]
       ELSE UNCHANGED <<kind, content>>

\* e moves to name n of directory d
Rename(e, d, n) ==
  /\ e \in entries /\ kind[d] = "DIRECTORY" /\ Free(d, n)
  /\ entries' = (entries \ {e}) \cup {<<d, n, e[3]>>}
  /\ UNCHANGED <<kind, content>>

\* size units x are written at offset; a hole before offset may hold anything
Write(i, offset, size, x) ==
  LET c == content[i]  new == content'[i] IN
  /\ kind[i] = "NORMAL_FILE"
  /\ Len(new) = IF Len(c) < offset + size THEN offset + size ELSE Len(c)
  /\ \A k \in 1..Len(c) : k \notin offset + 1..offset + size => new[k] = c[k]
  /\ \A k \in offset + 1..offset + size : new[k] = x
  /\ content' = [content EXCEPT ![i] = new]
  /\ UNCHANGED <<entries, kind>>

\* a truncation keeps what is left; growth within a block may be ignored
Truncate(i, size) ==
  LET c == content[i]  new == content'[i] IN
  /\ kind[i] = "NORMAL_FILE"
  /\ Len(new) = size \/ (size > Len(c) /\ new = c)
  /\ \A k \in 1..Len(new) : k <= Len(c) => new[k] = c[k]
  /\ content' = [content EXCEPT ![i] = new]
  /\ UNCHANGED <<entries, kind>>

TreeNext ==
  \/ \E d, i \in Objects, n \in Names :
       \/ \E k \in Kinds : Create(d, n, i, k)
       \/ Link(d, n, i)
  \/ \E e \in entries :
       \/ Remove(e)
       \/ \E d \in Objects, n \in Names : Rename(e, d, n)
  \/ \E i \in Objects, size \in 0..MaxSize :
       \/ Truncate(i, size)
       \/ \E offset \in 0..MaxSize, x \in Data : Write(i, offset, size, x)

TreeSpec == TreeInit /\ [][TreeNext]_treeVars

-----------------------------------------------------------------------------
TreeTypeOK ==
  /\ entries \subseteq Objects \X Names \X Objects
  /\ kind \in [Objects -> Kinds \cup {NoObject}]

\* a name of a directory names one object
NamesAreUnique ==
  \A e, f \in entries : e[1] = f[1] /\ e[2] = f[2] => e = f

\* no name leads out of the tree, and none is kept where no directory is
NamesLead ==
  \A e \in entries : kind[e[1]] = "DIRECTORY" /\ kind[e[3]] # NoObject

\* a file is there as long as a name leads to it, and the root has no name
ObjectsAreNamed ==
  \A i \in Objects : i # Root => (kind[i] # NoObject <=> NamesOf(i) # {})
RootStays ==
  NamesOf(Root) = {} /\ (Root \in Objects => kind[Root] = "DIRECTORY")

\* only files have two names
DirectoriesHaveOneName ==
  \A e, f \in entries : e[3] = f[3] /\ kind[e[3]] = "DIRECTORY" => e = f

(***************************************************************************)
(* What the names of the volume are at every moment: a name leads to one   *)
(* object, an object exists while it is named, and directories nest.       *)
(***************************************************************************)
TreeSound ==
  /\ NamesAreUnique /\ NamesLead
  /\ ObjectsAreNamed /\ RootStays /\ DirectoriesHaveOneName
=============================================================================

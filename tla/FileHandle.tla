------------------------------- MODULE FileHandle -------------------------------
(***************************************************************************)
(* Class FileHandle: the working directory of a client, the tree of files  *)
(* below the server's root that all handles share, and the calls that      *)
(* change it.  deleteDirectory makes one system call after the other while *)
(* other handles work on the same tree.                                    *)
(*                                                                         *)
(* A name is a sequence of characters, a path the names below the root.    *)
(* completePath keeps the root in front: its size is one more than that of *)
(* path[h].  Calls that fail at once and change nothing are no steps.  The *)
(* names given are names of entries, as the parameter "strict" makes them. *)
(***************************************************************************)
EXTENDS Integers, FiniteSets, SequencesExt

CONSTANTS Handle,      \* one per connection
          Name,        \* the names that clients use
          RootString,  \* SERVERROOTPATHSTRING
          MaxDepth,    \* bound: how deep the tree grows
          MaxPath,     \* bound: how deep a handle goes
          MaxMade      \* bound: entries made and not yet forgotten

Dot == << "." >>
DotDot == << ".", "." >>

ASSUME HandleAssumption == IsFiniteSet(Handle)
ASSUME NameAssumption ==
  /\ Name \subseteq Seq(STRING) /\ RootString \in Seq(STRING)
  /\ Name \cap {<< >>, Dot, DotDot} = {}
  /\ MaxDepth \in Nat \ {0} /\ MaxPath \in Nat /\ MaxMade \in Nat

VARIABLES
  alive,               \* the process has not ended
  files, dirs,         \* the paths of the files and directories
  path,                \* completePath
  deletedFiles, deletedDirectories,   \* the lists, as their lengths
  stack,               \* the calls of deleteDirectory that have begun
  cancel,              \* their flag: an error was met
  touched,             \* history: another handle changed what is deleted
  made                 \* history: entries made, less those of cleared lists

treeVars == <<files, dirs>>
listVars == <<deletedFiles, deletedDirectories>>
callVars == <<stack, cancel>>
vars == <<alive, treeVars, path, listVars, callVars, touched, made>>

(* The objects as their constructors leave them. *)
Fresh(cwd, df, dd, calls, flag, hist) ==
  /\ cwd = [h \in Handle |-> << >>] /\ calls = cwd
  /\ df = [h \in Handle |-> 0] /\ dd = df
  /\ flag = [h \in Handle |-> FALSE] /\ hist = flag

Init ==
  /\ alive = TRUE
  /\ files = {} /\ dirs = {}
  /\ Fresh(path, deletedFiles, deletedDirectories, stack, cancel, touched)
  /\ made = 0

-----------------------------------------------------------------------------
(* The file system. *)

Entries == files \cup dirs
IsDir(p) == p = << >> \/ p \in dirs
Children(d) == {p \in Entries : p # << >> /\ Front(p) = d}
Empty(p) == p \in dirs /\ Children(p) = {}
Free(p) == /\ IsDir(Front(p)) /\ p \notin Entries
           /\ Len(p) <= MaxDepth /\ made < MaxMade

Resolved(d, n) == IF n = Dot THEN d ELSE IF n = DotDot THEN Front(d) ELSE Append(d, n)

Deleting(h) == stack[h] # << >>
Target(h) == Head(stack[h]).dir

(* Handle h has changed the entry p. *)
Touch(h, p) ==
  touched' = [g \in Handle |-> touched[g] \/ (/\ g # h /\ Deleting(g)
                                               /\ IsPrefix(Target(g), p))]

MakeFile(h, p) ==
  /\ Free(p) /\ files' = files \cup {p} /\ UNCHANGED dirs
  /\ made' = made + 1 /\ Touch(h, p)

MakeDir(h, p) ==
  /\ Free(p) /\ dirs' = dirs \cup {p} /\ UNCHANGED files
  /\ made' = made + 1 /\ Touch(h, p)

(* remove() also removes an empty directory. *)
Removable(p) == p \in files \/ Empty(p)
Unlink(h, p) ==
  /\ files' = files \ {p} /\ dirs' = dirs \ {p}
  /\ Touch(h, p)

-----------------------------------------------------------------------------
Idle(h) == alive /\ ~Deleting(h)

ChangeUp(h) ==
  /\ Idle(h) /\ path[h] # << >>
  /\ path' = [path EXCEPT ![h] = Front(@)]
  /\ UNCHANGED <<alive, treeVars, listVars, callVars, touched, made>>

ChangeDir(h, n) ==
  /\ Idle(h) /\ IsDir(Append(path[h], n)) /\ Len(path[h]) < MaxPath
  /\ path' = [path EXCEPT ![h] = Append(@, n)]
  /\ UNCHANGED <<alive, treeVars, listVars, callVars, touched, made>>

CreateDirectory(h, n) ==
  /\ Idle(h) /\ MakeDir(h, Append(path[h], n))
  /\ UNCHANGED <<alive, path, listVars, callVars>>

CreateFile(h, n) ==
  /\ Idle(h) /\ MakeFile(h, Append(path[h], n))
  /\ UNCHANGED <<alive, path, listVars, callVars>>

(* find_first_of looks for any of the characters, not for the string.       *)
Strips(n) == n # << >> /\ Head(n) \in ToSet(RootString)
TooShort(n) == Strips(n) /\ Len(n) < Len(RootString)
Stripped(n) ==
  IF Strips(n) THEN SubSeq(n, Len(RootString) + 1, Len(n)) ELSE n

(* beginWriteFile and writeFileAtOnce: a file in the root, wherever the     *)
(* handle is.                                                               *)
OpenToWrite(h, n) ==
  /\ Idle(h) /\ ~TooShort(n) /\ Stripped(n) # << >>
  /\ MakeFile(h, << Stripped(n) >>)
  /\ UNCHANGED <<alive, path, listVars, callVars>>

(* substr throws std::out_of_range: the tree is all that the process leaves. *)
OpenShort(h, n) ==
  /\ Idle(h) /\ TooShort(n)
  /\ alive' = FALSE /\ made' = Cardinality(Entries)
  /\ Fresh(path', deletedFiles', deletedDirectories', stack', cancel', touched')
  /\ UNCHANGED treeVars

Listed(list, h) == list' = [list EXCEPT ![h] = @ + 1]

DeleteFile(h, n) ==
  LET p == Append(path[h], n) IN
  /\ Idle(h) /\ Removable(p)
  /\ Unlink(h, p)
  /\ Listed(deletedFiles, h)
  /\ UNCHANGED <<alive, path, deletedDirectories, callVars, made>>

ClearLists(h) ==
  /\ Idle(h)
  /\ \/ /\ deletedFiles' = [deletedFiles EXCEPT ![h] = 0]
        /\ made' = made - deletedFiles[h]
        /\ UNCHANGED deletedDirectories
     \/ /\ deletedDirectories' = [deletedDirectories EXCEPT ![h] = 0]
        /\ made' = made - deletedDirectories[h]
        /\ UNCHANGED deletedFiles
  /\ UNCHANGED <<alive, treeVars, path, callVars, touched>>

-----------------------------------------------------------------------------
(* deleteDirectory(name, cancel, pathToDir). *)

(* browse: the names in d; ".." is left out when the handle is at the root. *)
Browse(h, d) ==
  IF IsDir(d)
  THEN [files |-> {Last(p) : p \in Children(d) \cap files},
        directories |-> {Last(p) : p \in Children(d) \cap dirs} \cup {Dot}
                          \cup (IF path[h] = << >> THEN {} ELSE {DotDot})]
  ELSE [files |-> {}, directories |-> {}]

Call(h, d) == [dir |-> d, files |-> Browse(h, d).files,
               directories |-> Browse(h, d).directories]
Top(h) == Last(stack[h])
Step(h) == alive /\ Deleting(h)
(* Fault: the iterator is not advanced. *)
Forget_Kept(h, field, n) == UNCHANGED stack
Forget(h, field, n) ==
  stack' = [stack EXCEPT ![h] = Front(@) \o
              << [Top(h) EXCEPT ![field] = @ \ {n}] >>]

DeleteDirectory(h, n) ==
  /\ Idle(h)
  /\ stack' = [stack EXCEPT ![h] = << Call(h, Append(path[h], n)) >>]
  /\ touched' = [touched EXCEPT ![h] = FALSE]
  /\ UNCHANGED <<alive, treeVars, path, listVars, cancel, made>>

(* Fault: what could not be removed is listed as well. *)
Deleted_Always(h, p) == TRUE
Deleted(h, p) == Removable(p)

(* The files first; an error stops the recursion but not this loop. *)
DeleteEntry(h) ==
  /\ Step(h)
  /\ \E n \in Top(h).files :
       LET p == Append(Top(h).dir, n) IN
       /\ Forget(h, "files", n)
       /\ \/ /\ Deleted(h, p)
             /\ Unlink(h, p) /\ Listed(deletedFiles, h)
             /\ UNCHANGED cancel
          \/ /\ ~Deleted(h, p)
             /\ cancel' = [cancel EXCEPT ![h] = TRUE]
             /\ UNCHANGED <<treeVars, deletedFiles, touched>>
  /\ UNCHANGED <<alive, path, deletedDirectories, made>>

(* Fault: ".." is taken for a subdirectory. *)
Skipped_Dot(h, n) == n = Dot \/ cancel[h]

(* Fault: no directory is entered. *)
Skipped_All(h, n) == TRUE

(* "." and "..", and every directory once an error was met. *)
Skipped(h, n) == n \in {Dot, DotDot} \/ cancel[h]

Skip(h) ==
  /\ Step(h) /\ Top(h).files = {}
  /\ \E n \in Top(h).directories : Skipped(h, n) /\ Forget(h, "directories", n)
  /\ UNCHANGED <<alive, treeVars, path, listVars, cancel, touched, made>>

Recurse(h) ==
  /\ Step(h) /\ Top(h).files = {}
  /\ \E n \in Top(h).directories :
       /\ ~Skipped(h, n)
       /\ stack' = [stack EXCEPT ![h] = Front(@) \o
            << [Top(h) EXCEPT !.directories = @ \ {n}],
               Call(h, Resolved(Top(h).dir, n)) >>]
  /\ UNCHANGED <<alive, treeVars, path, listVars, cancel, touched, made>>

(* rmdir; a failure goes to the log only. *)
(* Fault: a directory is removed with what others made in it. *)
Gone_Forced(d) == d \in dirs
Gone(d) == Empty(d)

Return(h) ==
  LET d == Top(h).dir IN
  /\ Step(h) /\ Top(h).files = {} /\ Top(h).directories = {}
  /\ stack' = [stack EXCEPT ![h] = Front(@)]
  /\ cancel' = [cancel EXCEPT ![h] = @ /\ Len(stack[h]) > 1]
  /\ \/ Gone(d) /\ Unlink(h, d) /\ Listed(deletedDirectories, h)
     \/ ~Gone(d) /\ UNCHANGED <<treeVars, deletedDirectories, touched>>
  /\ UNCHANGED <<alive, path, deletedFiles, made>>

Delete(h) == DeleteEntry(h) \/ Skip(h) \/ Recurse(h) \/ Return(h)

Next == \E h \in Handle :
  \/ ChangeUp(h) \/ ClearLists(h) \/ Delete(h)
  \/ \E n \in Name : \/ ChangeDir(h, n) \/ CreateDirectory(h, n)
                     \/ CreateFile(h, n) \/ OpenToWrite(h, n) \/ OpenShort(h, n)
                     \/ DeleteFile(h, n) \/ DeleteDirectory(h, n)

Spec == Init /\ [][Next]_vars

(* A call that has begun runs on; nobody need call anything.                *)
FairSpec == Spec /\ \A h \in Handle : WF_vars(Delete(h))

-----------------------------------------------------------------------------
(* The tree is one: what is in it lies in a directory that is in it.        *)
TypeOK ==
  /\ alive \in BOOLEAN
  /\ files \cap dirs = {} /\ << >> \notin Entries
  /\ \A p \in Entries : p \in Seq(Seq(STRING)) /\ IsDir(Front(p))
  /\ path \in [Handle -> Seq(Name)]
  /\ deletedFiles \in [Handle -> Nat] /\ deletedDirectories \in [Handle -> Nat]
  /\ cancel \in [Handle -> BOOLEAN] /\ touched \in [Handle -> BOOLEAN]
  /\ made \in 0 .. MaxMade

ListedBy(h) == deletedFiles[h] + deletedDirectories[h]

(* Every entry that was made is there or on the list of the one handle that *)
(* removed it, also when two handles delete the same tree.                  *)
Accounted == Cardinality(Entries) + SumFunction([h \in Handle |-> ListedBy(h)]) = made

(* A recursive delete removes nothing but the named directory and what is   *)
(* below it.                                                                *)
DeletesBelow ==
  [][\A h \in Handle : stack'[h] # stack[h] /\ Deleting(h) =>
       \A p \in Entries \ (files' \cup dirs') : IsPrefix(Target(h), p)]_vars

(* When no other handle works below it meanwhile, deleteDirectory meets no  *)
(* error and the directory is gone when it returns.                         *)
DeleteIsWhole ==
  [][\A h \in Handle : Deleting(h) /\ stack'[h] = << >> /\ ~touched[h] =>
       ~alive' \/ (~cancel[h] /\ Target(h) \notin dirs')]_vars

(* deleteDirectory returns, whatever others make below it: each call works  *)
(* on one listing.                                                          *)
DeleteReturns == \A h \in Handle : Deleting(h) ~> ~Deleting(h)
=============================================================================

----------------------------- MODULE FileStore -----------------------------
(***************************************************************************)
(* What a FAT volume promises its users, one command after the other: a    *)
(* map from paths to sizes, and directories that own what lies in them.    *)
(* Every command changes what its own path names and nothing else. FatFs   *)
(* implements it on a disk, sector by sector.                              *)
(*                                                                         *)
(* The manuals (shell_manual.md and rsl_manual.md: "create or overwrite")  *)
(* and the help of the shell describe the store without Tails. The code    *)
(* is only the store with Tails: a write over a longer file may leave the  *)
(* rest of it where it was.                                                *)
(***************************************************************************)
EXTENDS Integers

CONSTANTS
  FileNames,
  DirNames,
  Top,         \* the directory part of a path in the root
  MaxWrite,    \* bound: sectors per write command
  Tails        \* whether a write may leave the end of a longer file

VARIABLES
  files,       \* the size of each file in sectors, Absent if there is none
  dirs,        \* the directories that exist
  last         \* the sectors the last write to each path has stored in it

store == <<files, dirs, last>>

Absent == -1
FilePaths == [dir : DirNames \cup {Top}, name : FileNames]

Init ==
  /\ dirs = {}
  /\ files = [p \in FilePaths |-> Absent]
  /\ last = [p \in FilePaths |-> 0]

(* A new file is empty, and lies in a directory that exists. *)
Create(path) ==
  /\ path.dir \in dirs \cup {Top}
  /\ files[path] = Absent
  /\ files' = [files EXCEPT ![path] = 0]
  /\ UNCHANGED <<dirs, last>>

(* A write of n sectors replaces the file. (On a full volume n is less     *)
(* than was asked for.)                                                    *)
Write(path, n) ==
  /\ files[path] # Absent
  /\ files' = [files EXCEPT ![path] = n]
  /\ last' = [last EXCEPT ![path] = n]
  /\ UNCHANGED dirs

(* Against the manuals: the file keeps its size, and the sectors after the *)
(* first n what they held.                                                 *)
WriteKeepingTail(path, n) ==
  /\ Tails
  /\ files[path] > n
  /\ last' = [last EXCEPT ![path] = n]
  /\ UNCHANGED <<files, dirs>>

Remove(path) ==
  /\ files[path] # Absent
  /\ files' = [files EXCEPT ![path] = Absent]
  /\ last' = [last EXCEPT ![path] = 0]
  /\ UNCHANGED dirs

(* A new directory is empty, whatever was there under its name before. *)
MakeDir(name) ==
  /\ name \notin dirs
  /\ dirs' = dirs \cup {name}
  /\ UNCHANGED <<files, last>>

RemoveDir(name) ==
  /\ name \in dirs
  /\ dirs' = dirs \ {name}
  /\ files' = [p \in FilePaths |-> IF p.dir = name THEN Absent ELSE files[p]]
  /\ last' = [p \in FilePaths |-> IF p.dir = name THEN 0 ELSE last[p]]

Next ==
  \/ \E path \in FilePaths :
       \/ Create(path) \/ Remove(path)
       \/ \E n \in 1 .. MaxWrite : Write(path, n) \/ WriteKeepingTail(path, n)
  \/ \E name \in DirNames : MakeDir(name) \/ RemoveDir(name)

Spec == Init /\ [][Next]_store
=============================================================================

-------------------------------- MODULE Shell --------------------------------
(***************************************************************************)
(* The shell (shell.c): its boot menu, its current directory, what its     *)
(* commands refuse, and how a path reaches a volume (the routing of vfs.c, *)
(* then resolve_path_to_cluster). One command is one step.                 *)
(*                                                                         *)
(* A path is a string cut into tokens: "/", ":", and names; so curdir and  *)
(* an argument are concatenated as the code does it. What a volume holds   *)
(* is the set of the names in it, each as the sequence of the names on its *)
(* way; whether a name is that of a file or of a directory nobody looks    *)
(* at. Commands that change nothing of this are left out.                  *)
(***************************************************************************)
EXTENDS Naturals, SequencesExt

CONSTANTS
  Drives,        \* the digits that name drives
  BootNodes,     \* the VFS nodes of the boot after "/": [name, drive] each
  Args,          \* bound: the arguments typed, as sequences of tokens
  MaxNodes,      \* MAX_VFS_NODES
  MaxTokens,     \* bound: the length of curdir
  MaxEntries     \* bound: the names on all volumes

Root == <<"/">>

ASSUME ShellAssumption ==
  /\ Drives \subseteq STRING \ {"/"}
  /\ BootNodes \in Seq([name : STRING \ {"/"}, drive : Drives])
  /\ Args \subseteq Seq(STRING) \ {<<>>}
  /\ MaxNodes > Len(BootNodes) /\ MaxTokens \in Nat /\ MaxEntries \in Nat

VARIABLES
  is_safe,
  curdir,
  nodes,         \* vfs_registry
  entries        \* the names on the volumes: [drive, path]

vars == <<is_safe, curdir, nodes, entries>>

Entry(d, p) == [drive |-> d, path |-> p]

(* The boot menu: only "2" makes the session safe. *)
Init ==
  /\ is_safe \in BOOLEAN
  /\ curdir = Root
  /\ nodes = BootNodes
  /\ entries = {}

-----------------------------------------------------------------------------
(* Strings. *)
HasColon(p) == Contains(p, ":")
IsAbsolute(p) == HasColon(p) \/ p[1] = "/"

\* Mutant: a path that starts with a name is relative even with a volume.
ResolveSlashOnly(arg) == IF arg[1] = "/" \/ curdir = Root THEN arg ELSE curdir \o arg

(* resolve_path. *)
Resolve(arg) == IF IsAbsolute(arg) \/ curdir = Root THEN arg ELSE curdir \o arg

(* Directories end with a slash. *)
WithSlash(p) == IF p[Len(p)] = "/" THEN p ELSE Append(p, "/")

\* Mutant: the slash at the end counts, so .. stays where it is.
ParentOfSame(p) ==
  LET slashes == {k \in 1 .. Len(p) : p[k] = "/"}
  IN IF slashes = {} THEN Root ELSE SubSeq(p, 1, CHOOSE k \in slashes : \A j \in slashes : j <= k)

(* cd ..: up to the last slash that is not at the end. The code copies it  *)
(* through buf[256] (shell.c:180): a curdir that long is left out.         *)
ParentOf(p) ==
  LET slashes == {k \in 1 .. Len(p) - 1 : p[k] = "/"}
  IN IF p = Root \/ slashes = {} THEN Root
     ELSE SubSeq(p, 1, CHOOSE k \in slashes : \A j \in slashes : j <= k)

-----------------------------------------------------------------------------
(* The first node whose name the path starts with. The node of "/" has no  *)
(* handlers for these commands.                                            *)
Route(p) == {k \in DOMAIN nodes : nodes[k].name = p[1] /\ \A j \in 1 .. k - 1 : nodes[j].name # p[1]}
DriveOf(p) == {nodes[k].drive : k \in Route(p)}

(* The names below the volume. *)
NamesOf(p) ==
  LET rest == Tail(p)
      names[k \in 0 .. Len(rest)] ==
        IF k = 0 THEN <<>>
        ELSE IF rest[k] \in {":", "/"} THEN names[k - 1] ELSE Append(names[k - 1], rest[k])
  IN names[Len(rest)]

Holds(d, names) == names = <<>> \/ \E e \in entries : e.drive = d /\ e.path = names

(* resolve_path_to_cluster: every name on the way has an entry in the one  *)
(* before it, be that a directory or a file.                               *)
Found(d, names) == \A n \in 0 .. Len(names) : Holds(d, SubSeq(names, 1, n))
Exists(p) == \E d \in DriveOf(p) : Found(d, NamesOf(p))

AtOrBelow(d, names) == {e \in entries : e.drive = d /\ IsPrefix(names, e.path)}

(* The entries of a directory. *)
Held(d, names) == {e \in AtOrBelow(d, names) : Len(e.path) = Len(names) + 1}

(* The directory in which a path is created, and its last name, empty if   *)
(* the path ends with a slash.                                             *)
HasBase(p) == NamesOf(p) # <<>> /\ p[Len(p)] # "/"
DirOf(p) == IF HasBase(p) THEN Front(NamesOf(p)) ELSE NamesOf(p)
BaseOf(p) == IF HasBase(p) THEN p[Len(p)] ELSE ""

-----------------------------------------------------------------------------
(* A drive number is valid without a look at the drive, and whatever       *)
(* follows it.                                                             *)
NamesDrive(p) == Len(p) >= 3 /\ p[1] \in Drives /\ p[2] = ":" /\ p[3] = "/"

\* Mutant: the slash is left out.
CdBare(arg) ==
  LET p == IF arg = <<"..">> THEN ParentOf(curdir) ELSE Resolve(arg)
  IN /\ p = Root \/ Exists(p) \/ NamesDrive(p)
     /\ Len(p) < MaxTokens
     /\ curdir' = p
     /\ UNCHANGED <<is_safe, nodes, entries>>

(* cd with an argument; an invalid path leaves curdir. *)
Cd(arg) ==
  LET p == IF arg = <<"..">> THEN ParentOf(curdir) ELSE Resolve(arg)
  IN /\ p = Root \/ Exists(p) \/ NamesDrive(p)
     /\ Len(p) < MaxTokens
     /\ curdir' = WithSlash(p)
     /\ UNCHANGED <<is_safe, nodes, entries>>

\* Mutant: the session is not looked at.
RefusedAtRoot == curdir = Root

(* write, mkdir and rmdir are refused in a safe session and at the root,   *)
(* there even for a path with a volume.                                    *)
Refused == is_safe \/ curdir = Root

(* write. A name that is there is overwritten: if it is a directory, the   *)
(* text replaces some of its first entries. Otherwise its directory gets   *)
(* a new file. The full directory and the full disk are in FatFs.          *)
Write(arg) ==
  LET p == Resolve(arg)
  IN /\ ~Refused
     /\ \E d \in DriveOf(p) :
          \/ /\ Found(d, NamesOf(p))
             /\ \E lost \in SUBSET Held(d, NamesOf(p)) :
                  entries' = entries \ UNION {AtOrBelow(d, e.path) : e \in lost}
          \/ /\ ~Found(d, NamesOf(p)) /\ Found(d, DirOf(p))
             /\ Cardinality(entries) < MaxEntries
             /\ entries' = entries \cup {Entry(d, Append(DirOf(p), BaseOf(p)))}
     /\ UNCHANGED <<is_safe, curdir, nodes>>

(* mkdir. *)
Mkdir(arg) ==
  LET p == Resolve(arg)
  IN /\ ~Refused
     /\ \E d \in DriveOf(p) :
          /\ Found(d, DirOf(p))
          /\ Cardinality(entries) < MaxEntries
          /\ ~Holds(d, Append(DirOf(p), BaseOf(p)))
          /\ entries' = entries \cup {Entry(d, Append(DirOf(p), BaseOf(p)))}
     /\ UNCHANGED <<is_safe, curdir, nodes>>

(* rmdir, of a file or of a directory with all that is in it. For a volume *)
(* f_unlink has no entry to mark and writes to sector 0.                   *)
Rmdir(arg) ==
  LET p == Resolve(arg)
  IN /\ ~Refused
     /\ \E d \in DriveOf(p) :
          /\ NamesOf(p) # <<>> /\ Found(d, NamesOf(p))
          /\ entries' = entries \ AtOrBelow(d, NamesOf(p))
     /\ UNCHANGED <<is_safe, curdir, nodes>>

HasVolume(arg) == \E k \in 1 .. Len(arg) - 1 : arg[k] = ":" /\ arg[k + 1] = "/"

(* mount of a drive whose volume can be mounted; it may be mounted already.*)
Mount(arg) ==
  /\ HasVolume(arg) /\ arg[1] \in Drives
  /\ Len(nodes) < MaxNodes
  /\ nodes' = Append(nodes, [name |-> arg[1], drive |-> arg[1]])
  /\ UNCHANGED <<is_safe, curdir, entries>>

(* format, in a safe session too: what is mounted stays mounted. *)
Format(arg) ==
  /\ HasVolume(arg) /\ arg[1] \in Drives
  /\ entries' = {e \in entries : e.drive # arg[1]}
  /\ UNCHANGED <<is_safe, curdir, nodes>>

Next == \E arg \in Args :
  Cd(arg) \/ Write(arg) \/ Mkdir(arg) \/ Rmdir(arg) \/ Mount(arg) \/ Format(arg)

Spec == Init /\ [][Next]_vars

-----------------------------------------------------------------------------
(* curdir is the global root, or ends with a slash and starts with what    *)
(* routes to a volume, or with a drive number ("The shell maintains a      *)
(* Current Working Directory", shell_manual.md:12): the commands append to *)
(* it as it is.                                                            *)
CurdirNamesVolume ==
  curdir = Root \/ /\ curdir[Len(curdir)] = "/"
                   /\ DriveOf(curdir) # {} \/ NamesDrive(curdir)

(* From wherever the shell has come to, "Use `cd ..` to go up one level"   *)
(* takes back a cd to a name.                                              *)
ParentReturns ==
  curdir # Root => ParentOf(WithSlash(Append(curdir, "x"))) = curdir

Changed == (entries \ entries') \cup (entries' \ entries)

(* A command with a relative path changes names only at or below the       *)
(* current directory, on its volume; one with a volume, only there; and in *)
(* a safe session only a format changes any: "destructive commands like    *)
(* `write`, `mkdir`, and `rmdir` are disabled" (shell_manual.md:39).       *)
ChangesStayInContext ==
  [][ \A arg \in Args : Write(arg) \/ Mkdir(arg) \/ Rmdir(arg) =>
        /\ ~is_safe
        /\ \A e \in Changed :
             IF HasColon(arg)
             THEN e.drive \in DriveOf(arg) /\ IsPrefix(DirOf(arg), e.path)
             ELSE e.drive \in DriveOf(curdir) /\ IsPrefix(NamesOf(curdir), e.path) ]_vars
=============================================================================

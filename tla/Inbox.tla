-------------------------------- MODULE Inbox --------------------------------
(***************************************************************************)
(* The download directory that all sessions a host receives at the same    *)
(* time share.  TransferServer::run spawns a task per connection and       *)
(* nothing orders their access to the disk: each picks a free name when    *)
(* its StartFile comes (unique_path), writes to that name with .part       *)
(* appended, and renames when the checksum has matched                     *)
(* (receive_files in src/src/transfer.rs).  One action is the code between *)
(* two awaits.  A session is taken with one of its files: the files of a   *)
(* session come one after the other.                                       *)
(*                                                                         *)
(* The directory maps paths to inodes and an open file holds on to its     *)
(* inode, as in POSIX: creating a path that is there truncates the inode,  *)
(* renaming or removing the path leaves the writers of the inode alone.    *)
(***************************************************************************)
EXTENDS Naturals, Sequences, FiniteSetsExt

CONSTANTS
  Session,    \* the sessions being received
  Name,       \* destinations, as safe_join resolves them
  PartOf,     \* those that are called like another one's .part, and that one's name
  Wanted,     \* the destination of each session's file
  Kept,       \* destinations the user's own files already have
  Units,      \* units of content of a file, one Data frame each
  Copies,     \* the last " (n)" unique_path tries (9,999)
  None        \* no inode

ASSUME InboxAssumption ==
  /\ Wanted \in [Session -> Name]
  /\ Kept \subseteq Name
  /\ DOMAIN PartOf \subseteq Name /\ PartOf \in [DOMAIN PartOf -> Name \ DOMAIN PartOf]
  /\ \A m, n \in DOMAIN PartOf : PartOf[m] = PartOf[n] => m = n
  /\ Units \in Nat /\ Copies \in Nat
  /\ Session \cap Name = {} /\ None \notin Session \cup Name

VARIABLES
  dir,        \* what inode each path of the directory leads to
  content,    \* of each inode: whose unit is at each position, None for a hole
  pc,         \* where each session's task is with its file
  final,      \* ActiveReceive.final_path
  fd,         \* the inode ActiveReceive.writer has open
  got,        \* units received and hashed
  put         \* how many of them its BufWriter has passed on to the file

vars == <<dir, content, pc, final, fd, got, put>>

(* An inode is named after who created it: a session, or the user.         *)
Inode == Session \cup Name

(* A path is a name with a copy number and, appended, some .part.  What is *)
(* called nota.part of itself is that of nota, and so are their copies     *)
(* "nota (1).part" and "nota (1)"; where the name has an extension, only   *)
(* the names without a number meet.                                        *)
Path == [name : Name, copy : 0 .. Copies, part : 0 .. 2]

Stem(name) == IF name \in DOMAIN PartOf THEN PartOf[name] ELSE name

At(name, copy) ==
  [name |-> Stem(name), copy |-> copy, part |-> IF name \in DOMAIN PartOf THEN 1 ELSE 0]

(* Variant for the runs to refute, not the code: one temporary name for    *)
(* all files.                                                              *)
OneTemporary(p) == [name |-> CHOOSE n \in Name : TRUE, copy |-> 0, part |-> 2]

Partial(p) == [p EXCEPT !.part = @ + 1]

Phase == {"start", "create", "data", "check", "rename", "done", "corrupt", "stopped", "failed"}
Ended == {"done", "corrupt", "stopped", "failed"}

TypeOK ==
  /\ dir \in [Path -> Inode \cup {None}]
  /\ content \in [Inode -> Seq(Inode \cup {None})]
  /\ pc \in [Session -> Phase]
  /\ final \in [Session -> Path]
  /\ fd \in [Session -> Inode \cup {None}]
  /\ got \in [Session -> 0 .. Units]
  /\ put \in [Session -> 0 .. Units]
  /\ \A s \in Session : put[s] <= got[s]

Init ==
  /\ dir = [p \in Path |->
       IF p \in {At(n, 0) : n \in Kept} THEN CHOOSE n \in Kept : At(n, 0) = p ELSE None]
  /\ content = [i \in Inode |-> IF i \in Kept THEN <<i>> ELSE <<>>]
  /\ pc = [s \in Session |-> "start"]
  /\ final = [s \in Session |-> At(Wanted[s], 0)]
  /\ fd = [s \in Session |-> None]
  /\ got = [s \in Session |-> 0]
  /\ put = [s \in Session |-> 0]

Exists(p) == dir[p] # None

Goes(s, from, to) == pc[s] = from /\ pc' = [pc EXCEPT ![s] = to]

---------------------------------------------------------------------------
(* Variant for the runs to refute, not the code: the name as announced.    *)
AnnouncedPath(name) == At(name, 0)

(* unique_path: the name itself or its first free copy, and the name       *)
(* itself again when every copy is taken.                                  *)
UniquePath(name) ==
  LET free == {k \in 0 .. Copies : ~Exists(At(name, k))}
  IN  At(name, IF free = {} THEN 0 ELSE Min(free))

(* StartFile: the name is picked ...                                       *)
PickName(s) ==
  /\ Goes(s, "start", "create")
  /\ final' = [final EXCEPT ![s] = UniquePath(Wanted[s])]
  /\ UNCHANGED <<dir, content, fd, got, put>>

(* ... and after an await File::create opens its .part, truncating what is *)
(* already there.                                                          *)
CreatePartial(s) ==
  /\ Goes(s, "create", "data")
  /\ LET p == Partial(final[s])
         i == IF Exists(p) THEN dir[p] ELSE s
     IN  /\ dir' = [dir EXCEPT ![p] = i]
         /\ fd' = [fd EXCEPT ![s] = i]
         /\ content' = [content EXCEPT ![i] = <<>>]
  /\ UNCHANGED <<final, got, put>>

(* The writer passes its units up to n on to the file, at its own offset.  *)
Written(s, n) ==
  LET old == content[fd[s]]
      reach == IF n = put[s] THEN Len(old) ELSE Max({n, Len(old)})
  IN  [k \in 1 .. reach |->
         CASE k \in put[s] + 1 .. n -> s
           [] k \in DOMAIN old \ (put[s] + 1 .. n) -> old[k]
           [] OTHER -> None]

PassOn(s, n) ==
  /\ content' = [content EXCEPT ![fd[s]] = Written(s, n)]
  /\ put' = [put EXCEPT ![s] = n]

(* Data: hashed and given to the BufWriter, which passes on what it likes. *)
StoreData(s) ==
  /\ pc[s] = "data" /\ got[s] < Units
  /\ got' = [got EXCEPT ![s] = @ + 1]
  /\ \E n \in put[s] .. got'[s] : PassOn(s, n)
  /\ UNCHANGED <<dir, pc, final, fd>>

(* Variant for the runs to refute, not the code: the length announced is   *)
(* taken for what has come.                                                *)
FlushUnread(s) ==
  /\ Goes(s, "data", "check")
  /\ PassOn(s, Units)
  /\ UNCHANGED <<dir, final, fd, got>>

(* FileComplete: flush and shutdown, then the checksum of what was hashed. *)
FlushFile(s) ==
  /\ Goes(s, "data", "check") /\ got[s] = Units
  /\ PassOn(s, Units)
  /\ UNCHANGED <<dir, final, fd, got>>

(* Variant for the runs to refute, not the code: the file stays.           *)
KeepsPartial(s) == UNCHANGED dir

(* remove_file takes whatever is under the path by then.                   *)
RemovePartial(s) == dir' = [dir EXCEPT ![Partial(final[s])] = None]

ChecksumMatches(s) ==
  /\ Goes(s, "check", "rename")
  /\ UNCHANGED <<dir, content, final, fd, got, put>>

ChecksumDiffers(s) ==
  /\ Goes(s, "check", "corrupt")
  /\ RemovePartial(s)
  /\ UNCHANGED <<content, final, fd, got, put>>

(* Variant for the runs to refute, not the code: a rename that fails goes  *)
(* unnoticed.                                                              *)
RenameAnyway(s) ==
  /\ Goes(s, "rename", "done")
  /\ LET p == Partial(final[s])
     IN  dir' = IF Exists(p) THEN [dir EXCEPT ![final[s]] = dir[p], ![p] = None] ELSE dir
  /\ UNCHANGED <<content, final, fd, got, put>>

(* rename replaces what has got there meanwhile, and fails if the .part is *)
(* gone; then the ? leaves with nothing in active to clean up.             *)
Rename(s) ==
  /\ LET p == Partial(final[s])
     IN  IF Exists(p)
           THEN /\ Goes(s, "rename", "done")
                /\ dir' = [dir EXCEPT ![final[s]] = dir[p], ![p] = None]
           ELSE Goes(s, "rename", "failed") /\ UNCHANGED dir
  /\ UNCHANGED <<content, final, fd, got, put>>

(* The session ends with the file still open: a cancel from either side,   *)
(* the end of the stream, an error.                                        *)
Interrupted(s) ==
  /\ Goes(s, "data", "stopped")
  /\ RemovePartial(s)
  /\ UNCHANGED <<content, final, fd, got, put>>

(* The session ends before its file is open.                               *)
NeverOpened(s) ==
  /\ \E from \in {"start", "create"} : Goes(s, from, "failed")
  /\ UNCHANGED <<dir, content, final, fd, got, put>>

AllEnded == (\A s \in Session : pc[s] \in Ended) /\ UNCHANGED vars

Next ==
  \/ \E s \in Session :
       \/ PickName(s) \/ CreatePartial(s) \/ StoreData(s) \/ FlushFile(s)
       \/ ChecksumMatches(s) \/ ChecksumDiffers(s) \/ Rename(s)
       \/ Interrupted(s) \/ NeverOpened(s)
  \/ AllEnded

Spec == Init /\ [][Next]_vars

---------------------------------------------------------------------------
(* Whether a name is safe from the .part of the sessions' files:           *)
(* File::create truncates what is there, whoever's it is.                  *)
Spared(name) == \A s \in Session : name \in DOMAIN PartOf => PartOf[name] # Wanted[s]

(* However sessions that want the same name meet, the files the user has   *)
(* had before keep their names and their content, as long as a copy number *)
(* is free: only a name that was free when it was picked is ever renamed   *)
(* onto (transfer.rs:77, DEVELOPMENT.md:48).                               *)
IsKept(name) == dir[At(name, 0)] = name /\ content[name] = <<name>>
UsersFilesKept == \A n \in Kept : Spared(n) => IsKept(n)

(* When the sessions are over there is no .part, even if two of them wrote *)
(* to the same one, but what is so called of itself (transfer.rs:458).     *)
Named(p) ==
  \/ p \in {At(n, 0) : n \in Kept}
  \/ \E s \in Session : pc[s] = "done" /\ final[s] = p
NoPartLeft ==
  (\A s \in Session : pc[s] \in Ended) =>
    \A p \in Path : p.part > 0 /\ Exists(p) => Named(p)

(* A session that has reported its file as done finds a file under the     *)
(* name it reported, also after others have failed (transfer.rs:438-441).  *)
DoneMeansThere ==
  \A s \in Session : pc[s] = "done" /\ Spared(Wanted[s]) => Exists(final[s])

(* What a session has checked and reported as done is what is on disk.     *)
Intact(s) == pc[s] = "done" => content[dir[final[s]]] = [k \in 1 .. Units |-> s]

(* So it is for a session whose name no other session wants, not even with *)
(* a .part to it, whatever happens among the others: their collisions      *)
(* never reach its file.                                                   *)
Alone(s) == \A t \in Session \ {s} : Stem(Wanted[t]) # Stem(Wanted[s])
AloneIsIntact == \A s \in Session : Alone(s) => Intact(s)

(* README.md:14, "un archivo corrupto se descarta": the file that landed   *)
(* is the one whose checksum matched.  Two sessions with the same name     *)
(* write to one .part.                                                     *)
CheckedIsOnDisk == \A s \in Session : Intact(s)
=============================================================================

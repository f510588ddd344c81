------------------------------- MODULE Files --------------------------------
(***************************************************************************)
(* The two plugins that touch the local disk. filesystem serves fs_list,   *)
(* fs_read and fs_write in concurrent handlers, within the roots its       *)
(* sandbox allows. gated-write serves one request after the other: it      *)
(* keeps a request_write until an allowed caller confirms it, and then     *)
(* writes below its data directory. Both change the same tree.             *)
(***************************************************************************)
EXTENDS Integers, Sequences, SequencesExt, FiniteSets

CONSTANTS
  FileNames,          \* names of files and directories, and ".."
  Disks,          \* trees the disk may hold at the start
  RawRoots,       \* FILES_PLUGIN_ALLOWED_ROOTS: the entries, absolute or not
  ListCap,        \* FILES_PLUGIN_MAX_LIST_ENTRIES
  ReadCap,        \* FILES_PLUGIN_MAX_READ_BYTES
  HardCap,        \* MAX_READ_BYTES_HARD_CAP
  FileRequests,   \* fs_* requests
  GatedRequests,  \* parameters of request_write
  DataDir,        \* GATED_WRITE_DATA_DIR
  Confirmers,     \* callers that confirm, with whether they are allowed to
  FileHandlers,   \* the handlers of filesystem that may run at once
  MaxFileReplies, \* bound: requests
  MaxPending,     \* bound: request_writes kept at a time
  MaxFileFaults   \* bound: writes that fail halfway

VARIABLES
  disk,         \* path -> node: a directory, a file with its bytes, a link
  roots,        \* Sandbox.roots
  fileWork,     \* handler -> the request it serves; Gated stands for gated-write
  gatePending,  \* the parameters of the request_writes waiting for a confirmation
  firstDisk,    \* history: the disk at the start
  fileReplies,  \* history: each request with its reply
  fileFaults    \* writes that have failed halfway

filesVars == <<disk, roots, fileWork, gatePending, firstDisk, fileReplies, fileFaults>>

Gated == "gated"
NoLimit == -1
\* The elements from one place to another, as far as there are any.
Slice(s, from, to) == SubSeq(s, from, IF to > Len(s) THEN Len(s) ELSE to)
NoWork == [at |-> "idle", path |-> <<>>]
Dir == [kind |-> "dir"]
FileOf(bytes) == [kind |-> "file", bytes |-> bytes]
IsFile(path) == path \in DOMAIN disk /\ disk[path].kind = "file"
IsDir(path) == path \in DOMAIN disk /\ disk[path].kind = "dir"
IsLink(path) == path \in DOMAIN disk /\ disk[path].kind = "link"

-----------------------------------------------------------------------------
(* Paths are sequences of names from the root of the disk. *)
Nowhere == <<"(nowhere)">>

\* One component, in a directory: links are followed.
StepTo(d, at, name) ==
  LET next == Append(at, name) IN
  IF at \notin DOMAIN d \/ d[at].kind # "dir" THEN Nowhere
  ELSE IF name = ".." THEN IF at = <<>> THEN at ELSE Front(at)
  ELSE IF next \notin DOMAIN d THEN Nowhere
  ELSE IF d[next].kind # "link" THEN next
  ELSE IF d[next].to \in DOMAIN d THEN d[next].to ELSE Nowhere

\* canonicalize: every component in turn.
WalkIn(d, path) ==
  LET at[k \in 0..Len(path)] == IF k = 0 THEN <<>> ELSE StepTo(d, at[k - 1], path[k])
  IN  at[Len(path)]
Walk(path) == WalkIn(disk, path)
Exists(path) == Walk(path) # Nowhere

\* The deepest ancestor that exists, and what is left below it.
DeepestAt(path) ==
  CHOOSE k \in 0..Len(path) :
    Exists(SubSeq(path, 1, k)) /\ \A j \in k + 1..Len(path) : ~Exists(SubSeq(path, 1, j))
Below(path) == SubSeq(path, DeepestAt(path) + 1, Len(path))
Joined(path) == Walk(SubSeq(path, 1, DeepestAt(path))) \o Below(path)

\* The entry a path names: only the last component is not followed.
EntryAt(path) == LET parent == Walk(Front(path)) IN
                 IF IsDir(parent) THEN Append(parent, Last(path)) ELSE Nowhere

\* from_raw_roots: entries that are relative or do not exist are left out.
CanonicalRoots(d) ==
  {WalkIn(d, e.path) : e \in {f \in RawRoots : f.absolute /\ WalkIn(d, f.path) # Nowhere}}

Under(dirs, path) == \E dir \in dirs : IsPrefix(dir, path)
Inside(path) == Under(roots, path)

\* resolve: refused, or the path every later call of the handler uses.
\* Mutant: the text of the path is compared with the roots, links and all.
Resolves_ByText(r) ==
  /\ roots # {} /\ r.absolute
  /\ ".." \notin ToSet(Below(r.path))
  /\ Inside(r.path)
Resolves(r) ==
  /\ roots # {} /\ r.absolute
  /\ ".." \notin ToSet(Below(r.path))
  /\ Inside(Joined(r.path))

\* create_dir_all: the directories that are missing, unless something that is
\* not a directory is in the way.
CanMakeDirs(path) ==
  LET rest == Below(path) base == Walk(SubSeq(path, 1, DeepestAt(path))) IN
  /\ IsDir(base)
  /\ rest # <<>> => Append(base, Head(rest)) \notin DOMAIN disk
DirsMade(path) ==
  LET base == Len(Joined(path)) - Len(Below(path))
      made == {SubSeq(Joined(path), 1, k) : k \in base + 1..Len(Joined(path))}
  IN [p \in DOMAIN disk \cup made |-> IF p \in DOMAIN disk THEN disk[p] ELSE Dir]

-----------------------------------------------------------------------------
(* A disk as it is found: every node is in a directory, links lead to paths *)
(* without links. gated-write has made its data directory at its start. A  *)
(* link that leads nowhere yet and is inside a root leads inside one: that *)
(* somebody makes what it leads to between a check and the use of its      *)
(* result is not guarded against.                                          *)
Byte == 0..255
LinkTo(path) == [kind |-> "link", to |-> path]

IsTree(d) ==
  /\ IsFiniteSet(DOMAIN d) /\ DOMAIN d \subseteq Seq(FileNames \ {".."})
  /\ <<>> \in DOMAIN d /\ d[<<>>] = Dir
  /\ \A p \in DOMAIN d :
       /\ \/ d[p] = Dir
          \/ d[p].kind = "file" /\ d[p] = FileOf(d[p].bytes) /\ d[p].bytes \in Seq(Byte)
          \/ d[p].kind = "link" /\ d[p] = LinkTo(d[p].to) /\ d[p].to \in Seq(FileNames \ {".."})
       /\ p # <<>> => Front(p) \in DOMAIN d /\ d[Front(p)] = Dir

Links(d) == {p \in DOMAIN d : d[p].kind = "link"}
LinksLead(d) ==
  \A p \in Links(d) : \A k \in 0..Len(d[p].to) : SubSeq(d[p].to, 1, k) \notin Links(d)

LinksStayInside(d) ==
  \A p \in Links(d) :
    d[p].to \notin DOMAIN d /\ Under(CanonicalRoots(d), p) => Under(CanonicalRoots(d), d[p].to)

ASSUME FilesAssumption ==
  /\ "(nowhere)" \notin FileNames /\ Gated \notin FileHandlers
  /\ ListCap \in Nat /\ ReadCap \in Nat /\ HardCap \in Nat
  /\ \A e \in RawRoots : e.path \in Seq(FileNames)
  /\ DataDir \in Seq(FileNames)
  /\ \A d \in Disks : /\ IsTree(d) /\ LinksLead(d) /\ LinksStayInside(d)
                      /\ WalkIn(d, DataDir) \in DOMAIN d /\ d[WalkIn(d, DataDir)] = Dir
  /\ \A r \in FileRequests :
       /\ r.path \in Seq(FileNames) /\ r.action \in {"fs_list", "fs_read", "fs_write"}
       /\ r.action = "fs_read" => r.offset \in Nat /\ r.max \in Nat \cup {NoLimit}
       /\ r.action = "fs_write" => /\ DOMAIN r.content \subseteq {"text", "base64"}
                                   /\ \A k \in DOMAIN r.content : r.content[k] \in Seq(Byte)
  /\ \A p \in GatedRequests : p.path \in Seq(FileNames) /\ p.bytes \in Seq(Byte)

-----------------------------------------------------------------------------
FilesInit ==
  /\ disk \in Disks /\ firstDisk = disk
  /\ roots = CanonicalRoots(disk)
  /\ fileWork = [h \in FileHandlers \cup {Gated} |-> NoWork]
  /\ gatePending = {} /\ fileReplies = <<>> /\ fileFaults = 0

FileRefused == [ok |-> FALSE]
FileAt(h, at) == fileWork[h].at = at
FileGoto(h, at) == fileWork' = [fileWork EXCEPT ![h].at = at]
Recorded(w, reply) == fileReplies' = Append(fileReplies, [work |-> w, reply |-> reply])
FileReply(h, reply) == Recorded(fileWork[h], reply) /\ fileWork' = [fileWork EXCEPT ![h] = NoWork]
Busy == {h \in DOMAIN fileWork : ~FileAt(h, "idle")}
MayRequest(h) == FileAt(h, "idle") /\ Len(fileReplies) + Cardinality(Busy) < MaxFileReplies

\* A handler at work on a path: what the file holds as it begins, and whether
\* nobody else has written to it since.
BytesAt(path) == IF IsFile(path) THEN disk[path].bytes ELSE <<>>
Working(at, r, path) ==
  [at |-> at, r |-> r, path |-> path, was |-> BytesAt(path), alone |-> TRUE, size |-> 0, data |-> <<>>]

\* A file is written: the other handlers at work on it are not alone.
WithFile(path, bytes) ==
  disk' = [p \in DOMAIN disk \cup {path} |-> IF p = path THEN FileOf(bytes) ELSE disk[p]]
Disturbed(h, path) == {g \in Busy \ {h} : fileWork[g].path = path}
Moved(h, path, work) ==
  fileWork' = [g \in DOMAIN fileWork |->
    IF g = h THEN work
    ELSE IF g \in Disturbed(h, path) THEN [fileWork[g] EXCEPT !.alone = FALSE] ELSE fileWork[g]]

\* parse_request: exactly one of text and content_base64 for a write.
ValidFileRequest(r) ==
  /\ r.path # <<>>
  /\ r.action = "fs_write" => Cardinality(DOMAIN r.content) = 1

\* A handler takes a request and resolves its path.
FileTake(h, r) ==
  /\ h # Gated /\ MayRequest(h)
  /\ IF ValidFileRequest(r) /\ Resolves(r)
       THEN /\ fileWork' = [fileWork EXCEPT ![h] = Working(r.action, r, Joined(r.path))]
            /\ UNCHANGED fileReplies
       ELSE Recorded(Working("refused", r, <<>>), FileRefused) /\ UNCHANGED fileWork
  /\ UNCHANGED <<disk, roots, gatePending, firstDisk, fileFaults>>

-----------------------------------------------------------------------------
(* fs_list: hidden names left out, directories first, cut at the cap. *)
Children(path) == {p \in DOMAIN disk : p # <<>> /\ Front(p) = path}
\* Directories first; the order of the names is left open.
Listing(shown) ==
  SetToSeq({p \in shown : IsDir(p)}) \o SetToSeq({p \in shown : ~IsDir(p)})

FileList(h) ==
  /\ FileAt(h, "fs_list")
  /\ LET at == Walk(fileWork[h].path)
         shown == {p \in Children(at) : fileWork[h].r.hidden \/ Last(p) # ".hidden"}
         inOrder == Listing(shown)
     IN FileReply(h, IF ~IsDir(at) THEN FileRefused
                     ELSE [ok |-> TRUE, entries |-> Slice(inOrder, 1, ListCap),
                           truncated |-> Len(inOrder) > ListCap, shown |-> shown])
  /\ UNCHANGED <<disk, roots, gatePending, firstDisk, fileFaults>>

-----------------------------------------------------------------------------
(* fs_read: the size, the open, then read after read. *)
Clamped(n) == IF n > HardCap THEN HardCap ELSE n
Window(r) == IF r.max = NoLimit THEN Clamped(ReadCap) ELSE Clamped(r.max)

FileStat(h) ==
  /\ FileAt(h, "fs_read")
  /\ LET path == Walk(fileWork[h].path) IN
     IF IsFile(path)
       THEN /\ fileWork' = [fileWork EXCEPT ![h] =
                 [Working("reading", @.r, path) EXCEPT !.size = Len(BytesAt(path))]]
            /\ UNCHANGED fileReplies
       ELSE FileReply(h, FileRefused)
  /\ UNCHANGED <<disk, roots, gatePending, firstDisk, fileFaults>>

\* More bytes follow the data, by the size seen before the file was opened.
\* Mutant: the offset is left out.
Truncated_NoOffset(w) == Len(w.data) < w.size
Truncated(w) == w.r.offset + Len(w.data) < w.size

Utf8(bytes) == \A b \in ToSet(bytes) : b < 128
Encoding(w) == IF w.r.offset = 0 /\ ~Truncated(w) /\ Utf8(w.data) THEN "utf8" ELSE "base64"

\* Until the window is full or a read returns nothing: bytes written between
\* two reads are read as well.
FileRead(h) ==
  /\ FileAt(h, "reading")
  /\ LET w == fileWork[h]
         more == Slice(BytesAt(w.path), w.r.offset + Len(w.data) + 1, w.r.offset + Window(w.r))
     IN IF more # <<>>
          THEN fileWork' = [fileWork EXCEPT ![h].data = @ \o more] /\ UNCHANGED fileReplies
          ELSE FileReply(h, [ok |-> TRUE, data |-> w.data, encoding |-> Encoding(w),
                             truncated |-> Truncated(w)])
  /\ UNCHANGED <<disk, roots, gatePending, firstDisk, fileFaults>>

-----------------------------------------------------------------------------
(* fs_write: the checks and the parents, the file emptied, the bytes. *)
Content(r) == IF "text" \in DOMAIN r.content THEN r.content.text ELSE r.content.base64

\* For lstat neither a directory nor a link; never a root itself.
MayWriteTo(path) == path \notin roots /\ ~IsDir(EntryAt(path)) /\ ~IsLink(EntryAt(path))

FileCheck(h) ==
  /\ FileAt(h, "fs_write")
  /\ LET w == fileWork[h] parent == Front(w.path) IN
     IF MayWriteTo(w.path) /\ (IF w.r.parents THEN CanMakeDirs(parent) ELSE IsDir(Walk(parent)))
       THEN /\ disk' = DirsMade(parent)
            /\ fileWork' = [fileWork EXCEPT ![h] =
                 [Working("empty", w.r, Joined(w.path)) EXCEPT !.data = Content(w.r)]]
            /\ UNCHANGED fileReplies
       ELSE FileReply(h, FileRefused) /\ UNCHANGED disk
  /\ UNCHANGED <<roots, gatePending, firstDisk, fileFaults>>

\* Opened and emptied. It may have become a directory since the check.
FileEmpty(h) ==
  /\ FileAt(h, "empty")
  /\ LET w == fileWork[h] IN
     IF IsDir(w.path) THEN FileReply(h, FileRefused) /\ UNCHANGED disk
     ELSE WithFile(w.path, <<>>) /\ Moved(h, w.path, [w EXCEPT !.at = "put"]) /\ UNCHANGED fileReplies
  /\ UNCHANGED <<roots, gatePending, firstDisk, fileFaults>>

\* The bytes go to the start of the file, over what another writer has put.
Overlaid(old, new) == new \o SubSeq(old, Len(new) + 1, Len(old))

FilePut(h) ==
  /\ FileAt(h, "put")
  /\ LET w == fileWork[h] bytes == Overlaid(BytesAt(w.path), w.data) IN
     /\ WithFile(w.path, bytes) /\ Moved(h, w.path, NoWork)
     /\ Recorded(w, [ok |-> TRUE, written |-> Len(w.data), holds |-> bytes])
  /\ UNCHANGED <<roots, gatePending, firstDisk, fileFaults>>

\* The disk is full, say: the file stays empty and the caller gets an error.
FilePutFails(h) ==
  /\ FileAt(h, "put") /\ fileFaults < MaxFileFaults
  /\ fileFaults' = fileFaults + 1 /\ FileReply(h, FileRefused)
  /\ UNCHANGED <<disk, roots, gatePending, firstDisk>>

-----------------------------------------------------------------------------
(* gated-write *)
\* route: any caller's request_write is kept, nothing is written.
GatedRequest(p) ==
  /\ MayRequest(Gated) /\ Cardinality(gatePending) < MaxPending
  /\ gatePending' = gatePending \cup {p}
  /\ UNCHANGED <<disk, roots, fileWork, firstDisk, fileReplies, fileFaults>>

\* parse_write_params and safe_target, only now that it is confirmed.
ValidGated(p) == p.path # <<>> /\ p.mode \in {"append", "overwrite"}
SafeTarget(p) == p.relative /\ ".." \notin ToSet(p.path)

\* An allowed caller confirms: the write is executed as it was requested.
GatedConfirm(p, caller) ==
  /\ MayRequest(Gated) /\ p \in gatePending
  /\ IF ~caller.allowed
       THEN Recorded(Working("refused", p, <<>>), FileRefused) /\ UNCHANGED <<fileWork, gatePending>>
       ELSE /\ gatePending' = gatePending \ {p}
            /\ IF ValidGated(p) /\ SafeTarget(p)
                 THEN /\ fileWork' = [fileWork EXCEPT ![Gated] = Working("parents", p, DataDir \o p.path)]
                      /\ UNCHANGED fileReplies
                 ELSE Recorded(Working("refused", p, <<>>), FileRefused) /\ UNCHANGED fileWork
  /\ UNCHANGED <<disk, roots, firstDisk, fileFaults>>

\* The parents are made before it is known where links lead them.
GatedParents ==
  /\ FileAt(Gated, "parents")
  /\ LET parent == Front(fileWork[Gated].path) IN
     IF CanMakeDirs(parent)
       THEN disk' = DirsMade(parent) /\ FileGoto(Gated, "escape") /\ UNCHANGED fileReplies
       ELSE FileReply(Gated, FileRefused) /\ UNCHANGED disk
  /\ UNCHANGED <<roots, gatePending, firstDisk, fileFaults>>

\* The canonical parent is below the data directory, the target is no link.
\* Mutant: the parent is compared as it is written.
StaysInData_ByText(path) == IsPrefix(DataDir, Front(path)) /\ ~IsLink(EntryAt(path))
StaysInData(path) == IsPrefix(Walk(DataDir), Walk(Front(path))) /\ ~IsLink(EntryAt(path))

GatedCheck ==
  /\ FileAt(Gated, "escape")
  /\ LET w == fileWork[Gated] IN
     IF StaysInData(w.path)
       THEN /\ fileWork' = [fileWork EXCEPT ![Gated] =
                 [Working(IF w.r.mode = "append" THEN "append" ELSE "empty", w.r, EntryAt(w.path))
                    EXCEPT !.data = w.r.bytes]]
            /\ UNCHANGED fileReplies
       ELSE FileReply(Gated, FileRefused)
  /\ UNCHANGED <<disk, roots, gatePending, firstDisk, fileFaults>>

GatedAppend ==
  /\ FileAt(Gated, "append")
  /\ LET w == fileWork[Gated] bytes == BytesAt(w.path) \o w.data IN
     IF IsDir(w.path) THEN FileReply(Gated, FileRefused) /\ UNCHANGED disk
     ELSE /\ WithFile(w.path, bytes) /\ Moved(Gated, w.path, NoWork)
          /\ Recorded(w, [ok |-> TRUE, written |-> Len(w.data), holds |-> bytes])
  /\ UNCHANGED <<roots, gatePending, firstDisk, fileFaults>>

FilesNext ==
  \/ \E h \in FileHandlers :
       \/ \E r \in FileRequests : FileTake(h, r)
       \/ FileList(h) \/ FileStat(h) \/ FileRead(h) \/ FileCheck(h)
  \/ \E h \in FileHandlers \cup {Gated} : FileEmpty(h) \/ FilePut(h) \/ FilePutFails(h)
  \/ \E p \in GatedRequests :
       GatedRequest(p) \/ \E caller \in Confirmers : GatedConfirm(p, caller)
  \/ GatedParents \/ GatedCheck \/ GatedAppend

FilesSpec == FilesInit /\ [][FilesNext]_filesVars

-----------------------------------------------------------------------------
(* No file outside the roots and the data directory is made or changed,    *)
(* whatever links the paths go through and whatever directories the        *)
(* handlers make meanwhile. And a request whose file nobody else writes    *)
(* while it runs is answered truly: a write's file holds its bytes, a read *)
(* returns the window asked for of what the file held, with `truncated` if *)
(* and only if bytes follow it and as text only if it is the whole, and    *)
(* never of a file outside the roots; a list that is not truncated leaves  *)
(* nothing out.                                                            *)
Elsewhere(p) == ~Inside(p) /\ ~IsPrefix(Walk(DataDir), p)

ReadIsTrue(w, reply) ==
  /\ reply.data = Slice(w.was, w.r.offset + 1, w.r.offset + Window(w.r))
  /\ reply.truncated = (w.r.offset + Len(reply.data) < Len(w.was))
  /\ reply.encoding = "utf8" => reply.data = w.was
WriteIsTrue(w, reply) ==
  reply.holds = IF w.at = "append" THEN w.was \o w.data ELSE w.data

FilesTellTheTruth ==
  /\ \A p \in DOMAIN disk \cup DOMAIN firstDisk :
       Elsewhere(p) => IF p \in DOMAIN firstDisk THEN p \in DOMAIN disk /\ disk[p] = firstDisk[p]
                       ELSE disk[p] = Dir
  /\ \A i \in DOMAIN fileReplies : LET w == fileReplies[i].work reply == fileReplies[i].reply IN
       reply.ok =>
         /\ "data" \in DOMAIN reply => /\ Inside(Walk(w.r.path))
                                       /\ w.alone => ReadIsTrue(w, reply)
         /\ "holds" \in DOMAIN reply => (w.alone => WriteIsTrue(w, reply))
         /\ "shown" \in DOMAIN reply => reply.truncated = (ToSet(reply.entries) # reply.shown)
=============================================================================

---------------------------- MODULE FileManager -----------------------------
(***************************************************************************)
(* The file manager of web.cpp: it creates, renames, deletes and uploads.  *)
(* The server handles one request at a time; an upload comes in pieces     *)
(* between which nothing else runs, but the client may leave; the entries  *)
(* of a directory are deleted one by one, and the device may restart.      *)
(***************************************************************************)
EXTENDS Naturals, FiniteSets, SequencesExt

CONSTANTS
    Names,      \* what a path is made of
    Depth,      \* bound: the length of a path
    Bad         \* the reply that names no path

ASSUME DepthAssumption == Depth \in Nat \ {0}

Root == <<>>
Paths == UNION {[1 .. n -> Names] : n \in 1 .. Depth}
Contents == {"old", "empty", "part", "whole"}

VARIABLES
    fs,         \* what is at each path: "absent", "dir" or a content
    uploadFile, \* as in the code: what is open, and what was written to it
    uploading,  \* is an upload under way?
    reply,      \* the path of the last reply, or Bad
    target,     \* the path of the DELETE that is at work, or Root
    at,         \* the path of the call of deleteRecursive() that runs, or Root
    aborted,    \* history: did the client of the last upload leave?
    before      \* history: what there was when the DELETE came

delvars == <<target, at, before>>
mvars == <<fs, uploadFile, uploading, reply, aborted, delvars>>

Nothing == [p \in Paths |-> "absent"]

None == [kind |-> "none", path |-> Root, content |-> "empty"]
Handles == [kind : {"none", "file", "dir", "orphan"}, path : Paths \cup {Root},
            content : {"empty", "part", "cut"}]

-----------------------------------------------------------------------------
(* LittleFS *)

Kind(f, p) == IF p = Root THEN "dir" ELSE f[p]
Exists(f, p) == Kind(f, p) # "absent"
Children(f, p) == {c \in Paths : Len(c) = Len(p) + 1 /\ Front(c) = p /\ f[c] # "absent"}
Above(p) == {SubSeq(p, 1, n) : n \in 1 .. Len(p) - 1}
Below(p) == {q \in Paths : IsPrefix(p, q)}

\* A file that is created brings the directories above it.
CanOpen(p) == \A a \in Above(p) : fs[a] \in {"absent", "dir"}
Made(p) ==
    [q \in Paths |-> IF q \in Above(p) THEN "dir"
                     ELSE IF q = p /\ fs[p] = "absent" THEN "empty" ELSE fs[q]]

\* A path that is removed takes the directories along that it leaves empty.
Emptied(f, p) == {a \in Above(p) : \A q \in Below(a) : f[q] # "absent" => IsPrefix(q, p)}
remove(f, p) ==
    IF Exists(f, p) /\ Children(f, p) = {}
      THEN [q \in Paths |-> IF q = p \/ q \in Emptied(f, p) THEN "absent" ELSE f[q]]
      ELSE f

\* Mutant: what is in a directory stays where it was.
Moved_EntryOnly(p, q) == [fs EXCEPT ![q] = fs[p], ![p] = "absent"]

\* What is below p is then below q.
Moved(p, q) ==
    [r \in Paths |->
        IF IsPrefix(q, r)
          THEN LET s == p \o SubSeq(r, Len(q) + 1, Len(r))
               IN  IF s \in Paths THEN fs[s] ELSE "absent"
        ELSE IF IsPrefix(p, r) THEN "absent" ELSE fs[r]]

\* An open file that is removed or renamed has no path any more.
Orphaned(ps) ==
    IF uploadFile.kind = "file" /\ uploadFile.path \in ps
      THEN [uploadFile EXCEPT !.kind = "orphan"] ELSE uploadFile

\* What was written is in the file when the handle is closed.
Closed(f, content) ==
    IF uploadFile.kind = "file" THEN [f EXCEPT ![uploadFile.path] = content] ELSE f

-----------------------------------------------------------------------------
(* PUT /edit and DELETE /edit *)

\* Mutant: the parent, whether or not it is still there.
lastExistingParent_Plain(f, p) == Front(p)

lastExistingParent(f, p) ==
    LET there == {a \in Above(p) \cup {Root, p} : Exists(f, a)}
    IN  CHOOSE a \in there : \A b \in there : Len(b) <= Len(a)

Quiet == ~uploading /\ target = Root /\ UNCHANGED <<uploading, aborted>>

CreateFolder(p) ==
    /\ Quiet /\ UNCHANGED <<uploadFile, delvars>>
    /\ IF ~Exists(fs, p) /\ Kind(fs, Front(p)) = "dir"
         THEN fs' = [fs EXCEPT ![p] = "dir"] /\ reply' = Front(p)
         ELSE reply' = Bad /\ UNCHANGED fs

CreateFile(p) ==
    /\ Quiet /\ UNCHANGED <<uploadFile, delvars>>
    /\ IF ~Exists(fs, p) /\ CanOpen(p)
         THEN fs' = Made(p) /\ reply' = Front(p)
         ELSE reply' = Bad /\ UNCHANGED fs

\* The reply names the nearest directory that is left above the source.  Not
\* asked for: to move a directory into itself.
Rename(p, q) ==
    /\ Quiet /\ UNCHANGED delvars /\ ~IsPrefix(p, q)
    /\ \A r \in Below(p) : Exists(fs, r) => Len(q) + Len(r) - Len(p) <= Depth
    /\ IF Exists(fs, p) /\ ~Exists(fs, q) /\ Kind(fs, Front(q)) = "dir"
         THEN /\ fs' = Moved(p, q) /\ uploadFile' = Orphaned(Below(p))
              /\ reply' = lastExistingParent(fs', p)
         ELSE reply' = Bad /\ UNCHANGED <<fs, uploadFile>>

Delete(p) ==
    /\ Quiet /\ reply' = Bad /\ UNCHANGED <<fs, uploadFile>>
    /\ IF Exists(fs, p)
         THEN target' = p /\ at' = p /\ before' = fs
         ELSE UNCHANGED delvars

\* The next entry of the directory is deleted before it.
DeleteContents ==
    /\ target # Root /\ Kind(fs, at) = "dir"
    /\ at' \in Children(fs, at)
    /\ UNCHANGED <<fs, uploadFile, uploading, reply, aborted, target, before>>

\* Mutant: a directory is taken for a file.
DeleteEntry_Plain ==
    /\ target # Root
    /\ fs' = remove(fs, at) /\ uploadFile' = Orphaned({at})
    /\ IF at = target
         THEN /\ reply' = lastExistingParent(fs', target)
              /\ target' = Root /\ at' = Root /\ before' = Nothing
         ELSE at' = Front(at) /\ UNCHANGED <<reply, target, before>>
    /\ UNCHANGED <<uploading, aborted>>

\* A file, or a directory that has no entry left: it may have gone with its last
\* one, and the call has nothing to do.
DeleteEntry ==
    /\ target # Root /\ Children(fs, at) = {}
    /\ fs' = remove(fs, at) /\ uploadFile' = Orphaned({at})
    /\ IF at = target
         THEN /\ reply' = lastExistingParent(fs', target)
              /\ target' = Root /\ at' = Root /\ before' = Nothing
         ELSE at' = Front(at) /\ UNCHANGED <<reply, target, before>>
    /\ UNCHANGED <<uploading, aborted>>

-----------------------------------------------------------------------------
(* POST /edit: handleFileUpload is called for the start, each piece and the end *)

Rest == IF uploadFile.content = "empty" THEN "empty" ELSE "part"

\* The new file is opened; the assignment then closes the one still open.
UploadStart(p) ==
    /\ ~uploading /\ target = Root /\ UNCHANGED delvars
    /\ uploading' = TRUE /\ aborted' = FALSE /\ reply' = Bad
    /\ IF CanOpen(p)
         THEN /\ fs' = Closed(Made(p), Rest)
              /\ uploadFile' = [kind |-> IF fs[p] = "dir" THEN "dir" ELSE "file",
                                path |-> p, content |-> "empty"]
         ELSE fs' = Closed(fs, Rest) /\ uploadFile' = None

\* A piece may be written in part only: the client gets an error, and goes on.
UploadWrite ==
    /\ uploading /\ uploadFile.kind = "file"
    /\ \E c \in {"part", "cut"} :
          uploadFile' = [uploadFile EXCEPT !.content = IF @ = "cut" THEN @ ELSE c]
    /\ UNCHANGED <<fs, uploading, reply, aborted, delvars>>

\* Mutant: the file is not closed.
UploadEnd_Open ==
    /\ uploading /\ uploading' = FALSE
    /\ fs' = Closed(fs, IF uploadFile.content = "cut" THEN "part" ELSE "whole")
    /\ UNCHANGED <<uploadFile, reply, aborted, delvars>>

UploadEnd ==
    /\ uploading /\ uploading' = FALSE
    /\ fs' = Closed(fs, IF uploadFile.content = "cut" THEN "part" ELSE "whole")
    /\ uploadFile' = None
    /\ UNCHANGED <<reply, aborted, delvars>>

\* Nothing is done when the client leaves: the file stays open.
UploadAborted ==
    /\ uploading /\ uploading' = FALSE /\ aborted' = TRUE
    /\ UNCHANGED <<fs, uploadFile, reply, delvars>>

-----------------------------------------------------------------------------
MInit ==
    /\ fs \in {f \in [Paths -> {"absent", "dir", "old"}] :
                  \A p \in Paths : f[p] # "absent" => Kind(f, Front(p)) = "dir"}
    /\ uploadFile = None /\ uploading = FALSE /\ reply = Bad /\ aborted = FALSE
    /\ target = Root /\ at = Root /\ before = Nothing

Reboot ==
    /\ uploadFile' = None /\ uploading' = FALSE /\ reply' = Bad /\ aborted' = FALSE
    /\ target' = Root /\ at' = Root /\ before' = Nothing
    /\ UNCHANGED fs

MNext ==
    \/ \E p \in Paths : CreateFolder(p) \/ CreateFile(p) \/ Delete(p) \/ UploadStart(p)
    \/ \E p, q \in Paths : Rename(p, q)
    \/ DeleteContents \/ DeleteEntry \/ UploadWrite \/ UploadEnd \/ UploadAborted \/ Reboot

MSpec == MInit /\ [][MNext]_mvars

-----------------------------------------------------------------------------
\* With it, the tree is one: what exists lies in a directory that exists.
ManagerTypeOK ==
    /\ fs \in [Paths -> {"absent", "dir"} \cup Contents]
    /\ \A p \in Paths : Exists(fs, p) => Kind(fs, Front(p)) = "dir"
    /\ uploadFile \in Handles /\ uploading \in BOOLEAN /\ aborted \in BOOLEAN
    /\ reply \in Paths \cup {Root, Bad} /\ target \in Paths \cup {Root} /\ at \in Paths \cup {Root}
    /\ before \in [Paths -> {"absent", "dir"} \cup Contents]

\* The page that gets a reply goes on to list the directory it names: after any
\* sequence of requests that is one, also when LittleFS took away the parents
\* of what was deleted.
ReplyIsDirectory ==
    reply # Bad => Kind(fs, reply) = "dir"

\* What is neither below p nor a directory above it that has nothing else in it.
Left(f, p) ==
    LET left == {q \in Paths : f[q] # "absent" /\ ~IsPrefix(p, q)}
        kept == {q \in left : q \in Above(p) => Below(q) \cap (left \ Above(p)) # {}}
    IN  [q \in Paths |-> IF q \in kept THEN f[q] ELSE "absent"]

\* Whatever the tree, a delete that comes to its end leaves exactly that; one that
\* a restart cuts short has taken entries below its path only, or all of them.
DeleteIsExact ==
    [][target # Root =>
          /\ fs' = Left(before, target)
                \/ \A q \in Paths : fs'[q] = before[q] \/ (fs'[q] = "absent" /\ IsPrefix(target, q))
          /\ target' # target /\ reply' # Bad => fs' = Left(before, target)]_mvars

\* The content of a file that stays is changed by an upload of that file only: the
\* one that ends or, if its client left, the start of the next, which closes it.
OnlyUploadsWrite ==
    [][\A p \in Paths :
          fs[p] \in Contents /\ fs'[p] \in Contents /\ fs'[p] # fs[p] =>
              uploadFile.path = p /\ (uploading \/ aborted)]_mvars
=============================================================================

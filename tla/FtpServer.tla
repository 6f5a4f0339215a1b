----------------------------- MODULE FtpServer ------------------------------
(***************************************************************************)
(* FTPServer and FTPCommon of lib/FTPS: one control connection, one data   *)
(* connection, one open file and a state machine that handleFTP() advances *)
(* in every pass of the loop.  A pass has two halves: the control          *)
(* connection, and the watch over loss, timeout and transfer.  The network *)
(* moves between any two halves.                                           *)
(***************************************************************************)
EXTENDS Integers, Sequences

CONSTANTS
    Names,      \* absolute paths: the root and what lies directly in it
    Root,
    None,       \* no parameter, no command, no path
    Commands,   \* the commands the clients of this instance send
    Polite,     \* does a client wait for the reply before the next command?
    FsFull,     \* may the file system refuse data?
    HeapFull,   \* may no memory be left for a buffer?
    MaxSize,    \* bound: the chunks of a file
    MaxKnocks   \* bound: data connections that wait to be accepted

ASSUME NamesAssumption == Root \in Names /\ None \notin Names
ASSUME BoundsAssumption == MaxSize \in Nat \ {0} /\ MaxKnocks \in Nat \ {0}
ASSUME ClientAssumption == {Polite, FsFull, HeapFull} \subseteq BOOLEAN

VARIABLES
    pc,               \* the half of handleFTP() that comes next
    cmdState, command,\* as in the code; command keeps its parameter
    control,          \* is the control connection up?
    input,            \* the line that waits on it, or None
    aTimeout,         \* "running" or "expired"
    transferState, file, bytesTransfered, dataPassiveConn, \* as in the code
    fileBuffer,       \* is a buffer allocated?
    fileBufferSize,   \* is it above zero?  free() does not reset it
    data,             \* the data connection, its unread chunks; history: the chunks
                      \* this transfer received
    knocks,           \* connections to the passive port: is each still open?
    fs,               \* the file system
    cwd, rnFrom,      \* as in the code
    authed,           \* history: this client gave user and password
    owed,             \* history: final replies that are still to come: one for each
                      \* command, and those that are sent beyond that
    fresh,            \* history: file was opened by the RETR or STOR under way
    starved           \* history: the transfer under way got no memory for a buffer

session   == <<cmdState, control, aTimeout, authed>>
buffer    == <<fileBuffer, fileBufferSize, starved>>
transfer  == <<transferState, bytesTransfered, fresh, buffer>>
conns     == <<data, knocks, dataPassiveConn>>
names     == <<cwd, rnFrom>>
fvars     == <<pc, session, command, input, owed, transfer, file, conns, fs, names>>

CmdStates == {"cInit", "cWait", "cCheck", "cUserId", "cPassword", "cLoginOk", "cProcess"}
Connected == CmdStates \ {"cInit", "cWait"}

Absent == [kind |-> "absent", size |-> 0]
Directory == [kind |-> "dir", size |-> 0]
FileOf(n) == [kind |-> "file", size |-> n]
Nodes == {Absent, Directory} \cup {FileOf(n) : n \in 0 .. MaxSize}

Closed == [mode |-> "closed", path |-> None, size |-> 0, pos |-> 0]
Down == [up |-> FALSE, unread |-> 0, received |-> 0]

\* The lines a client may send; TOOLONG is one of more than FTP_CMD_SIZE characters.
WithPath == {"RETR", "STOR", "SIZE", "DELE", "MKD", "RMD", "RNFR", "RNTO", "CWD", "LIST"}
Plain == {"NOOP", "FEAT", "ABOR", "QUIT", "PASV", "CDUP", "TOOLONG"}
Lines == {c \in [name : WithPath, par : Names \cup {None}]
             \cup [name : Plain, par : {None}]
             \cup [name : {"USER", "PASS", "PORT"}, par : {"right", "wrong"}]
             \cup [name : {"CWD"}, par : {".", ".."}] : c.name \in Commands}

\* None is no line.
ASSUME LinesAssumption ==
    None \notin [name : WithPath \cup Plain \cup {"USER", "PASS", "PORT", "PWD"},
                par : Names \cup {None, "right", "wrong", ".", ".."}]

-----------------------------------------------------------------------------
(* Files and connections *)

\* THEFS.open(p, "r"): a directory opens too.
OpenedToRead(p) ==
    CASE fs[p].kind = "file" -> [mode |-> "r", path |-> p, size |-> fs[p].size, pos |-> 0]
      [] fs[p].kind = "dir"  -> [mode |-> "dir", path |-> p, size |-> 0, pos |-> 0]
      [] OTHER -> Closed

\* THEFS.open(p, "w"), twice: a directory opens, and takes no data; a file is
\* emptied.
OpenedToWrite(p) ==
    [mode |-> IF fs[p] = Directory THEN "dir" ELSE "w", path |-> p, size |-> 0, pos |-> 0]
Emptied(p) == IF fs[p] = Directory THEN fs ELSE [fs EXCEPT ![p] = FileOf(0)]

\* What was written becomes the content of the file when its handle h closes,
\* unless the file was removed or renamed meanwhile.
Flushed(h, g) ==
    IF h.mode = "w" /\ h.path # None
      THEN [g EXCEPT ![h.path] = FileOf(h.size)] ELSE g

Closes(h, g) == file' = Closed /\ fs' = Flushed(h, g)
CloseFile == Closes(file, fs)

\* An open handle loses the name p.
Unnamed(p) == IF file.path = p THEN [file EXCEPT !.path = None] ELSE file

\* connected() of a connection: what was received and not read yet counts.
ControlConnected == control \/ input # None
DataConnected == data.up \/ data.unread > 0

\* What dataConnect() may return, and the connections it leaves.  A connection
\* found on the passive port is taken without a look at whether it still is one.
dataConnect(c) ==
    IF ~dataPassiveConn
      THEN {[rc |-> 1, data |-> [Down EXCEPT !.up = TRUE], knocks |-> knocks],
            [rc |-> -1, data |-> Down, knocks |-> knocks]}
    ELSE IF DataConnected THEN {[rc |-> 1, data |-> [data EXCEPT !.received = data.unread], knocks |-> knocks]}
    ELSE IF knocks = <<>> THEN {[rc |-> 0, data |-> data, knocks |-> knocks]}
    ELSE {[rc |-> 1, knocks |-> Tail(knocks),
           data |-> [up |-> Head(knocks), unread |-> n, received |-> n]] :
              n \in IF c.name = "STOR" THEN 0 .. MaxSize - file.size ELSE {0}}

\* free() forgets the buffer and not its size.
freeBuffer == fileBuffer' = FALSE /\ starved' = FALSE /\ UNCHANGED fileBufferSize

\* abortTransfer(); replies counts the final replies it sends.
Aborted == IF transferState = "tIdle" THEN 0 ELSE 1

\* Mutant: the buffer is freed, the transfer goes on.
abortTransfer_Busy ==
    /\ IF transferState # "tIdle"
         THEN CloseFile /\ data' = Down
         ELSE UNCHANGED <<file, fs, data>>
    /\ freeBuffer
    /\ UNCHANGED <<transferState, bytesTransfered, fresh>>

abortTransfer ==
    /\ IF transferState # "tIdle"
         THEN CloseFile /\ data' = Down
         ELSE UNCHANGED <<file, fs, data>>
    /\ freeBuffer /\ transferState' = "tIdle"
    /\ UNCHANGED <<bytesTransfered, fresh>>

-----------------------------------------------------------------------------
(* How processCommand() ends: finished (1), to be called again (0), or (0) with
   the command cleared.  Only the first restarts the inactivity timer. *)
Finished(replies) ==
    /\ command' = None /\ owed' = owed - replies /\ aTimeout' = "running"
    /\ pc' = "watch" /\ UNCHANGED <<cmdState, control, authed>>

Again(c) ==
    /\ command' = c
    /\ pc' = "watch" /\ UNCHANGED <<owed, session>>

Cleared ==
    /\ command' = None /\ owed' = owed - 1
    /\ pc' = "watch" /\ UNCHANGED session

PathOf(c) == IF c.par = None THEN cwd ELSE c.par

NamesKept == UNCHANGED names
FilesKept == UNCHANGED <<file, fs, conns, transfer>>

USER(c) ==
    /\ c.name = "USER" /\ FilesKept /\ NamesKept
    /\ \/ c.par = "wrong" /\ Cleared
       \/ c.par = "right" /\ cmdState = "cUserId"
          /\ cmdState' = "cPassword" /\ aTimeout' = "running"
          /\ command' = None /\ owed' = owed - 1
          /\ pc' = "watch" /\ UNCHANGED <<control, authed>>
       \/ c.par = "right" /\ cmdState # "cUserId" /\ Finished(0)

\* Mutant: any password will do.
PASS_Any(c) ==
    /\ c.name = "PASS" /\ FilesKept /\ NamesKept
    /\ cmdState' = "cLoginOk" /\ authed' = (c.par = "right")
    /\ command' = None /\ pc' = "watch" /\ UNCHANGED <<owed, control, aTimeout>>

\* The reply to a right password is sent in the next pass.
PASS(c) ==
    /\ c.name = "PASS" /\ FilesKept /\ NamesKept
    /\ \/ c.par = "wrong" /\ Cleared
       \/ c.par = "right" /\ cmdState = "cPassword"
          /\ cmdState' = "cLoginOk" /\ authed' = TRUE
          /\ command' = None /\ pc' = "watch" /\ UNCHANGED <<owed, control, aTimeout>>
       \/ c.par = "right" /\ cmdState # "cPassword" /\ Finished(0)

QUIT(c) ==
    /\ c.name = "QUIT" /\ abortTransfer /\ NamesKept
    /\ control' = FALSE /\ cmdState' = "cInit"
    /\ owed' = owed - 1 - Aborted
    /\ pc' = "control" /\ command' = c
    /\ UNCHANGED <<aTimeout, authed, knocks, dataPassiveConn>>

\* NOOP, PWD, TYPE, MODE, STRU, SITE, SYST and unknown commands: a reply only.
NOOP(c) == c.name \in {"NOOP", "PWD"} /\ FilesKept /\ NamesKept /\ Finished(1)

FEAT(c) == c.name = "FEAT" /\ FilesKept /\ NamesKept /\ Cleared

CDUP(c) ==
    /\ c.name = "CDUP" /\ Finished(1) /\ FilesKept
    /\ cwd' = Root /\ UNCHANGED rnFrom

\* The directory is looked at through the one file handle of the server.
CWD(c) ==
    /\ c.name = "CWD"
    /\ \/ c.par = "." /\ Again([name |-> "PWD", par |-> None]) /\ FilesKept /\ NamesKept
       \/ c.par = ".." /\ Again([name |-> "CDUP", par |-> None]) /\ FilesKept /\ NamesKept
       \/ /\ c.par \notin {".", ".."} /\ Finished(1)
          /\ CloseFile /\ fresh' = FALSE
          /\ cwd' = IF fs[PathOf(c)].kind = "dir" THEN PathOf(c) ELSE cwd
          /\ UNCHANGED <<rnFrom, conns, transferState, bytesTransfered, buffer>>

\* SIZE and MDTM: the same handle again.
SIZE(c) ==
    /\ c.name = "SIZE" /\ Finished(1) /\ NamesKept
    /\ CloseFile /\ fresh' = FALSE
    /\ UNCHANGED <<conns, transferState, bytesTransfered, buffer>>

PASV(c) ==
    /\ c.name = "PASV" /\ Finished(1) /\ NamesKept
    /\ data' = Down /\ dataPassiveConn' = TRUE
    /\ UNCHANGED <<file, fs, knocks, transfer>>

PORT(c) ==
    /\ c.name = "PORT" /\ Finished(1) /\ NamesKept
    /\ data' = Down
    /\ dataPassiveConn' = IF c.par = "right" THEN FALSE ELSE dataPassiveConn
    /\ UNCHANGED <<file, fs, knocks, transfer>>

\* Mutant: the aborted command is not answered.
ABOR_Silent(c) ==
    /\ c.name = "ABOR" /\ Finished(1) /\ NamesKept
    /\ abortTransfer /\ UNCHANGED <<knocks, dataPassiveConn>>

ABOR(c) ==
    /\ c.name = "ABOR" /\ Finished(1 + Aborted) /\ NamesKept
    /\ abortTransfer /\ UNCHANGED <<knocks, dataPassiveConn>>

\* What openDir(p) walks over: a file is its own only entry.
Entries(p) ==
    IF p = Root THEN {n \in Names \ {Root} : fs[n] # Absent}
    ELSE IF fs[p].kind = "file" THEN {p} ELSE {}

\* LIST, MLSD and NLST: the entries are looked at through the same handle; the
\* data connection is stopped at the end, also when there was none yet.
LIST(c) ==
    /\ c.name = "LIST" /\ NamesKept
    /\ \E o \in dataConnect(c) :
          /\ knocks' = o.knocks
          /\ \/ o.rc = 0 /\ Again(c)
             \/ o.rc # 0 /\ Finished(1)
          /\ IF o.rc = 1 /\ Entries(PathOf(c)) # {}
               THEN CloseFile /\ fresh' = FALSE ELSE UNCHANGED <<file, fs, fresh>>
    /\ data' = Down
    /\ UNCHANGED <<dataPassiveConn, transferState, bytesTransfered, buffer>>

\* The file is opened unless one is open.
Reused == file.mode # "closed"
StillFresh == fresh' = IF Reused THEN command # None /\ fresh ELSE TRUE

\* Mutant: the count of the last transfer is kept.
CountReset_Kept == UNCHANGED bytesTransfered
CountReset == bytesTransfered' = 0

\* allocateBuffer(): it keeps a buffer that is there, and goes by the size of the
\* last one when there is none.
Allocated == fileBuffer' = TRUE /\ fileBufferSize' = TRUE /\ starved' = FALSE
NotAllocated ==
    /\ HeapFull /\ ~fileBuffer /\ starved' = TRUE
    /\ UNCHANGED <<fileBuffer, fileBufferSize>>

\* The final replies that a transfer without a buffer gets beyond its own: a 226
\* before the 451, and another one from the watch of the same pass.
Surplus == 2

\* The rest of RETR and STOR, once their file is open as h over the files g:
\* connect, and start the transfer.  Without a buffer it is closed and still under
\* way; a STOR without connection closes its file, a RETR does not.
BeginTransfer(c, state, h, g) ==
    \E o \in dataConnect(c) :
        /\ knocks' = o.knocks
        /\ \/ /\ o.rc = 1 /\ Finished(0)
              /\ Allocated \/ (NotAllocated /\ fileBufferSize)
              /\ transferState' = state /\ CountReset
              /\ data' = o.data /\ file' = h /\ fs' = g
           \/ /\ o.rc = 1 /\ Finished(2 - Surplus)
              /\ NotAllocated /\ ~fileBufferSize
              /\ transferState' = state /\ CountReset
              /\ data' = Down /\ Closes(h, g)
           \/ /\ o.rc = 0 /\ Again(c)
              /\ data' = o.data /\ file' = h /\ fs' = g
              /\ UNCHANGED <<transferState, bytesTransfered, buffer>>
           \/ /\ o.rc = -1 /\ Finished(1)
              /\ data' = o.data
              /\ IF state = "tStore" THEN Closes(h, g) ELSE file' = h /\ fs' = g
              /\ UNCHANGED <<transferState, bytesTransfered, buffer>>

NoTransfer == Finished(1) /\ UNCHANGED <<data, knocks, transferState, bytesTransfered, buffer>>

RETR(c) ==
    /\ c.name = "RETR" /\ NamesKept /\ UNCHANGED dataPassiveConn
    /\ \/ c.par = None /\ NoTransfer /\ UNCHANGED <<file, fs, fresh>>
       \/ /\ c.par # None /\ StillFresh
          /\ LET h == IF Reused THEN file ELSE OpenedToRead(c.par)
             IN  IF h.mode \in {"closed", "dir"}
                   THEN NoTransfer /\ file' = h /\ UNCHANGED fs
                   ELSE BeginTransfer(c, "tRetrieve", h, fs)

STOR(c) ==
    /\ c.name = "STOR" /\ NamesKept /\ UNCHANGED dataPassiveConn
    /\ \/ c.par = None /\ NoTransfer /\ UNCHANGED <<file, fs, fresh>>
       \/ /\ c.par # None /\ ~Reused      \* it could not be created
          /\ NoTransfer /\ UNCHANGED <<file, fs, fresh>>
       \/ /\ c.par # None /\ StillFresh
          /\ BeginTransfer(c, "tStore", IF Reused THEN file ELSE OpenedToWrite(c.par),
                                        IF Reused THEN fs ELSE Emptied(c.par))

\* DELE: the file system removes anything but a directory with entries.
DELE(c) ==
    /\ c.name = "DELE" /\ Finished(1) /\ NamesKept /\ UNCHANGED <<conns, transfer>>
    /\ IF c.par \in {None, Root} \/ fs[PathOf(c)] = Absent
         THEN UNCHANGED <<file, fs>>
         ELSE fs' = [fs EXCEPT ![c.par] = Absent] /\ file' = Unnamed(c.par)

MKD(c) ==
    /\ c.name = "MKD" /\ Finished(1) /\ NamesKept /\ UNCHANGED <<file, conns, transfer>>
    /\ \/ fs[PathOf(c)] = Absent /\ fs' = [fs EXCEPT ![PathOf(c)] = Directory]
       \/ (fs[PathOf(c)] # Absent \/ FsFull) /\ UNCHANGED fs

\* A path without entries is removed: an empty directory.
RMD(c) ==
    /\ c.name = "RMD" /\ Finished(1) /\ NamesKept /\ UNCHANGED <<conns, transfer>>
    /\ IF PathOf(c) = Root \/ Entries(PathOf(c)) # {}
         THEN UNCHANGED <<file, fs>>
         ELSE fs' = [fs EXCEPT ![PathOf(c)] = Absent] /\ file' = Unnamed(PathOf(c))

RNFR(c) ==
    /\ c.name = "RNFR" /\ Finished(1) /\ FilesKept
    /\ rnFrom' = IF c.par # None /\ fs[PathOf(c)] # Absent THEN c.par ELSE rnFrom
    /\ UNCHANGED cwd

\* Mutant: the destination may exist.
NotRenamed_Over(c) == rnFrom \in {None, Root} \/ c.par \in {None, Root} \/ fs[rnFrom] = Absent

\* Without a source, or onto something that exists, nothing is renamed.
NotRenamed(c) ==
    \/ rnFrom \in {None, Root} \/ fs[rnFrom] = Absent
    \/ c.par = None \/ fs[PathOf(c)] # Absent

\* Every RNTO forgets the source.
RNTO(c) ==
    /\ c.name = "RNTO" /\ Finished(1) /\ UNCHANGED <<cwd, conns, transfer>>
    /\ rnFrom' = None
    /\ IF NotRenamed(c)
         THEN UNCHANGED <<file, fs>>
         ELSE /\ fs' = [fs EXCEPT ![c.par] = fs[rnFrom], ![rnFrom] = Absent]
              /\ file' = Unnamed(rnFrom)

processCommand(c) ==
    \/ USER(c) \/ PASS(c) \/ QUIT(c) \/ NOOP(c) \/ FEAT(c) \/ CDUP(c) \/ CWD(c)
    \/ SIZE(c) \/ PASV(c) \/ PORT(c) \/ ABOR(c) \/ LIST(c) \/ RETR(c) \/ STOR(c)
    \/ DELE(c) \/ MKD(c) \/ RMD(c) \/ RNFR(c) \/ RNTO(c)

-----------------------------------------------------------------------------
(* handleFTP(), first half: the control connection *)

\* A client that is still there is sent away, with its transfer; of one that is
\* gone the file and the data connection stay as they are.
ControlInit ==
    /\ pc = "control" /\ cmdState = "cInit"
    /\ IF ControlConnected /\ transferState # "tIdle"
         THEN CloseFile /\ data' = Down
         ELSE UNCHANGED <<file, fs, data>>
    /\ control' = FALSE /\ input' = None /\ owed' = 0
    /\ dataPassiveConn' = TRUE /\ cwd' = Root /\ rnFrom' = None
    /\ command' = None /\ freeBuffer /\ transferState' = "tIdle"
    /\ cmdState' = "cWait"
    /\ UNCHANGED <<pc, aTimeout, authed, knocks, bytesTransfered, fresh>>

\* The greeting counts as a reply that is owed.
Accept ==
    /\ pc = "control" /\ cmdState = "cWait"
    /\ control' = TRUE /\ input' = None /\ owed' = 1 /\ authed' = FALSE
    /\ cmdState' = "cCheck" /\ aTimeout' = "running" /\ pc' = "watch"
    /\ UNCHANGED <<command, transfer, file, conns, fs, names>>

Greet ==
    /\ pc = "control" /\ cmdState = "cCheck"
    /\ IF ControlConnected THEN cmdState' = "cUserId" /\ owed' = owed - 1
                  ELSE UNCHANGED <<cmdState, owed>>
    /\ pc' = "watch"
    /\ UNCHANGED <<control, aTimeout, authed, command, input, transfer, file,
                   conns, fs, names>>

LoginOk ==
    /\ pc = "control" /\ cmdState = "cLoginOk"
    /\ cmdState' = "cProcess" /\ aTimeout' = "running" /\ owed' = owed - 1
    /\ pc' = "watch"
    /\ UNCHANGED <<control, authed, command, input, transfer, file, conns, fs, names>>

\* readChar(): the pending command, or else the next line.
Reading == pc = "control" /\ cmdState \in {"cUserId", "cPassword", "cProcess"}
Current == IF command # None THEN command ELSE input

NothingRead ==
    /\ Reading /\ Current = None
    /\ pc' = "watch"
    /\ UNCHANGED <<session, command, input, owed, transfer, file, conns, fs, names>>

NeedsLogin(c) ==
    /\ c.name \notin {"FEAT", "TOOLONG"}
    /\ \/ cmdState = "cUserId" /\ c.name # "USER"
       \/ cmdState = "cPassword" /\ c.name # "PASS"

TakeLine == input' = IF command # None THEN input ELSE None

\* At the character that is too many the line is thrown away and answered; what
\* follows is read as a line of its own, and to a client that means its commands
\* it is an unknown command, or too long again.
Rests == {l \in Lines : Polite => l.name \in {"NOOP", "TOOLONG"}}

LineTooLong ==
    /\ Reading /\ command = None /\ input # None /\ input.name = "TOOLONG"
    /\ \/ input' = None /\ owed' = owed - 1
       \/ input' \in Rests /\ UNCHANGED owed     \* one more reply is to come
    /\ pc' \in {pc, "watch"}
    /\ UNCHANGED <<session, command, transfer, file, conns, fs, names>>

\* The pass returns early: no look at losses, timeout or transfer.
Refuse ==
    /\ Reading /\ Current # None /\ NeedsLogin(Current)
    /\ TakeLine /\ command' = None /\ owed' = owed - 1
    /\ UNCHANGED <<pc, session, transfer, file, conns, fs, names>>

Process ==
    /\ Reading /\ Current # None /\ ~NeedsLogin(Current)
    /\ TakeLine
    /\ processCommand(Current)

-----------------------------------------------------------------------------
(* handleFTP(), second half: loss, timeout, transfer *)

CloseTransfer ==
    /\ CloseFile /\ data' = Down /\ freeBuffer
    /\ transferState' = "tIdle" /\ owed' = owed - 1
    /\ UNCHANGED bytesTransfered

\* A chunk is counted as sent when it was read; a handle that is not for
\* reading gives none.
SendsChunk ==
    DataConnected /\ bytesTransfered < file.size /\ file.mode = "r" /\ file.pos < file.size

doFiletoNetwork ==
    /\ transferState = "tRetrieve"
    /\ IF SendsChunk
         THEN /\ fileBuffer
              /\ bytesTransfered' = bytesTransfered + 1
              /\ file' = [file EXCEPT !.pos = @ + 1]
              /\ UNCHANGED <<transferState, buffer, data, fs, owed>>
         ELSE CloseTransfer

\* The transfer ends when the connection is closed and all of it was read.
Written == IF file.mode = "w" THEN {file.size + 1} \cup (IF FsFull THEN {file.size} ELSE {})
                              ELSE {file.size}

\* Mutant: the end of the connection is seen before the chunks.
doNetworkToFile_Hasty ==
    /\ transferState = "tStore"
    /\ ~data.up /\ CloseTransfer

doNetworkToFile ==
    /\ transferState = "tStore"
    /\ \/ /\ data.unread > 0 /\ fileBuffer
          /\ data' = [data EXCEPT !.unread = @ - 1]
          /\ \E n \in Written : file' = [file EXCEPT !.size = n]
          /\ bytesTransfered' = bytesTransfered + 1
          /\ UNCHANGED <<transferState, buffer, fs, owed>>
       \/ data.unread = 0 /\ ~data.up /\ CloseTransfer
       \/ data.unread = 0 /\ data.up
          /\ UNCHANGED <<transferState, buffer, bytesTransfered, data, file, fs, owed>>

noTransfer ==
    /\ transferState = "tIdle"
    /\ UNCHANGED <<transferState, buffer, bytesTransfered, data, file, fs, owed>>

\* Mutant: the timer is not looked at.
Gone_Forever == ~ControlConnected
Gone == ~ControlConnected \/ aTimeout = "expired"

Watch ==
    /\ pc = "watch" /\ pc' = "control"
    /\ cmdState' = IF Gone THEN "cInit" ELSE cmdState
    /\ doFiletoNetwork \/ doNetworkToFile \/ noTransfer
    /\ UNCHANGED <<control, aTimeout, authed, command, input, fresh, knocks,
                   dataPassiveConn, names>>

\* The device restarts; what an open handle had not written is lost.
Restarted ==
    /\ pc' = "control" /\ cmdState' = "cInit" /\ control' = FALSE /\ aTimeout' = "running"
    /\ command' = None /\ input' = None /\ owed' = 0 /\ authed' = FALSE
    /\ transferState' = "tIdle" /\ bytesTransfered' = 0 /\ fresh' = FALSE
    /\ fileBuffer' = FALSE /\ fileBufferSize' = FALSE /\ starved' = FALSE
    /\ file' = Closed /\ data' = Down /\ knocks' = <<>> /\ dataPassiveConn' = TRUE
    /\ cwd' = Root /\ rnFrom' = None
    /\ UNCHANGED fs

\* A chunk that would be read to or sent from address zero resets the processor.
NoBuffer ==
    /\ pc = "watch" /\ ~fileBuffer
    /\ \/ transferState = "tRetrieve" /\ SendsChunk
       \/ transferState = "tStore" /\ data.unread > 0
    /\ Restarted

-----------------------------------------------------------------------------
(* The client, the network and time *)

LoggingIn == cmdState \in {"cUserId", "cPassword"}

\* A polite client sends a command when nothing is owed, except that it may
\* abort what is under way, and logs in once.
Courteous(c) ==
    /\ \/ owed = 0
       \/ owed = 1 /\ c.name = "ABOR" /\ (command # None \/ transferState # "tIdle")
    /\ c.name \in {"USER", "PASS"} => LoggingIn

Send ==
    /\ control /\ input = None /\ owed < 2
    /\ \E c \in Lines : input' = c /\ (Polite => Courteous(c))
    /\ owed' = owed + 1
    /\ UNCHANGED <<pc, session, command, transfer, file, conns, fs, names>>

Network == UNCHANGED <<pc, cmdState, aTimeout, authed, command, input, owed,
                       transfer, file, dataPassiveConn, fs, names>>

\* A close leaves the line that was received, a reset does not.
ControlLost ==
    /\ control /\ control' = FALSE /\ input' \in {input, None}
    /\ UNCHANGED <<pc, cmdState, aTimeout, authed, command, owed, transfer, file,
                   conns, fs, names>>

Knock ==
    /\ control /\ Len(knocks) < MaxKnocks /\ knocks' = Append(knocks, TRUE)
    /\ Network /\ UNCHANGED <<control, data>>

KnockLost ==
    /\ \E i \in DOMAIN knocks : knocks[i] /\ knocks' = [knocks EXCEPT ![i] = FALSE]
    /\ Network /\ UNCHANGED <<control, data>>

DataArrives ==
    /\ data.up /\ transferState = "tStore"
    /\ data.received < MaxSize /\ file.size + data.unread < MaxSize
    /\ data' = [data EXCEPT !.unread = @ + 1, !.received = @ + 1]
    /\ Network /\ UNCHANGED <<control, knocks>>

DataLost ==
    /\ data.up /\ data' = [data EXCEPT !.up = FALSE]
    /\ Network /\ UNCHANGED <<control, knocks>>

Expire ==
    /\ cmdState \in Connected /\ aTimeout = "running" /\ aTimeout' = "expired"
    /\ UNCHANGED <<pc, cmdState, control, authed, command, input, owed, transfer,
                   file, conns, fs, names>>

FtpInit ==
    /\ pc = "control" /\ cmdState = "cInit" /\ control = FALSE /\ aTimeout = "running"
    /\ command = None /\ input = None /\ owed = 0 /\ authed = FALSE
    /\ transferState = "tIdle" /\ bytesTransfered = 0 /\ fresh = FALSE
    /\ fileBuffer = FALSE /\ fileBufferSize = FALSE /\ starved = FALSE
    /\ file = Closed /\ data = Down /\ knocks = <<>> /\ dataPassiveConn = TRUE
    /\ cwd = Root /\ rnFrom = None
    /\ fs \in [Names -> Nodes] /\ fs[Root] = Directory

Reboot == Restarted

-----------------------------------------------------------------------------
handleFTP ==
    \/ ControlInit \/ Greet \/ LoginOk \/ NothingRead \/ LineTooLong \/ Refuse
    \/ Process \/ Watch \/ NoBuffer

Environment ==
    \/ Accept \/ Send \/ ControlLost \/ Knock \/ KnockLost \/ DataArrives
    \/ DataLost \/ Expire \/ Reboot

FtpNext == handleFTP \/ Environment

FtpSpec == FtpInit /\ [][FtpNext]_fvars

\* The loop calls handleFTP() in every pass, and time passes.
FairFtp == FtpSpec /\ WF_fvars(handleFTP) /\ WF_fvars(Expire)
=============================================================================

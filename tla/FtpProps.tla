------------------------------ MODULE FtpProps ------------------------------
(* What must hold of the FTP server, and what a comment promises of it. *)
EXTENDS FtpServer

\* Every variable keeps the values its C++ type and the code give it; a client is
\* never owed more than two replies.
FtpTypeOK ==
    /\ pc \in {"control", "watch"}
    /\ cmdState \in CmdStates /\ aTimeout \in {"running", "expired"}
    /\ control \in BOOLEAN /\ authed \in BOOLEAN /\ fresh \in BOOLEAN
    /\ {fileBuffer, fileBufferSize, starved, dataPassiveConn} \subseteq BOOLEAN
    /\ command = None \/ command.name \in {"QUIT", "PWD", "CDUP", "LIST", "RETR", "STOR"}
    /\ input = None \/ input \in Lines
    /\ transferState \in {"tIdle", "tRetrieve", "tStore"}
    /\ file \in [mode : {"closed", "r", "w", "dir"}, path : Names \cup {None},
                 size : 0 .. MaxSize, pos : 0 .. MaxSize]
    /\ bytesTransfered \in 0 .. MaxSize
    /\ data \in [up : BOOLEAN, unread : 0 .. MaxSize, received : 0 .. MaxSize]
    /\ knocks \in Seq(BOOLEAN) /\ Len(knocks) <= MaxKnocks
    /\ fs \in [Names -> Nodes]
    /\ cwd \in Names /\ rnFrom \in Names \cup {None}
    /\ owed \in -2 .. 2

\* A client is served only after it gave the user and the password itself,
\* whatever the client before it did and however that one went away.
OwnLogin == cmdState \in {"cLoginOk", "cProcess"} => authed

\* A transfer moves its chunks through a buffer: one that is under way holds it,
\* unless there was no memory for a buffer when that very transfer began
\* (FTPServer.cpp:659, :711, FTPCommon.cpp:50).  Nothing else takes it away: no
\* command between two chunks, no abort, no client that is sent away.
BufferHeld == transferState # "tIdle" => (fileBuffer <=> ~starved)

\* A polite client gets one final reply for each command it sent, two more for a
\* transfer that finds no memory (FTPServer.cpp:661) and one more for what follows
\* the limit of a line that is too long (:1006): the server never comes to owe a
\* reply it has no reason to send, and sends no other beyond those.
OneReplyEach ==
    /\ owed >= 0
    /\ control /\ cmdState = "cProcess" /\ command = None /\ input = None
       /\ transferState = "tIdle" => owed = 0

\* A step that ends a transfer with a 226 (a restart would forget the client).
ServerEnds(state) ==
    pc = "watch" /\ transferState = state /\ transferState' = "tIdle" /\ authed'

\* A transfer that the server itself ends is whole: a STOR has read all that
\* arrived before the connection closed, and written all it has read to a handle
\* of its own that is still open; a RETR of an open file with a connection that
\* still holds has sent it all.  (Without memory the file is closed at once.)
TransferIsWhole ==
    [][/\ ServerEnds("tStore") =>
            /\ data.unread = 0
            /\ fresh /\ file.mode = "w" /\ file.path # None
                  => fs'[file.path].size = data.received
       /\ ServerEnds("tRetrieve") /\ fresh /\ data.up
            => bytesTransfered = file.size]_fvars

\* What exists changes only where a command says so: by a DELE, RMD or STOR of
\* that path, an RNTO whose accepted RNFR named it, or a handle opened to write
\* it; never as the destination of a rename, nor by reading or listing.
OnlyNamedChanges ==
    [][\A n \in Names : fs[n] # Absent /\ fs'[n] # fs[n] =>
          \/ /\ Current # None /\ Current.name \in {"DELE", "RMD", "STOR"}
             /\ PathOf(Current) = n
          \/ Current # None /\ Current.name = "RNTO" /\ rnFrom = n
          \/ file.mode = "w" /\ file.path = n]_fvars

\* A client that stays silent, whatever it was doing, loses its connection and
\* makes room for the next one.
SilentClientFreed == <>[](input = None) => []<>(cmdState = "cWait")

\* Every transfer of a polite client ends.
TransferEnds == transferState # "tIdle" ~> transferState = "tIdle"

-----------------------------------------------------------------------------
(* What a comment says *)

\* FTPServer.cpp:629 "open the file if not opened before (when re-running
\* processCommand() since data connetion needs time)": an open file is that of
\* the command under way.
RightFile == transferState # "tIdle" => fresh
=============================================================================

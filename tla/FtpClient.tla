----------------------------- MODULE FtpClient ------------------------------
(***************************************************************************)
(* FTPClient: one transfer at a time, driven by calls of handleFTP(),      *)
(* either those of the user's loop or those of transfer() itself.  The     *)
(* server is any: it may answer or not, with the code that is waited for   *)
(* or another one, and may close the data connection when it likes.        *)
(***************************************************************************)
EXTENDS Naturals

CONSTANTS
    MaxChunks,  \* bound: chunks of a file
    HeapFull    \* may no buffer be left for a transfer?

ASSUME ChunksAssumption == MaxChunks \in Nat \ {0}
ASSUME HeapAssumption == HeapFull \in BOOLEAN

VARIABLES
    ftpState,        \* as in the code
    server,          \* begin() was called
    status,          \* _serverStatus.result
    direction,       \* as in the code
    blocking,        \* transfer() has not returned
    timer,           \* aTimeout: "never", "running" or "expired"
    opened,          \* file: is it open?
    size,            \* of the local file when it was opened, in chunks
    fileBuffer,      \* is it allocated?
    fileBufferSize,  \* is it above zero?  free() does not reset it
    dataUp,          \* is the data connection open at both ends?
    unread,          \* chunks that came and were not read
    bytesTransfered, \* as in the code, in chunks
    sent,            \* history: chunks the server has sent in this transfer
    cut              \* history: the server closed the connection of this put

orderVars == <<server, direction, blocking, size>>
localVars == <<opened, fileBuffer, fileBufferSize>>
moveVars  == <<dataUp, unread, bytesTransfered, sent, cut>>
cvars     == <<ftpState, status, timer, orderVars, localVars, moveVars>>

Chunks == 0 .. MaxChunks

\* TransferType.  FTP_PUT is 1 and FTP_GET is 2, each with the bit for blocking.
Blocking == {"FTP_PUT", "FTP_GET"}
Puts == {"FTP_PUT", "FTP_PUT_NONBLOCKING"}
Gets == {"FTP_GET", "FTP_GET_NONBLOCKING"}

\* direction & FTP_GET: a blocking put shares a bit with FTP_GET.
OpenedToWrite == Gets \cup Blocking

Waiting == {"cGreet", "cUser", "cPassword", "cPassive"}
Busy == {"cConnect", "cData", "cTransfer", "cFinish", "cQuit"} \cup Waiting
Over == {"cIdle", "cTimeout", "cError"}

ClientInit ==
    /\ ftpState = "cIdle" /\ server = FALSE /\ status = "OK"
    /\ direction = "FTP_GET" /\ blocking = FALSE /\ timer = "never"
    /\ opened = FALSE /\ size = 0
    /\ fileBuffer = FALSE /\ fileBufferSize = FALSE
    /\ dataUp = FALSE /\ unread = 0 /\ bytesTransfered = 0 /\ sent = 0 /\ cut = FALSE

-----------------------------------------------------------------------------
(* What the user calls *)

ClientBegin ==
    /\ ~server /\ ~blocking
    /\ server' = TRUE
    /\ UNCHANGED <<ftpState, status, timer, direction, blocking, size, localVars, moveVars>>

\* Mutant: what is under way is not looked at.
TransferGranted_Any == TRUE
TransferGranted == ftpState \in Over

\* A transfer is under way: the call returns, but the result is reset first.
TransferRefused ==
    /\ ~blocking /\ ~TransferGranted
    /\ status' = "PROGRESS"
    /\ UNCHANGED <<ftpState, timer, orderVars, localVars, moveVars>>

\* The new file takes the place of one that a failed transfer left open.  Opening
\* it to write empties it, before there is any connection.
TransferBegin ==
    /\ ~blocking /\ TransferGranted
    /\ direction' \in Puts \cup Gets
    /\ \/ /\ opened' = FALSE
          /\ status' = "ERROR"
          /\ UNCHANGED <<ftpState, blocking, size>>
       \/ /\ opened' = TRUE
          /\ size' \in IF direction' \in OpenedToWrite THEN {0} ELSE Chunks
          /\ status' = "PROGRESS" /\ ftpState' = "cConnect"
          /\ blocking' = (direction' \in Blocking)
    /\ UNCHANGED <<server, timer, fileBuffer, fileBufferSize, moveVars>>

\* The loop of a blocking transfer() ends as soon as the state is one of Over.
TransferReturns ==
    /\ blocking /\ ftpState \in Over
    /\ blocking' = FALSE
    /\ UNCHANGED <<ftpState, status, timer, server, direction, size, localVars, moveVars>>

-----------------------------------------------------------------------------
(* handleFTP() *)

\* Without begin(), or after a failure, that is all it does; what the failure
\* left open and allocated stays so.
handleNothing ==
    /\ ~server \/ ftpState \in {"cTimeout", "cError"}
    /\ ~blocking \/ ftpState \in Busy
    /\ status' = "ERROR"
    /\ UNCHANGED <<ftpState, timer, orderVars, localVars, moveVars>>

\* controlConnect() returns 1 or -1, both of them true: without a connection the
\* client waits for a greeting.
handleConnect ==
    /\ server /\ ftpState = "cConnect"
    /\ ftpState' = "cGreet" /\ status' = "PROGRESS"
    /\ UNCHANGED <<timer, orderVars, localVars, moveVars>>

NextState == [cGreet |-> "cUser", cUser |-> "cPassword", cPassword |-> "cPassive",
              cPassive |-> "cData"]

\* waitFor(): the first call starts the timer, ...
waitForBegin ==
    /\ server /\ ftpState \in Waiting /\ timer = "never"
    /\ timer' = "running"
    /\ UNCHANGED <<ftpState, status, orderVars, localVars, moveVars>>

\* Mutant: the state is not changed.
waitForTimeout_Silent ==
    /\ server /\ ftpState \in Waiting /\ timer = "expired"
    /\ timer' = "never"
    /\ UNCHANGED <<ftpState, status, orderVars, localVars, moveVars>>

waitForTimeout ==
    /\ server /\ ftpState \in Waiting /\ timer = "expired"
    /\ timer' = "never" /\ ftpState' = "cTimeout"
    /\ UNCHANGED <<status, orderVars, localVars, moveVars>>

\* Mutant: a line with another code leaves the timer running.
waitForLine_Running(right) ==
    /\ server /\ ftpState \in Waiting /\ timer = "running"
    /\ timer' = IF right THEN "never" ELSE timer
    /\ ftpState' = IF right THEN NextState[ftpState] ELSE "cError"
    /\ UNCHANGED <<status, orderVars, localVars, moveVars>>

\* ... a later one reads a line, with the code or another one.
waitForLine(right) ==
    /\ server /\ ftpState \in Waiting /\ timer = "running"
    /\ timer' = "never"
    /\ ftpState' = IF right THEN NextState[ftpState] ELSE "cError"
    /\ UNCHANGED <<status, orderVars, localVars, moveVars>>

\* A 227 without an address that can be read: the client waits for one more.
handlePassiveAgain ==
    /\ server /\ ftpState = "cPassive" /\ timer = "running"
    /\ timer' = "never"
    /\ UNCHANGED <<ftpState, status, orderVars, localVars, moveVars>>

handleDataRefused ==
    /\ server /\ ftpState = "cData"
    /\ ftpState' = "cError"
    /\ dataUp' = FALSE /\ unread' = 0
    /\ UNCHANGED <<status, timer, orderVars, localVars, bytesTransfered, sent, cut>>

\* allocateBuffer() returns the size of the last buffer when there is none now.
handleData ==
    /\ server /\ ftpState = "cData"
    /\ dataUp' = TRUE /\ unread' = 0 /\ sent' = 0 /\ cut' = FALSE
    /\ bytesTransfered' = 0
    /\ \/ fileBuffer' = TRUE /\ fileBufferSize' = TRUE
       \/ HeapFull /\ ~fileBuffer /\ UNCHANGED <<fileBuffer, fileBufferSize>>
    /\ ftpState' = IF fileBufferSize' THEN "cTransfer" ELSE "cError"
    /\ UNCHANGED <<status, timer, orderVars, opened>>

connected == dataUp \/ unread > 0

\* After each chunk, and when there is none, the connection is looked at.
Moved(done) == ftpState' = IF done \/ ~(dataUp' \/ unread' > 0) THEN "cFinish" ELSE "cTransfer"

doFiletoNetwork ==
    /\ server /\ ftpState = "cTransfer" /\ direction \in Puts
    /\ LET more == connected /\ bytesTransfered < size IN
          /\ more => fileBuffer
          /\ bytesTransfered' = IF more THEN bytesTransfered + 1 ELSE bytesTransfered
          /\ UNCHANGED <<dataUp, unread>>
          /\ Moved(~more)
    /\ UNCHANGED <<status, timer, orderVars, localVars, sent, cut>>

\* Mutant: it ends when the connection is closed, whatever is still unread.
doNetworkToFile_Hasty ==
    /\ server /\ ftpState = "cTransfer" /\ direction \in Gets
    /\ ftpState' = IF dataUp THEN "cTransfer" ELSE "cFinish"
    /\ unread' = IF unread > 0 THEN unread - 1 ELSE unread
    /\ bytesTransfered' = bytesTransfered + unread - unread'
    /\ UNCHANGED <<status, timer, orderVars, localVars, dataUp, sent, cut>>

doNetworkToFile ==
    /\ server /\ ftpState = "cTransfer" /\ direction \in Gets
    /\ unread > 0 => fileBuffer
    /\ unread' = IF unread > 0 THEN unread - 1 ELSE unread
    /\ bytesTransfered' = bytesTransfered + unread - unread'
    /\ UNCHANGED dataUp
    /\ Moved(FALSE)
    /\ UNCHANGED <<status, timer, orderVars, localVars, sent, cut>>

\* Without a buffer the first chunk goes to or comes from address zero: the
\* processor resets.
noBuffer ==
    /\ server /\ ftpState = "cTransfer" /\ ~fileBuffer
    /\ IF direction \in Puts THEN connected /\ bytesTransfered < size ELSE unread > 0
    /\ ftpState' = "cIdle" /\ server' = FALSE /\ status' = "OK"
    /\ direction' = "FTP_GET" /\ blocking' = FALSE /\ timer' = "never"
    /\ opened' = FALSE /\ size' = 0
    /\ fileBuffer' = FALSE /\ fileBufferSize' = FALSE
    /\ dataUp' = FALSE /\ unread' = 0 /\ bytesTransfered' = 0 /\ sent' = 0 /\ cut' = FALSE

handleFinish ==
    /\ server /\ ftpState = "cFinish"
    /\ ftpState' = "cQuit"
    /\ dataUp' = FALSE /\ unread' = 0 /\ opened' = FALSE /\ fileBuffer' = FALSE
    /\ UNCHANGED <<status, timer, orderVars, fileBufferSize, bytesTransfered, sent, cut>>

\* The reply of the server to the transfer is not waited for.
handleQuit ==
    /\ server /\ ftpState = "cQuit"
    /\ ftpState' = "cIdle" /\ status' = "OK"
    /\ UNCHANGED <<timer, orderVars, localVars, moveVars>>

\* stop()
handleIdle ==
    /\ server /\ ftpState = "cIdle" /\ ~blocking
    /\ dataUp' = FALSE /\ unread' = 0 /\ opened' = FALSE /\ fileBuffer' = FALSE
    /\ UNCHANGED <<ftpState, status, timer, orderVars, fileBufferSize,
                   bytesTransfered, sent, cut>>

\* What a call does without a line from the server.
handleSilence ==
    \/ handleNothing \/ handleConnect
    \/ waitForBegin \/ waitForTimeout
    \/ handleDataRefused \/ handleData
    \/ doFiletoNetwork \/ doNetworkToFile \/ noBuffer
    \/ handleFinish \/ handleQuit \/ handleIdle

handleLine == handlePassiveAgain \/ \E right \in BOOLEAN : waitForLine(right)

-----------------------------------------------------------------------------
(* The server and time *)

ServerSends ==
    /\ dataUp /\ ftpState = "cTransfer" /\ direction \in Gets /\ sent < MaxChunks
    /\ sent' = sent + 1 /\ unread' = unread + 1
    /\ UNCHANGED <<ftpState, status, timer, orderVars, localVars, dataUp, bytesTransfered, cut>>

ServerCloses ==
    /\ dataUp /\ dataUp' = FALSE
    /\ cut' = (cut \/ direction \in Puts)
    /\ UNCHANGED <<ftpState, status, timer, orderVars, localVars, unread,
                   bytesTransfered, sent>>

TenSeconds ==
    /\ timer = "running" /\ timer' = "expired"
    /\ UNCHANGED <<ftpState, status, orderVars, localVars, moveVars>>

ClientNext ==
    \/ ClientBegin \/ TransferRefused \/ TransferBegin \/ TransferReturns
    \/ handleSilence \/ handleLine
    \/ ServerSends \/ ServerCloses \/ TenSeconds

ClientSpec == ClientInit /\ [][ClientNext]_cvars

\* handleFTP() is called again and again, by transfer() or by the loop; no answer
\* of the server is taken for granted.
ClientFairness ==
    WF_cvars(handleSilence) /\ WF_cvars(TransferReturns) /\ WF_cvars(TenSeconds)

FairClient == ClientSpec /\ ClientFairness

-----------------------------------------------------------------------------
\* Through all failures and transfers that follow them: the timer runs only while
\* a reply is waited for, so no wait inherits the rest of another one, a transfer
\* has its file until it is closed, and a buffer has a size.
ClientTypeOK ==
    /\ ftpState \in Busy \cup Over /\ status \in {"OK", "PROGRESS", "ERROR"}
    /\ timer \in {"never", "running", "expired"}
    /\ timer # "never" => ftpState \in Waiting
    /\ server \in BOOLEAN /\ blocking \in BOOLEAN /\ direction \in Puts \cup Gets
    /\ opened \in BOOLEAN /\ size \in Chunks
    /\ ftpState \in Busy \ {"cQuit"} => opened
    /\ fileBuffer \in BOOLEAN /\ fileBufferSize \in BOOLEAN
    /\ fileBuffer => fileBufferSize
    /\ dataUp \in BOOLEAN /\ unread \in Chunks
    /\ bytesTransfered \in Chunks /\ sent \in Chunks /\ cut \in BOOLEAN

\* FTPClient.cpp:201 says OK of every transfer whose data connection came about;
\* what that is worth: of a get, all that the server sent was read, also what came
\* before it closed the connection; of a put that does not block, all of the file
\* was written unless the server closed it; of a blocking put, that nothing was
\* sent, since :22 has emptied its file.
OkIsWhole ==
    ftpState = "cIdle" /\ status = "OK" =>
        /\ direction \in Gets => bytesTransfered = sent
        /\ direction = "FTP_PUT_NONBLOCKING" => bytesTransfered = size \/ cut
        /\ direction = "FTP_PUT" => bytesTransfered = 0

\* FTPClient.h:5 "returns only after transfer complete (or error)": that a transfer
\* comes to its end, and a blocking call returns, can be prevented by no silence of
\* the server but that on an open data connection of a get, which has no timer
\* (FTPClient.cpp:176), by 227s that name no address, each of which starts the
\* timer anew (:136), or by a begin() that was forgotten (:61).
TransferComesToEnd ==
    \/ []<>(ftpState \in Over /\ ~blocking)
    \/ <>[](ftpState = "cTransfer" /\ direction \in Gets /\ dataUp)
    \/ []<><<handlePassiveAgain>>_cvars
    \/ <>[]~server
=============================================================================

------------------------- MODULE FtpTransferProofs --------------------------
(***************************************************************************)
(* Theorems about the transfers of the FTP server for polite clients: the  *)
(* values of all variables, and that a transfer the server ends is whole.  *)
(***************************************************************************)
EXTENDS FtpProofs

\* The buffer is there or not, and so are its size and its lack.
Buffered == fileBuffer \in BOOLEAN /\ fileBufferSize \in BOOLEAN /\ starved \in BOOLEAN

USE DEF session, buffer, transfer, conns, names, Buffered

ControlTyped ==
    /\ pc \in {"control", "watch"}
    /\ cmdState \in CmdStates /\ aTimeout \in {"running", "expired"}
    /\ control \in BOOLEAN /\ authed \in BOOLEAN
    /\ command \in Lines \cup {None} \cup {[name |-> n, par |-> None] : n \in {"PWD", "CDUP"}}
    /\ command # None => command.name \in {"QUIT", "PWD", "CDUP", "LIST", "RETR", "STOR"}
    /\ input \in Lines \cup {None}
    /\ owed <= 2

Sizes == 0 .. MaxSize

TransferTyped ==
    /\ fresh \in BOOLEAN /\ Buffered /\ dataPassiveConn \in BOOLEAN
    /\ transferState \in {"tIdle", "tRetrieve", "tStore"}
    /\ file \in [mode : {"closed", "r", "w", "dir"}, path : Names \cup {None},
                 size : Sizes, pos : Sizes]
    /\ bytesTransfered \in Sizes
    /\ data \in [up : BOOLEAN, unread : Sizes, received : Sizes]
    /\ knocks \in Seq(BOOLEAN) /\ Len(knocks) <= MaxKnocks
    /\ fs \in [Names -> Nodes]

NamesTyped == cwd \in Names /\ rnFrom \in Names \cup {None}

\* A handle has room for what has arrived.
Room ==
    /\ file.mode = "closed" => file = Closed
    /\ file.mode = "w" => file.size + data.unread <= MaxSize

\* A file that the waiting RETR or STOR opened itself was not used yet.
Unused ==
    command # None /\ fresh =>
       /\ command.name = "STOR" => file.mode \in {"w", "dir"} /\ file.size = 0
       /\ command.name = "RETR" => file.mode = "r" /\ file.pos = 0

\* What a transfer moved is what it counts, and what it found on its own file: a
\* transfer whose file was closed for want of memory has no connection either.
Counted ==
    /\ transferState = "tStore" =>
          /\ bytesTransfered + data.unread = data.received
          /\ ~FsFull /\ fresh /\ file.mode = "w" => file.size + data.unread = data.received
    /\ transferState = "tRetrieve" /\ fresh /\ data.up =>
          file.mode = "r" /\ file.pos = bytesTransfered /\ file.pos <= file.size

Moving == Room /\ Unused /\ Counted

Inv == Accounts /\ ControlTyped /\ TransferTyped /\ NamesTyped /\ Moving

LEMMA TypedIsTypeOK == Inv => FtpTypeOK
<1> SUFFICES ASSUME Inv PROVE FtpTypeOK
  OBVIOUS
<1>1. owed \in -2 .. 2
  <2>1. owed \in Int /\ owed >= 0
    BY DEF Inv, Accounts, Balance, Due, One
  <2> QED
    BY <2>1 DEF Inv, ControlTyped
<1> QED
  BY <1>1 DEF Inv, ControlTyped, TransferTyped, NamesTyped, Sizes, FtpTypeOK

-----------------------------------------------------------------------------
(* Helpers *)

LEMMA NodeFacts ==
    /\ Absent \in Nodes /\ Directory \in Nodes
    /\ \A n \in Sizes : FileOf(n) \in Nodes /\ FileOf(n).size = n
    /\ \A x \in Nodes : x.size \in Sizes
<1>1. Absent.size = 0 /\ Directory.size = 0 /\ 0 \in Sizes
  BY BoundsAssumption DEF Absent, Directory, Sizes
<1>2. \A n : FileOf(n).size = n
  BY DEF FileOf
<1>3. Absent \in Nodes /\ Directory \in Nodes /\ \A n \in Sizes : FileOf(n) \in Nodes
  BY DEF Nodes, Sizes
<1>4. ASSUME NEW x \in Nodes PROVE x.size \in Sizes
  <2>1. x = Absent \/ x = Directory \/ \E n \in Sizes : x = FileOf(n)
    BY DEF Nodes, Sizes
  <2> QED
    BY <1>1, <1>2, <2>1
<1> QED
  BY <1>2, <1>3, <1>4

LEMMA FlushTyped ==
    ASSUME NEW h, h.size \in Sizes, NEW g \in [Names -> Nodes]
    PROVE  Flushed(h, g) \in [Names -> Nodes]
  BY NodeFacts DEF Flushed

\* A file that is closed leaves nothing behind but its content.
LEMMA Closing ==
    ASSUME TransferTyped, Room, CloseFile
    PROVE  /\ file' = Closed /\ fs' \in [Names -> Nodes]
           /\ file' \in [mode : {"closed", "r", "w", "dir"}, path : Names \cup {None},
                         size : Sizes, pos : Sizes]
<1>1. file.size \in Sizes /\ fs \in [Names -> Nodes] /\ 0 \in Sizes
  BY BoundsAssumption DEF TransferTyped, Sizes
<1>2. file' = Closed /\ fs' = Flushed(file, fs)
  BY DEF CloseFile, Closes
<1> QED
  BY <1>1, <1>2, FlushTyped DEF Closed

LEMMA DownTyped == Down \in [up : BOOLEAN, unread : Sizes, received : Sizes] /\ Down.unread = 0
  BY BoundsAssumption DEF Down, Sizes

LEMMA Connecting ==
    ASSUME TransferTyped, Room, NEW c, NEW o \in dataConnect(c)
    PROVE  /\ o.data \in [up : BOOLEAN, unread : Sizes, received : Sizes]
           /\ o.knocks \in Seq(BOOLEAN) /\ Len(o.knocks) <= MaxKnocks
           /\ o.rc \in {-1, 0, 1}
           /\ o.rc = 1 => o.data.received = o.data.unread
           /\ file.mode = "w" => file.size + o.data.unread <= MaxSize
<1>1. /\ MaxSize \in Nat /\ 0 \in Sizes /\ file.size \in Sizes
      /\ knocks \in Seq(BOOLEAN) /\ Len(knocks) <= MaxKnocks
      /\ data \in [up : BOOLEAN, unread : Sizes, received : Sizes]
      /\ file.mode = "w" => file.size + data.unread <= MaxSize
      /\ \A n \in Sizes : n \in Nat /\ n <= MaxSize
  BY BoundsAssumption DEF TransferTyped, Room, Sizes
<1> DEFINE open == [Down EXCEPT !.up = TRUE]
<1>2. /\ open \in [up : BOOLEAN, unread : Sizes, received : Sizes]
      /\ open.unread = 0 /\ open.received = 0
  BY <1>1 DEF Down
<1>3. CASE ~dataPassiveConn
  <2>1. /\ o.data \in {open, Down}
        /\ o.knocks = knocks /\ o.rc \in {1, -1}
        /\ o.rc = 1 => o.data = open
    <3> HIDE DEF open
    <3>1. o = [rc |-> 1, data |-> open, knocks |-> knocks]
          \/ o = [rc |-> -1, data |-> Down, knocks |-> knocks]
      BY <1>3 DEF dataConnect, open
    <3> QED
      BY <3>1
  <2> HIDE DEF open
  <2> QED
    BY <1>1, <1>2, <2>1, DownTyped
<1>4. CASE dataPassiveConn /\ DataConnected
  <2>1. o.rc = 1 /\ o.data = [data EXCEPT !.received = data.unread] /\ o.knocks = knocks
    BY <1>4 DEF dataConnect
  <2> QED
    BY <1>1, <2>1
<1>5. CASE dataPassiveConn /\ ~DataConnected /\ knocks = <<>>
  <2>1. o.rc = 0 /\ o.data = data /\ o.knocks = knocks
    BY <1>5 DEF dataConnect
  <2> QED
    BY <1>1, <2>1
<1>6. CASE dataPassiveConn /\ ~DataConnected /\ knocks # <<>>
  <2>1. PICK n \in IF c.name = "STOR" THEN 0 .. MaxSize - file.size ELSE {0} :
           o = [rc |-> 1, knocks |-> Tail(knocks),
                data |-> [up |-> Head(knocks), unread |-> n, received |-> n]]
    BY <1>6 DEF dataConnect
  <2>2. Head(knocks) \in BOOLEAN /\ Tail(knocks) \in Seq(BOOLEAN) /\ Len(Tail(knocks)) <= MaxKnocks
    BY <1>1, <1>6, BoundsAssumption
  <2>3. n \in Sizes /\ file.size + n <= MaxSize
    BY <1>1, <2>1 DEF Sizes
  <2> QED
    BY <2>1, <2>2, <2>3
<1> QED
  BY <1>3, <1>4, <1>5, <1>6

-----------------------------------------------------------------------------
(* Commands *)

Readable == Lines \cup {[name |-> n, par |-> None] : n \in {"PWD", "CDUP"}}

LEMMA LineShape ==
    ASSUME NEW c \in Readable
    PROVE  /\ c.name \in WithPath \ {"CWD"} => c.par \in Names \cup {None}
           /\ c.name = "CWD" => c.par \in Names \cup {None, ".", ".."}
  BY DEF Readable, Lines, WithPath, Plain

LEMMA CommandControl ==
    ASSUME ControlTyped, owed \in Int, NEW c \in Readable, TakeLine, processCommand(c)
    PROVE  ControlTyped'
<1> USE DEF ControlTyped, CmdStates
<1>1. ASSUME NEW n \in Nat, Finished(n) PROVE ControlTyped'
  BY <1>1 DEF Finished, TakeLine
<1>2. ASSUME Cleared PROVE ControlTyped'
  BY <1>2 DEF Cleared, TakeLine
<1>3. ASSUME NEW d \in Readable, d.name \in {"PWD", "CDUP", "LIST", "RETR", "STOR"}, Again(d)
      PROVE  ControlTyped'
  BY <1>3 DEF Again, Readable, TakeLine
<1>4. Aborted \in Nat
  BY DEF Aborted
<1>5. CASE USER(c)
  BY <1>1, <1>2, <1>5 DEF USER, TakeLine
<1>6. CASE PASS(c)
  BY <1>1, <1>2, <1>6 DEF PASS, TakeLine
<1>7. CASE QUIT(c)
  <2>1. owed' <= 2
    BY <1>4, <1>7 DEF QUIT
  <2>2. /\ pc' = "control" /\ cmdState' = "cInit" /\ control' = FALSE
        /\ command' = c /\ c.name = "QUIT" /\ UNCHANGED <<aTimeout, authed>>
    BY <1>7 DEF QUIT
  <2> QED
    BY <2>1, <2>2 DEF TakeLine, Readable
<1>8. CASE NOOP(c) \/ CDUP(c) \/ SIZE(c) \/ PASV(c) \/ PORT(c) \/ DELE(c) \/ MKD(c) \/ RMD(c)
           \/ RNFR(c) \/ RNTO(c)
  BY <1>1, <1>8 DEF NOOP, CDUP, SIZE, PASV, PORT, DELE, MKD, RMD, RNFR, RNTO
<1>9. CASE FEAT(c)
  BY <1>2, <1>9 DEF FEAT
<1>10. CASE ABOR(c)
  <2>1. Finished(1 + Aborted) /\ 1 + Aborted \in Nat
    BY <1>4, <1>10 DEF ABOR
  <2> QED
    BY <1>1, <2>1
<1>11. CASE CWD(c)
  <2> DEFINE pwd == [name |-> "PWD", par |-> None]
             cdup == [name |-> "CDUP", par |-> None]
  <2>1. pwd \in Readable /\ cdup \in Readable /\ pwd.name = "PWD" /\ cdup.name = "CDUP"
    BY DEF Readable
  <2>2. Finished(1) \/ Again(pwd) \/ Again(cdup)
    BY <1>11 DEF CWD
  <2> QED
    BY <2>1, <2>2, <1>1, <1>3
<1>12. CASE LIST(c)
  <2>1. Finished(1) \/ Again(c)
    BY <1>12 DEF LIST
  <2> QED
    BY <1>1, <1>3, <1>12, <2>1 DEF LIST
<1>13. CASE RETR(c) \/ STOR(c)
  <2>1. Finished(0) \/ Finished(1) \/ Again(c)
    BY <1>13 DEF RETR, STOR, NoTransfer, BeginTransfer, Surplus
  <2>2. c.name \in {"RETR", "STOR"}
    BY <1>13 DEF RETR, STOR
  <2> QED
    BY <1>1, <1>3, <2>1, <2>2
<1> QED
  BY <1>5, <1>6, <1>7, <1>8, <1>9, <1>10, <1>11, <1>12, <1>13 DEF processCommand

Records == TransferTyped /\ NamesTyped

\* A command that starts no transfer: what is left of handle and data.
LEMMA IdleAfter ==
    ASSUME Records, Room, transferState' = "tIdle",
           file' = Closed \/ UNCHANGED file
             \/ (\E p \in Names : file' = Unnamed(p)),
           data' = Down \/ UNCHANGED data,
           command' = None \/ command'.name \notin {"RETR", "STOR"}
    PROVE  Moving' /\ file' \in [mode : {"closed", "r", "w", "dir"}, path : Names \cup {None},
                                 size : Sizes, pos : Sizes]
                   /\ data' \in [up : BOOLEAN, unread : Sizes, received : Sizes]
<1>1. file' \in [mode : {"closed", "r", "w", "dir"}, path : Names \cup {None},
                 size : Sizes, pos : Sizes]
  BY BoundsAssumption DEF Records, TransferTyped, Closed, Unnamed, Sizes
<1>2. data' \in [up : BOOLEAN, unread : Sizes, received : Sizes]
      /\ (data'.unread = 0 \/ UNCHANGED data)
  BY DownTyped DEF Records, TransferTyped
<1>3. file' = Closed \/ (file'.mode = file.mode /\ file'.size = file.size)
  BY DEF Records, TransferTyped, Unnamed
<1>4. file'.mode = "closed" => file' = Closed
  BY NamesAssumption DEF Room, Closed, Unnamed, Records, TransferTyped
<1>5. file'.mode = "w" => file'.size + data'.unread <= MaxSize
  <2>1. file'.mode = "w" => file.mode = "w" /\ file'.size = file.size
    BY <1>3 DEF Closed
  <2>2. file.mode = "w" => file.size + data.unread <= MaxSize /\ file.size + 0 <= MaxSize
    BY DEF Room, Records, TransferTyped, Sizes
  <2> QED
    BY <1>2, <2>1, <2>2
<1>6. Unused' /\ Counted'
  BY DEF Unused, Counted
<1> QED
  BY <1>1, <1>2, <1>4, <1>5, <1>6 DEF Moving, Room

\* The commands about names and connections.
LEMMA PlainCommand ==
    ASSUME Records, Moving, NEW c \in Readable, transferState # "tIdle" => c.name = "ABOR",
           \/ USER(c) \/ PASS(c) \/ QUIT(c) \/ NOOP(c) \/ FEAT(c) \/ CDUP(c) \/ CWD(c)
           \/ SIZE(c) \/ PASV(c) \/ PORT(c) \/ ABOR(c) \/ DELE(c) \/ MKD(c)
           \/ RMD(c) \/ RNFR(c) \/ RNTO(c)
    PROVE  Records' /\ Moving'
<1> USE DEF Moving
<1>1. PathOf(c) \in Names \/ c.name \notin WithPath \/ c.par \in {".", ".."}
  BY LineShape DEF PathOf, Records, NamesTyped
<1>2. CASE USER(c) \/ PASS(c) \/ NOOP(c) \/ FEAT(c) \/ CDUP(c) \/ RNFR(c)
  <2>1. FilesKept /\ command' = None /\ transferState = "tIdle"
    BY <1>2 DEF USER, PASS, NOOP, FEAT, CDUP, RNFR, Finished, Cleared
  <2>2. Moving'
    BY <2>1, IdleAfter DEF FilesKept
  <2>3. TransferTyped'
    BY <2>1 DEF FilesKept, Records, TransferTyped
  <2>4. NamesTyped'
    BY <1>2, LineShape, NamesAssumption DEF USER, PASS, NOOP, FEAT, CDUP, RNFR, NamesKept, Records, NamesTyped, WithPath
  <2> QED
    BY <2>2, <2>3, <2>4 DEF Records
<1>3. CASE CWD(c) \/ SIZE(c)
  <2>1. transferState' = "tIdle" /\ UNCHANGED <<conns, buffer, bytesTransfered>> /\ fresh' \in BOOLEAN
        /\ (command' = None \/ command'.name \notin {"RETR", "STOR"})
    <3>1. \/ command' = None
          \/ command' = [name |-> "PWD", par |-> None]
          \/ command' = [name |-> "CDUP", par |-> None]
      BY <1>3 DEF CWD, SIZE, Again, Finished
    <3>2. transferState = "tIdle" /\ UNCHANGED transferState
      BY <1>3 DEF CWD, SIZE, FilesKept
    <3>3. UNCHANGED <<conns, buffer, bytesTransfered>> /\ fresh' \in BOOLEAN
      BY <1>3 DEF CWD, SIZE, FilesKept, Records, TransferTyped
    <3> QED
      BY <3>1, <3>2, <3>3
  <2>2. CloseFile \/ UNCHANGED <<file, fs>>
    BY <1>3 DEF CWD, SIZE, FilesKept
  <2>3. Moving' /\ TransferTyped'
    <3>1. (file' = Closed \/ UNCHANGED file) /\ fs' \in [Names -> Nodes]
      BY <2>2, Closing DEF Records, TransferTyped
    <3>2. Moving' /\ file' \in [mode : {"closed", "r", "w", "dir"}, path : Names \cup {None},
                                size : Sizes, pos : Sizes]
      BY <2>1, <3>1, IdleAfter
    <3> QED
      BY <2>1, <3>1, <3>2 DEF Records, TransferTyped
  <2>4. NamesTyped'
    BY <1>3, <1>1, LineShape DEF CWD, SIZE, NamesKept, Records, NamesTyped, WithPath
  <2> QED
    BY <2>3, <2>4 DEF Records
<1>4. CASE PASV(c) \/ PORT(c)
  <2>1. /\ transferState' = "tIdle" /\ data' = Down /\ command' = None
        /\ UNCHANGED <<file, fs, knocks, transfer, cwd, rnFrom>>
        /\ dataPassiveConn' \in BOOLEAN
    BY <1>4 DEF PASV, PORT, Finished, NamesKept, Records, TransferTyped
  <2>2. Moving'
    BY <2>1, IdleAfter
  <2> QED
    BY <2>1, <2>2, DownTyped DEF Records, TransferTyped, NamesTyped
<1>5. CASE QUIT(c) \/ ABOR(c)
  <2>1. /\ transferState' = "tIdle" /\ Buffered'
        /\ UNCHANGED <<bytesTransfered, fresh, knocks, dataPassiveConn, cwd, rnFrom>>
        /\ command' = None \/ command'.name \notin {"RETR", "STOR"}
        /\ \/ CloseFile /\ data' = Down
           \/ UNCHANGED <<file, fs, data>>
    BY <1>5 DEF QUIT, ABOR, abortTransfer, freeBuffer, NamesKept, Finished, Records, TransferTyped
  <2>2. (file' = Closed \/ UNCHANGED file) /\ fs' \in [Names -> Nodes] /\ (data' = Down \/ UNCHANGED data)
    BY <2>1, Closing DEF Records, TransferTyped
  <2>3. Moving' /\ file' \in [mode : {"closed", "r", "w", "dir"}, path : Names \cup {None},
                              size : Sizes, pos : Sizes]
                /\ data' \in [up : BOOLEAN, unread : Sizes, received : Sizes]
    BY <2>1, <2>2, IdleAfter
  <2> QED
    BY <2>1, <2>2, <2>3 DEF Records, TransferTyped, NamesTyped
<1>6. CASE DELE(c) \/ MKD(c) \/ RMD(c) \/ RNTO(c)
  <2>1. /\ transferState' = "tIdle" /\ command' = None
        /\ UNCHANGED <<conns, transfer, cwd>> /\ rnFrom' \in {rnFrom, None}
    BY <1>6 DEF DELE, MKD, RMD, RNTO, NamesKept, Finished
  <2>2. (UNCHANGED file \/ \E p \in Names : file' = Unnamed(p)) /\ fs' \in [Names -> Nodes]
    <3> USE NodeFacts DEF Records, TransferTyped, NamesTyped
    <3>1. PathOf(c) \in Names
      BY <1>1, <1>6, LineShape DEF DELE, MKD, RMD, RNTO, WithPath, PathOf
    <3>2. CASE DELE(c)
      BY <3>1, <3>2 DEF DELE, PathOf
    <3>3. CASE MKD(c)
      BY <3>1, <3>3 DEF MKD
    <3>4. CASE RMD(c)
      BY <3>1, <3>4 DEF RMD
    <3>5. CASE RNTO(c)
      BY <3>1, <3>5 DEF RNTO, NotRenamed, PathOf
    <3> QED
      BY <1>6, <3>2, <3>3, <3>4, <3>5
  <2>3. Moving' /\ file' \in [mode : {"closed", "r", "w", "dir"}, path : Names \cup {None},
                              size : Sizes, pos : Sizes]
    BY <2>1, <2>2, IdleAfter
  <2> QED
    BY <2>1, <2>2, <2>3 DEF Records, TransferTyped, NamesTyped
<1> QED
  BY <1>2, <1>3, <1>4, <1>5, <1>6

Handles == [mode : {"closed", "r", "w", "dir"}, path : Names \cup {None}, size : Sizes, pos : Sizes]

LEMMA Opening ==
    ASSUME Records, NEW p \in Names
    PROVE  /\ OpenedToRead(p) \in Handles /\ OpenedToRead(p).pos = 0
           /\ OpenedToRead(p).mode # "w"
           /\ OpenedToRead(p).mode = "closed" => OpenedToRead(p) = Closed
           /\ OpenedToWrite(p) \in Handles /\ OpenedToWrite(p).size = 0
           /\ OpenedToWrite(p).mode \in {"w", "dir"}
           /\ Emptied(p) \in [Names -> Nodes]
<1>1. fs[p] \in Nodes /\ fs[p].size \in Sizes /\ 0 \in Sizes
  BY NodeFacts, BoundsAssumption DEF Records, TransferTyped, Sizes
<1>2. \/ OpenedToRead(p) = [mode |-> "r", path |-> p, size |-> fs[p].size, pos |-> 0]
      \/ OpenedToRead(p) = [mode |-> "dir", path |-> p, size |-> 0, pos |-> 0]
      \/ OpenedToRead(p) = Closed
  BY DEF OpenedToRead
<1>3. OpenedToRead(p) \in Handles /\ OpenedToRead(p).pos = 0 /\ OpenedToRead(p).mode # "w"
      /\ (OpenedToRead(p).mode = "closed" => OpenedToRead(p) = Closed)
  BY <1>1, <1>2 DEF Handles, Closed
<1>4. OpenedToWrite(p) \in Handles /\ OpenedToWrite(p).size = 0
      /\ OpenedToWrite(p).mode \in {"w", "dir"}
  BY <1>1 DEF OpenedToWrite, Handles
<1>5. Emptied(p) \in [Names -> Nodes]
  BY <1>1, NodeFacts DEF Emptied, Records, TransferTyped
<1> QED
  BY <1>3, <1>4, <1>5

\* What BeginTransfer leaves of the connections, the file and the transfer.
LEMMA Beginning ==
    ASSUME Records, Moving, NEW c, NEW s \in {"tRetrieve", "tStore"}, c # None,
           NEW h \in Handles, h.mode # "closed", h.mode = "w" => h.size = 0 \/ h = file,
           NEW g \in [Names -> Nodes],
           transferState = "tIdle", BeginTransfer(c, s, h, g)
    PROVE  /\ data' \in [up : BOOLEAN, unread : Sizes, received : Sizes]
           /\ knocks' \in Seq(BOOLEAN) /\ Len(knocks') <= MaxKnocks
           /\ Buffered' /\ bytesTransfered' \in Sizes
           /\ transferState' \in {"tIdle", s} /\ command' \in {None, c}
           /\ file' \in {h, Closed} /\ (command' # None => file' = h)
           /\ file' \in Handles /\ fs' \in [Names -> Nodes]
           /\ Room'
           /\ transferState' = s => /\ bytesTransfered' = 0 /\ command' = None
                                    /\ data'.received = data'.unread
                                    /\ data'.up => file' = h
                                    /\ file'.mode = "w" => file' = h
<1>1. PICK o \in dataConnect(c) :
        /\ knocks' = o.knocks
        /\ \/ /\ o.rc = 1 /\ Finished(0)
              /\ Allocated \/ (NotAllocated /\ fileBufferSize)
              /\ transferState' = s /\ CountReset
              /\ data' = o.data /\ file' = h /\ fs' = g
           \/ /\ o.rc = 1 /\ Finished(2 - Surplus)
              /\ NotAllocated /\ ~fileBufferSize
              /\ transferState' = s /\ CountReset
              /\ data' = Down /\ Closes(h, g)
           \/ /\ o.rc = 0 /\ Again(c)
              /\ data' = o.data /\ file' = h /\ fs' = g
              /\ UNCHANGED <<transferState, bytesTransfered, buffer>>
           \/ /\ o.rc = -1 /\ Finished(1)
              /\ data' = o.data
              /\ IF s = "tStore" THEN Closes(h, g) ELSE file' = h /\ fs' = g
              /\ UNCHANGED <<transferState, bytesTransfered, buffer>>
  BY DEF BeginTransfer
<1>2. /\ o.data \in [up : BOOLEAN, unread : Sizes, received : Sizes]
      /\ o.knocks \in Seq(BOOLEAN) /\ Len(o.knocks) <= MaxKnocks
      /\ o.rc = 1 => o.data.received = o.data.unread
      /\ file.mode = "w" => file.size + o.data.unread <= MaxSize
  BY Connecting DEF Records, Moving
<1>3. 0 \in Sizes /\ bytesTransfered \in Sizes /\ Buffered
      /\ \A n \in Sizes : 0 + n = n /\ n <= MaxSize
  BY BoundsAssumption DEF Sizes, Records, TransferTyped
<1>4. Down \in [up : BOOLEAN, unread : Sizes, received : Sizes]
      /\ Down.unread = 0 /\ Down.received = 0 /\ ~Down.up
      /\ Closed \in Handles /\ Closed.mode = "closed"
      /\ Flushed(h, g) \in [Names -> Nodes]
  BY <1>3, DownTyped, FlushTyped DEF Down, Closed, Handles
<1>5. h.mode = "w" => h.size + o.data.unread <= MaxSize
  BY <1>2, <1>3
<1>6. /\ transferState' \in {"tIdle", s} /\ command' \in {None, c}
      /\ (command' # None => o.rc = 0)
      /\ bytesTransfered' \in Sizes /\ Buffered'
      /\ transferState' = s => o.rc = 1 /\ bytesTransfered' = 0
  BY <1>1, <1>3 DEF CountReset, Finished, Again, Allocated, NotAllocated
<1>7. \/ data' = o.data /\ file' = h /\ fs' = g
      \/ data' = Down /\ file' = Closed /\ fs' = Flushed(h, g) /\ o.rc = 1
      \/ data' = o.data /\ file' = Closed /\ fs' = Flushed(h, g) /\ o.rc = -1
  BY <1>1 DEF Closes
<1>8. /\ data' \in [up : BOOLEAN, unread : Sizes, received : Sizes]
      /\ file' \in {h, Closed} /\ file' \in Handles /\ fs' \in [Names -> Nodes]
      /\ o.rc = 0 => file' = h
      /\ o.rc = 1 => data'.received = data'.unread /\ (data'.up => file' = h)
      /\ file'.mode = "w" => file' = h /\ data' = o.data
  BY <1>2, <1>4, <1>7
<1>9. Room'
  BY <1>4, <1>5, <1>8 DEF Room
<1> QED
  BY <1>1, <1>2, <1>6, <1>8, <1>9

LEMMA ListCommand ==
    ASSUME Records, Moving, NEW c, transferState = "tIdle", LIST(c)
    PROVE  Records' /\ Moving'
<1>1. PICK o \in dataConnect(c) :
        /\ knocks' = o.knocks
        /\ \/ o.rc = 0 /\ Again(c)
           \/ o.rc # 0 /\ Finished(1)
        /\ IF o.rc = 1 /\ Entries(PathOf(c)) # {}
             THEN CloseFile /\ fresh' = FALSE ELSE UNCHANGED <<file, fs, fresh>>
  BY DEF LIST
<1>2. c.name = "LIST" /\ data' = Down /\ UNCHANGED <<cwd, rnFrom, dataPassiveConn>>
      /\ UNCHANGED <<transferState, bytesTransfered, buffer>>
  BY DEF LIST, NamesKept
<1>3. o.knocks \in Seq(BOOLEAN) /\ Len(o.knocks) <= MaxKnocks
  BY Connecting DEF Records, Moving
<1>4. command' = None \/ command'.name \notin {"RETR", "STOR"}
  BY <1>1, <1>2 DEF Again, Finished
<1>5. (file' = Closed \/ UNCHANGED file) /\ fs' \in [Names -> Nodes] /\ fresh' \in BOOLEAN
  BY <1>1, Closing DEF Records, TransferTyped, Moving
<1>6. Moving' /\ file' \in Handles /\ data' \in [up : BOOLEAN, unread : Sizes, received : Sizes]
  BY <1>2, <1>4, <1>5, IdleAfter DEF Handles, Moving
<1> QED
  BY <1>1, <1>2, <1>3, <1>5, <1>6 DEF Records, TransferTyped, NamesTyped, Handles

\* Neither RETR nor STOR began: at most a file was opened or closed.
LEMMA NotBegun ==
    ASSUME Records, Moving, NoTransfer, transferState = "tIdle",
           file' \in Handles, file'.mode = "closed" => file' = Closed,
           file'.mode = "w" => file' = file,
           fs' \in [Names -> Nodes], fresh' \in BOOLEAN, UNCHANGED <<dataPassiveConn, cwd, rnFrom>>
    PROVE  Records' /\ Moving'
<1>1. command' = None /\ UNCHANGED <<data, knocks, transferState, bytesTransfered, buffer>>
  BY DEF NoTransfer, Finished
<1>2. Unused' /\ Counted'
  BY <1>1 DEF Unused, Counted
<1>3. Room'
  BY <1>1 DEF Room, Moving
<1> QED
  BY <1>1, <1>2, <1>3 DEF Moving, Records, TransferTyped, NamesTyped, Handles

LEMMA RetrCommand ==
    ASSUME Records, Moving, NEW c \in Readable, c # None, transferState = "tIdle",
           command # None => c = command, RETR(c)
    PROVE  Records' /\ Moving'
<1> USE DEF Moving
<1>1. c.name = "RETR" /\ UNCHANGED <<cwd, rnFrom, dataPassiveConn>>
      /\ (c.par = None \/ c.par \in Names) /\ file \in Handles /\ fs \in [Names -> Nodes]
  BY LineShape DEF RETR, NamesKept, WithPath, Records, TransferTyped, Handles
<1>2. CASE c.par = None
  BY <1>1, <1>2, NotBegun DEF RETR, Records, TransferTyped, Room
<1>3. CASE c.par # None
  <2> DEFINE h == IF Reused THEN file ELSE OpenedToRead(c.par)
  <2>1. StillFresh /\ IF h.mode \in {"closed", "dir"}
                        THEN NoTransfer /\ file' = h /\ UNCHANGED fs
                        ELSE BeginTransfer(c, "tRetrieve", h, fs)
    BY <1>3 DEF RETR
  <2>2. /\ h \in Handles /\ (h.mode = "closed" => h = Closed)
        /\ h.mode = "w" => h = file
        /\ fresh' \in BOOLEAN
    BY <1>1, <1>3, <2>1, Opening DEF Room, StillFresh, Records, TransferTyped
  <2>3. h.mode \notin {"closed", "dir"} /\ fresh' => h.mode = "r" /\ h.pos = 0
    <3>1. CASE Reused
      BY <1>1, <2>1, <3>1 DEF StillFresh, Unused
    <3>2. CASE ~Reused
      BY <1>1, <1>3, <2>2, <3>2, Opening DEF Handles
    <3> QED
      BY <3>1, <3>2
  <2> HIDE DEF h
  <2>4. CASE h.mode \in {"closed", "dir"}
    BY <1>1, <2>1, <2>2, <2>4, NotBegun
  <2>5. CASE h.mode \notin {"closed", "dir"}
    <3>1. BeginTransfer(c, "tRetrieve", h, fs)
      BY <2>1, <2>5
    <3>2. /\ data' \in [up : BOOLEAN, unread : Sizes, received : Sizes]
          /\ knocks' \in Seq(BOOLEAN) /\ Len(knocks') <= MaxKnocks
          /\ Buffered' /\ bytesTransfered' \in Sizes
          /\ transferState' \in {"tIdle", "tRetrieve"} /\ command' \in {None, c}
          /\ (command' # None => file' = h)
          /\ file' \in Handles /\ fs' \in [Names -> Nodes] /\ Room'
          /\ transferState' = "tRetrieve" => bytesTransfered' = 0 /\ (data'.up => file' = h)
      BY <1>1, <2>2, <2>5, <3>1, Beginning
    <3>3. h.size \in Sizes /\ \A n \in Sizes : 0 <= n
      BY <2>2 DEF Handles, Sizes
    <3>4. Unused'
      BY <1>1, <2>3, <2>5, <3>2 DEF Unused
    <3>5. Counted'
      BY <2>3, <2>5, <3>2, <3>3 DEF Counted
    <3> QED
      BY <1>1, <2>2, <3>2, <3>4, <3>5 DEF Records, TransferTyped, NamesTyped, Handles
  <2> QED
    BY <2>4, <2>5
<1> QED
  BY <1>2, <1>3

LEMMA StorCommand ==
    ASSUME Records, Moving, NEW c \in Readable, c # None, transferState = "tIdle",
           command # None => c = command, STOR(c)
    PROVE  Records' /\ Moving'
<1> USE DEF Moving
<1>1. c.name = "STOR" /\ UNCHANGED <<cwd, rnFrom, dataPassiveConn>>
      /\ (c.par = None \/ c.par \in Names) /\ file \in Handles /\ fs \in [Names -> Nodes]
  BY LineShape DEF STOR, NamesKept, WithPath, Records, TransferTyped, Handles
<1>2. CASE NoTransfer /\ UNCHANGED <<file, fs, fresh>>
  BY <1>1, <1>2, NotBegun DEF Records, TransferTyped, Room
<1> DEFINE h == IF Reused THEN file ELSE OpenedToWrite(c.par)
           g == IF Reused THEN fs ELSE Emptied(c.par)
<1>3. CASE c.par # None /\ StillFresh /\ BeginTransfer(c, "tStore", h, g)
  <2>1. /\ OpenedToWrite(c.par) \in Handles /\ OpenedToWrite(c.par).size = 0
        /\ OpenedToWrite(c.par).mode \in {"w", "dir"}
        /\ Emptied(c.par) \in [Names -> Nodes]
    BY <1>1, <1>3, Opening
  <2>2. /\ h \in Handles /\ h.mode # "closed" /\ g \in [Names -> Nodes]
        /\ h.mode = "w" => h.size = 0 \/ h = file
    BY <1>1, <2>1 DEF Reused
  <2>3. fresh' => h.mode \in {"w", "dir"} /\ h.size = 0
    <3>1. CASE Reused
      <4>1. fresh' => command # None /\ fresh
        BY <1>3, <3>1 DEF StillFresh
      <4> QED
        BY <1>1, <3>1, <4>1 DEF Unused
    <3>2. CASE ~Reused
      BY <2>1, <3>2
    <3> QED
      BY <3>1, <3>2
  <2>4. fresh' \in BOOLEAN
    BY <1>3 DEF StillFresh, Records, TransferTyped
  <2> HIDE DEF h, g
  <2>5. /\ data' \in [up : BOOLEAN, unread : Sizes, received : Sizes]
        /\ knocks' \in Seq(BOOLEAN) /\ Len(knocks') <= MaxKnocks
        /\ Buffered' /\ bytesTransfered' \in Sizes
        /\ transferState' \in {"tIdle", "tStore"} /\ command' \in {None, c}
        /\ (command' # None => file' = h)
        /\ file' \in Handles /\ fs' \in [Names -> Nodes] /\ Room'
        /\ transferState' = "tStore" => /\ bytesTransfered' = 0
                                        /\ data'.received = data'.unread
                                        /\ file'.mode = "w" => file' = h
    BY <1>3, <2>2, Beginning
  <2>6. Unused'
    BY <1>1, <2>3, <2>5 DEF Unused
  <2>7. Counted'
    <3>1. \A n \in Sizes : 0 + n = n
      BY BoundsAssumption DEF Sizes
    <3> QED
      BY <2>3, <2>5, <3>1 DEF Counted
  <2> QED
    BY <1>1, <2>4, <2>5, <2>6, <2>7 DEF Records, TransferTyped, NamesTyped, Handles
<1> QED
  BY <1>1, <1>2, <1>3 DEF STOR

-----------------------------------------------------------------------------
(* Steps *)

LEMMA ProcessKeeps == ASSUME Inv, Process PROVE Inv'
<1> DEFINE c == Current
<1>1. Reading /\ c # None /\ TakeLine /\ processCommand(c)
  BY DEF Process
<1>2. /\ owed \in Int
      /\ transferState # "tIdle" => c.name = "ABOR"
  BY <1>1, LineTaken DEF Inv
<1>3. c \in Readable /\ (command # None => c = command)
  BY <1>1 DEF Current, Inv, ControlTyped, Readable
<1> HIDE DEF c
<1>4. ControlTyped'
  BY <1>1, <1>2, <1>3, CommandControl DEF Inv
<1>5. Records /\ Moving
  BY DEF Inv, Records
<1>6. Records' /\ Moving'
  <2>1. CASE LIST(c)
    BY <1>2, <1>5, <2>1, ListCommand DEF LIST
  <2>2. CASE RETR(c)
    BY <1>1, <1>2, <1>3, <1>5, <2>2, RetrCommand DEF RETR
  <2>3. CASE STOR(c)
    BY <1>1, <1>2, <1>3, <1>5, <2>3, StorCommand DEF STOR
  <2> QED
    BY <1>1, <1>2, <1>3, <1>5, <2>1, <2>2, <2>3, PlainCommand DEF processCommand
<1> QED
  BY <1>4, <1>6, ProcessAccounts DEF Inv, Records

LEMMA WatchKeeps == ASSUME Inv, Accounts', Watch PROVE Inv'
<1>1. /\ Records /\ Room /\ Counted /\ Unused
      /\ transferState # "tIdle" => command = None
      /\ MaxSize \in Nat
  BY BoundsAssumption DEF Inv, Records, Moving, Watch, Accounts, Balance, OneAtATime
<1>2. /\ pc' = "control" /\ cmdState' \in CmdStates
      /\ UNCHANGED <<control, aTimeout, authed, command, input, fresh, knocks,
                     dataPassiveConn, cwd, rnFrom>>
  BY DEF Watch, Inv, ControlTyped, CmdStates
<1>3. owed' <= owed /\ owed \in Int
  BY DEF Watch, doFiletoNetwork, doNetworkToFile, noTransfer, CloseTransfer, Inv, Accounts, Balance
<1>4. ControlTyped' /\ NamesTyped'
  <2>1. owed' \in Int
    BY DEF Accounts, Balance
  <2> QED
    BY <1>2, <1>3, <2>1 DEF Inv, ControlTyped, NamesTyped
<1>5. CASE CloseTransfer /\ transferState # "tIdle"
  <2>1. /\ file' = Closed /\ fs' \in [Names -> Nodes] /\ data' = Down /\ transferState' = "tIdle"
        /\ Buffered' /\ UNCHANGED bytesTransfered /\ command' = None
    BY <1>1, <1>2, <1>5, Closing DEF CloseTransfer, freeBuffer, Records, TransferTyped
  <2>2. Moving' /\ file' \in Handles /\ data' \in [up : BOOLEAN, unread : Sizes, received : Sizes]
    BY <1>1, <2>1, IdleAfter DEF Handles
  <2> QED
    BY <1>1, <1>2, <1>4, <2>1, <2>2 DEF Inv, Records, TransferTyped, Handles
<1>6. CASE UNCHANGED <<transferState, buffer, bytesTransfered, data, file, fs>>
  BY <1>1, <1>2, <1>4, <1>6 DEF Inv, Records, TransferTyped, Moving, Room, Unused, Counted
<1>7. CASE /\ transferState = "tRetrieve" /\ bytesTransfered < file.size /\ file.mode = "r"
           /\ file.pos < file.size
           /\ bytesTransfered' = bytesTransfered + 1 /\ file' = [file EXCEPT !.pos = @ + 1]
           /\ UNCHANGED <<transferState, buffer, data, fs>>
  <2>1. /\ file' \in Handles /\ file'.mode = "r" /\ file'.pos = file.pos + 1 /\ file'.size = file.size
        /\ bytesTransfered' \in Sizes /\ file'.pos <= file'.size
    BY <1>1, <1>7 DEF Records, TransferTyped, Handles, Sizes
  <2>2. Moving'
    BY <1>1, <1>2, <1>7, <2>1 DEF Moving, Room, Unused, Counted
  <2> QED
    BY <1>1, <1>2, <1>4, <1>7, <2>1, <2>2 DEF Inv, Records, TransferTyped, Handles
<1>8. CASE /\ transferState = "tStore" /\ data.unread > 0
           /\ data' = [data EXCEPT !.unread = @ - 1]
           /\ \E n \in Written : file' = [file EXCEPT !.size = n]
           /\ bytesTransfered' = bytesTransfered + 1
           /\ UNCHANGED <<transferState, buffer, fs>>
  <2>1. PICK n \in Written : file' = [file EXCEPT !.size = n]
    BY <1>8
  <2>2. /\ data.unread \in Nat /\ data.received \in Nat /\ data.received <= MaxSize
        /\ file.size \in Nat /\ file.size <= MaxSize /\ bytesTransfered \in Nat
    BY <1>1 DEF Records, TransferTyped, Sizes
  <2>3. /\ data' \in [up : BOOLEAN, unread : Sizes, received : Sizes]
        /\ data'.unread = data.unread - 1 /\ data'.received = data.received
    BY <1>1, <1>8, <2>2 DEF Records, TransferTyped, Sizes
  <2>4. /\ file.mode = "w" => n = file.size + 1 \/ (FsFull /\ n = file.size)
        /\ file.mode # "w" => n = file.size
    BY <2>1 DEF Written
  <2>5. n \in Sizes
    BY <1>1, <1>8, <2>2, <2>4 DEF Room, Sizes
  <2>6. /\ file' \in Handles /\ file'.mode = file.mode /\ file'.size = n
        /\ file'.path = file.path /\ file'.pos = file.pos
    BY <1>1, <2>1, <2>5 DEF Records, TransferTyped, Handles
  <2>7. bytesTransfered' \in Sizes
    BY <1>1, <1>8, <2>2 DEF Counted, Sizes
  <2>8. Room'
    <3>1. file'.mode = "w" => file'.size + data'.unread <= MaxSize
      BY <1>1, <1>8, <2>2, <2>3, <2>4, <2>6 DEF Room
    <3>2. ASSUME file.mode = "closed" PROVE file' = Closed
      <4>1. file = Closed /\ n = 0
        BY <1>1, <2>4, <3>2 DEF Room, Closed
      <4> QED
        BY <2>1, <4>1 DEF Closed
    <3> QED
      BY <2>6, <3>1, <3>2 DEF Room
  <2>9. Unused' /\ Counted'
    BY <1>1, <1>2, <1>8, <2>2, <2>3, <2>4, <2>6 DEF Unused, Counted
  <2> QED
    BY <1>1, <1>2, <1>4, <1>8, <2>3, <2>6, <2>7, <2>8, <2>9
    DEF Inv, Records, TransferTyped, Moving, Handles
<1> QED
  BY <1>5, <1>6, <1>7, <1>8 DEF Watch, doFiletoNetwork, doNetworkToFile, noTransfer, SendsChunk

LEMMA InvInitially == FtpInit => Inv
<1> SUFFICES ASSUME FtpInit PROVE Inv
  OBVIOUS
<1>1. Accounts
  BY DEF FtpInit, Accounts, Balance, OneAtATime
<1>2. ControlTyped /\ NamesTyped
  <2>1. control \in BOOLEAN /\ authed \in BOOLEAN
    BY DEF FtpInit
  <2>2. NamesTyped
    BY NamesAssumption DEF FtpInit, NamesTyped
  <2> QED
    BY <2>1, <2>2 DEF FtpInit, ControlTyped, CmdStates
<1>3. TransferTyped
  <2>1. fresh \in BOOLEAN /\ Buffered /\ dataPassiveConn \in BOOLEAN
    BY DEF FtpInit
  <2>2. Closed \in Handles /\ 0 \in Sizes
    BY BoundsAssumption DEF Closed, Handles, Sizes
  <2>3. <<>> \in Seq(BOOLEAN) /\ Len(<<>>) <= MaxKnocks
    BY BoundsAssumption
  <2> QED
    BY <2>1, <2>2, <2>3, DownTyped DEF FtpInit, TransferTyped, Handles
<1>4. Moving
  BY BoundsAssumption DEF FtpInit, Moving, Room, Unused, Counted, Closed
<1> QED
  BY <1>1, <1>2, <1>3, <1>4 DEF Inv

\* A step that leaves handle, data and transfer alone.
LEMMA Untouched ==
    ASSUME Inv, UNCHANGED <<transfer, file, fs, data, dataPassiveConn>>,
           command' \in {command, None},
           knocks' \in Seq(BOOLEAN), Len(knocks') <= MaxKnocks,
           cwd' \in Names, rnFrom' \in Names \cup {None}
    PROVE  TransferTyped' /\ NamesTyped' /\ Moving'
  BY DEF Inv, TransferTyped, NamesTyped, Moving, Room, Unused, Counted

LEMMA InvKept == ASSUME Polite, Inv, [FtpNext]_fvars PROVE Inv'
<1>1. Accounts'
  BY AccountsKept DEF Inv
<1>2. /\ owed \in Int /\ ControlTyped /\ owed <= 2 /\ Records /\ Room
      /\ knocks \in Seq(BOOLEAN) /\ Len(knocks) <= MaxKnocks
      /\ cwd \in Names /\ rnFrom \in Names \cup {None} /\ Root \in Names
  BY NamesAssumption
  DEF Inv, Accounts, Balance, ControlTyped, Records, TransferTyped, NamesTyped, Moving
<1>3. CASE \/ Greet \/ LoginOk \/ NothingRead \/ LineTooLong \/ Refuse \/ Accept \/ Send \/ ControlLost \/ Expire
           \/ UNCHANGED fvars
  <2>1. /\ UNCHANGED <<transfer, file, fs, data, dataPassiveConn, knocks, cwd, rnFrom>>
        /\ command' \in {command, None}
    BY <1>3 DEF Greet, LoginOk, NothingRead, LineTooLong, Refuse, Accept, Send, ControlLost, Expire, fvars
  <2>2. ControlTyped'
    <3> USE <1>2 DEF ControlTyped, CmdStates
    <3>1. CASE Greet
      BY <3>1 DEF Greet
    <3>2. CASE LoginOk
      BY <3>2 DEF LoginOk
    <3>3. CASE NothingRead \/ Refuse
      BY <3>3 DEF NothingRead, Refuse, TakeLine
    <3>7. CASE LineTooLong
      BY <3>7, NoneIsNoLine DEF LineTooLong, Rests
    <3>4. CASE Accept
      <4>1. control' \in BOOLEAN /\ authed' \in BOOLEAN
        BY <3>4 DEF Accept
      <4> QED
        BY <3>4, <4>1 DEF Accept
    <3>6. CASE Send
      <4>1. input' \in Lines /\ owed' = owed + 1 /\ owed < 2
        BY <3>6 DEF Send
      <4> QED
        BY <3>6, <4>1 DEF Send
    <3>5. CASE ControlLost \/ Expire \/ UNCHANGED fvars
      BY <3>5 DEF ControlLost, Expire, fvars
    <3> QED
      BY <1>3, <3>1, <3>2, <3>3, <3>4, <3>5, <3>6, <3>7
  <2> QED
    BY <1>1, <1>2, <2>1, <2>2, Untouched DEF Inv
<1>4. CASE Knock \/ KnockLost
  <2>1. /\ UNCHANGED <<pc, session, command, input, owed, transfer, file, fs, data, dataPassiveConn, cwd, rnFrom>>
        /\ knocks' \in Seq(BOOLEAN) /\ Len(knocks') <= MaxKnocks
    <3>1. CASE Knock
      BY <1>2, <3>1, BoundsAssumption DEF Knock, Network
    <3>2. CASE KnockLost
      BY <1>2, <3>2 DEF KnockLost, Network
    <3> QED
      BY <1>4, <3>1, <3>2
  <2> QED
    BY <1>1, <1>2, <2>1, Untouched DEF Inv, ControlTyped
<1>5. CASE DataArrives \/ DataLost
  <2>1. /\ UNCHANGED <<pc, session, command, input, owed, transfer, file, fs, knocks, dataPassiveConn, cwd, rnFrom>>
    BY <1>5 DEF DataArrives, DataLost, Network
  <2>2. /\ data.unread \in Nat /\ data.received \in Nat /\ data.received <= MaxSize
        /\ data.unread <= MaxSize /\ MaxSize \in Nat
        /\ file.size \in Nat /\ bytesTransfered \in Nat /\ data.up \in BOOLEAN
    BY <1>2, BoundsAssumption DEF Records, TransferTyped, Sizes
  <2>3. CASE DataLost
    <3>1. /\ data' \in [up : BOOLEAN, unread : Sizes, received : Sizes]
          /\ data'.unread = data.unread /\ data'.received = data.received /\ data.up
      BY <1>2, <2>3 DEF DataLost, Records, TransferTyped
    <3> QED
      BY <1>1, <2>1, <3>1
      DEF Inv, ControlTyped, TransferTyped, NamesTyped, Moving, Room, Unused, Counted
  <2>4. CASE DataArrives
    <3>1. transferState = "tStore" /\ bytesTransfered + data.unread = data.received
          /\ data.received < MaxSize /\ file.size + data.unread < MaxSize
      BY <2>4 DEF DataArrives, Inv, Moving, Counted
    <3>2. data.unread + 1 \in Sizes /\ data.received + 1 \in Sizes
      BY <2>2, <3>1 DEF Sizes
    <3>3. /\ data' \in [up : BOOLEAN, unread : Sizes, received : Sizes]
          /\ data'.unread = data.unread + 1 /\ data'.received = data.received + 1
      BY <1>2, <2>4, <3>2 DEF DataArrives, Records, TransferTyped
    <3>4. Room' /\ Unused' /\ Counted'
      BY <2>1, <2>2, <3>1, <3>3 DEF Inv, Moving, Room, Unused, Counted
    <3> QED
      BY <1>1, <2>1, <3>3, <3>4 DEF Inv, ControlTyped, TransferTyped, NamesTyped, Moving
  <2> QED
    BY <1>5, <2>3, <2>4
<1>6. CASE ControlInit
  <2>1. /\ transferState' = "tIdle" /\ command' = None /\ Buffered' /\ dataPassiveConn' = TRUE
        /\ cwd' = Root /\ rnFrom' = None /\ UNCHANGED <<knocks, bytesTransfered, fresh>>
        /\ (CloseFile /\ data' = Down) \/ UNCHANGED <<file, fs, data>>
    BY <1>2, <1>6 DEF ControlInit, freeBuffer, Records, TransferTyped
  <2>2. (file' = Closed \/ UNCHANGED file) /\ fs' \in [Names -> Nodes] /\ (data' = Down \/ UNCHANGED data)
    BY <1>2, <2>1, Closing DEF Records, TransferTyped
  <2>3. Moving' /\ file' \in Handles /\ data' \in [up : BOOLEAN, unread : Sizes, received : Sizes]
    BY <1>2, <2>1, <2>2, IdleAfter DEF Handles
  <2>4. ControlTyped'
    <3>1. control' \in BOOLEAN /\ UNCHANGED authed
      BY <1>6 DEF ControlInit
    <3> QED
      BY <1>2, <1>6, <3>1 DEF ControlInit, ControlTyped, CmdStates
  <2> QED
    BY <1>1, <1>2, <2>1, <2>2, <2>3, <2>4
    DEF Inv, Records, TransferTyped, NamesTyped, Handles
<1>7. CASE Reboot \/ NoBuffer
  <2>1. ControlTyped' /\ NamesTyped'
    <3>1. control' \in BOOLEAN /\ authed' \in BOOLEAN
      BY <1>7 DEF Reboot, NoBuffer, Restarted
    <3> QED
      BY <1>2, <1>7, <3>1 DEF Reboot, NoBuffer, Restarted, ControlTyped, NamesTyped, CmdStates
  <2>2. TransferTyped'
    <3>1. fresh' \in BOOLEAN /\ Buffered' /\ dataPassiveConn' \in BOOLEAN
      BY <1>7 DEF Reboot, NoBuffer, Restarted
    <3>2. Closed \in Handles /\ 0 \in Sizes
      BY BoundsAssumption DEF Closed, Handles, Sizes
    <3>3. <<>> \in Seq(BOOLEAN) /\ Len(<<>>) <= MaxKnocks
      BY BoundsAssumption
    <3> QED
      BY <1>2, <1>7, <3>1, <3>2, <3>3, DownTyped DEF Reboot, NoBuffer, Restarted, Records, TransferTyped, Handles
  <2>3. Moving'
    BY <1>7, BoundsAssumption DEF Reboot, NoBuffer, Restarted, Moving, Room, Unused, Counted, Closed
  <2> QED
    BY <1>1, <2>1, <2>2, <2>3 DEF Inv
<1> QED
  BY <1>1, <1>3, <1>4, <1>5, <1>6, <1>7, ProcessKeeps, WatchKeeps
  DEF FtpNext, handleFTP, Environment

\* Every variable keeps its values for polite clients, whatever the connections
\* do: sizes and counts stay within what arrived, and no reply is owed twice.
THEOREM FtpTypes ==
    ASSUME Polite
    PROVE  FtpSpec => []FtpTypeOK
<1>1. Inv /\ [FtpNext]_fvars => Inv'
  BY InvKept
<1> QED
  BY <1>1, InvInitially, TypedIsTypeOK, PTL DEF FtpSpec

\* On a file system that takes what is written, a transfer the server itself
\* ends is whole, however its chunks, its connection and an ABOR interleave.
THEOREM TransfersAreWhole ==
    ASSUME Polite, ~FsFull
    PROVE  FtpSpec => TransferIsWhole
<1> DEFINE Whole == /\ ServerEnds("tStore") =>
                          /\ data.unread = 0
                          /\ fresh /\ file.mode = "w" /\ file.path # None
                                => fs'[file.path].size = data.received
                    /\ ServerEnds("tRetrieve") /\ fresh /\ data.up
                          => bytesTransfered = file.size
<1>1. Inv /\ [FtpNext]_fvars => Inv'
  BY InvKept
<1>2. ASSUME Inv, [FtpNext]_fvars PROVE Whole \/ UNCHANGED fvars
  <2>1. CASE Watch /\ transferState # "tIdle" /\ transferState' = "tIdle"
    <3>1. CASE doFiletoNetwork
      <4>1. CloseTransfer /\ ~SendsChunk /\ transferState = "tRetrieve"
        BY <2>1, <3>1 DEF doFiletoNetwork
      <4>2. fresh /\ data.up => file.mode = "r" /\ file.pos = bytesTransfered /\ file.pos <= file.size
        BY <1>2, <4>1 DEF Inv, Moving, Counted
      <4>3. file.size \in Nat /\ file.pos \in Nat
        BY <1>2, BoundsAssumption DEF Inv, TransferTyped, Sizes
      <4>4. fresh /\ data.up => bytesTransfered = file.size
        BY <4>1, <4>2, <4>3 DEF SendsChunk, DataConnected
      <4> QED
        BY <4>1, <4>4 DEF ServerEnds
    <3>2. CASE doNetworkToFile
      <4>1. CloseTransfer /\ data.unread = 0 /\ transferState = "tStore"
        BY <2>1, <3>2 DEF doNetworkToFile
      <4>2. file.size \in Nat /\ data.received \in Nat /\ file.path \in Names \cup {None} /\ fs \in [Names -> Nodes]
        BY <1>2, BoundsAssumption DEF Inv, TransferTyped, Sizes
      <4>3. fresh /\ file.mode = "w" => file.size = data.received
        BY <1>2, <4>1, <4>2 DEF Inv, Moving, Counted
      <4>4. file.mode = "w" /\ file.path # None => fs'[file.path].size = file.size
        BY <4>1, <4>2 DEF CloseTransfer, CloseFile, Closes, Flushed, FileOf
      <4> QED
        BY <4>1, <4>3, <4>4 DEF ServerEnds
    <3> QED
      BY <2>1, <3>1, <3>2 DEF Watch, noTransfer
  <2>2. CASE ~(transferState # "tIdle" /\ transferState' = "tIdle")
    BY <2>2 DEF ServerEnds
  <2>3. CASE pc # "watch"
    BY <2>3 DEF ServerEnds
  <2>4. CASE Environment \/ NoBuffer
    <3>1. UNCHANGED transferState \/ authed' = FALSE
      BY <2>4 DEF Environment, Accept, Send, ControlLost, Knock, KnockLost, DataArrives, DataLost,
         Expire, Reboot, NoBuffer, Restarted, Network
    <3> QED
      BY <2>2, <3>1 DEF ServerEnds
  <2> QED
    BY <1>2, <2>1, <2>2, <2>3, <2>4
    DEF FtpNext, handleFTP, ControlInit, Greet, LoginOk, NothingRead, LineTooLong, Refuse, Process, Reading
<1>3. Inv /\ [FtpNext]_fvars => [Whole]_fvars
  BY <1>2
<1> QED
  BY <1>1, <1>3, InvInitially, PTL DEF FtpSpec, TransferIsWhole
=============================================================================

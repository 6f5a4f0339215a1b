----------------------------- MODULE FtpProofs ------------------------------
(***************************************************************************)
(* Theorems about the FTP server, for all file names, all sets of commands,*)
(* every size of files and backlogs, polite and impolite clients.          *)
(***************************************************************************)
EXTENDS FtpProps, TLAPS

USE DEF session, buffer, transfer, conns, names

\* What a command that is not part of the login leaves of the login.
LEMMA LoginKept ==
    ASSUME NEW c, OwnLogin,
           \/ QUIT(c) \/ NOOP(c) \/ FEAT(c) \/ CDUP(c) \/ CWD(c) \/ SIZE(c) \/ PASV(c)
           \/ PORT(c) \/ ABOR(c) \/ LIST(c) \/ RETR(c) \/ STOR(c) \/ DELE(c) \/ MKD(c)
           \/ RMD(c) \/ RNFR(c) \/ RNTO(c)
    PROVE  OwnLogin'
<1>1. CASE QUIT(c)
  BY <1>1 DEF QUIT, OwnLogin
<1>2. CASE FEAT(c)
  BY <1>2 DEF FEAT, Cleared, OwnLogin
<1>3. CASE UNCHANGED <<cmdState, authed>>
  BY <1>3 DEF OwnLogin
<1>4. ASSUME \/ NOOP(c) \/ CDUP(c) \/ SIZE(c) \/ PASV(c) \/ PORT(c) \/ ABOR(c)
             \/ DELE(c) \/ MKD(c) \/ RMD(c) \/ RNFR(c) \/ RNTO(c)
      PROVE  UNCHANGED <<cmdState, authed>>
  BY <1>4 DEF NOOP, CDUP, SIZE, PASV, PORT, ABOR, DELE, MKD, RMD, RNFR, RNTO, Finished
<1>5. ASSUME CWD(c) PROVE UNCHANGED <<cmdState, authed>>
  BY <1>5 DEF CWD, Again, Finished
<1>6. ASSUME LIST(c) PROVE UNCHANGED <<cmdState, authed>>
  BY <1>6 DEF LIST, Again, Finished
<1>7. ASSUME NEW s, NEW h, NEW g, BeginTransfer(c, s, h, g) PROVE UNCHANGED <<cmdState, authed>>
  BY <1>7 DEF BeginTransfer, Again, Finished
<1>8. ASSUME NoTransfer PROVE UNCHANGED <<cmdState, authed>>
  BY <1>8 DEF NoTransfer, Finished
<1>9. ASSUME RETR(c) PROVE UNCHANGED <<cmdState, authed>>
  <2>1. NoTransfer \/ \E h, g : BeginTransfer(c, "tRetrieve", h, g)
    BY <1>9 DEF RETR
  <2> QED
    BY <2>1, <1>7, <1>8
<1>10. ASSUME STOR(c) PROVE UNCHANGED <<cmdState, authed>>
  <2>1. NoTransfer \/ \E h, g : BeginTransfer(c, "tStore", h, g)
    BY <1>10 DEF STOR
  <2> QED
    BY <2>1, <1>7, <1>8
<1> QED
  BY <1>1, <1>2, <1>3, <1>4, <1>5, <1>6, <1>9, <1>10

\* Serving begins only with the right password of this very client: PASS leads
\* from the state after USER to cLoginOk, and a new client starts before both.
THEOREM ServedAfterLogin == FtpSpec => []OwnLogin
<1>1. FtpInit => OwnLogin
  BY DEF FtpInit, OwnLogin
<1>2. OwnLogin /\ [FtpNext]_fvars => OwnLogin'
  <2> SUFFICES ASSUME OwnLogin, [FtpNext]_fvars PROVE OwnLogin'
    OBVIOUS
  <2>1. CASE UNCHANGED fvars
    BY <2>1 DEF fvars, OwnLogin
  <2>2. CASE ControlInit
    BY <2>2 DEF ControlInit, OwnLogin
  <2>3. CASE Greet
    BY <2>3 DEF Greet, OwnLogin
  <2>4. CASE LoginOk
    BY <2>4 DEF LoginOk, OwnLogin
  <2>5. CASE NothingRead \/ LineTooLong \/ Refuse
    BY <2>5 DEF NothingRead, LineTooLong, Refuse, OwnLogin
  <2>6. CASE Process
    <3>1. CASE USER(Current)
      BY <3>1 DEF USER, Cleared, Finished, OwnLogin
    <3>2. CASE PASS(Current)
      BY <3>2 DEF PASS, Cleared, Finished, OwnLogin
    <3> QED
      BY <2>6, <3>1, <3>2, LoginKept DEF Process, processCommand
  <2>7. CASE Watch
    BY <2>7 DEF Watch, OwnLogin
  <2>8. CASE Accept \/ Reboot \/ NoBuffer
    BY <2>8 DEF Accept, Reboot, NoBuffer, Restarted, OwnLogin
  <2>9. CASE Send \/ ControlLost \/ Expire
    BY <2>9 DEF Send, ControlLost, Expire, OwnLogin
  <2>10. CASE Knock \/ KnockLost \/ DataArrives \/ DataLost
    BY <2>10 DEF Knock, KnockLost, DataArrives, DataLost, Network, OwnLogin
  <2> QED
    BY <2>1, <2>2, <2>3, <2>4, <2>5, <2>6, <2>7, <2>8, <2>9, <2>10
    DEF FtpNext, handleFTP, Environment
<1> QED
  BY <1>1, <1>2, PTL DEF FtpSpec

-----------------------------------------------------------------------------
\* A command that finds the buffer held as it must be leaves it so: a transfer
\* begins with a buffer, or with the mark of an allocation that failed.
LEMMA CommandHoldsBuffer ==
    ASSUME NEW c, BufferHeld, processCommand(c)
    PROVE  BufferHeld'
<1>1. CASE QUIT(c) \/ ABOR(c)
  BY <1>1 DEF QUIT, ABOR, abortTransfer, BufferHeld
<1>2. CASE UNCHANGED <<transferState, fileBuffer, starved>>
  BY <1>2 DEF BufferHeld
<1>3. ASSUME \/ USER(c) \/ PASS(c) \/ NOOP(c) \/ FEAT(c) \/ CDUP(c) \/ RNFR(c)
      PROVE  UNCHANGED <<transferState, fileBuffer, starved>>
  BY <1>3 DEF USER, PASS, NOOP, FEAT, CDUP, RNFR, FilesKept
<1>4. ASSUME \/ SIZE(c) \/ PASV(c) \/ PORT(c) \/ DELE(c) \/ MKD(c) \/ RMD(c) \/ RNTO(c)
      PROVE  UNCHANGED <<transferState, fileBuffer, starved>>
  BY <1>4 DEF SIZE, PASV, PORT, DELE, MKD, RMD, RNTO
<1>5. ASSUME CWD(c) PROVE UNCHANGED <<transferState, fileBuffer, starved>>
  BY <1>5 DEF CWD, FilesKept
<1>6. ASSUME LIST(c) PROVE UNCHANGED <<transferState, fileBuffer, starved>>
  BY <1>6 DEF LIST
<1>7. ASSUME NEW s, NEW h, NEW g, BeginTransfer(c, s, h, g) PROVE BufferHeld'
  BY <1>7 DEF BeginTransfer, Allocated, NotAllocated, BufferHeld
<1>8. ASSUME NoTransfer PROVE UNCHANGED <<transferState, fileBuffer, starved>>
  BY <1>8 DEF NoTransfer
<1>9. CASE RETR(c)
  <2>1. NoTransfer \/ \E h, g : BeginTransfer(c, "tRetrieve", h, g)
    BY <1>9 DEF RETR
  <2> QED
    BY <2>1, <1>2, <1>7, <1>8
<1>10. CASE STOR(c)
  <2>1. NoTransfer \/ \E h, g : BeginTransfer(c, "tStore", h, g)
    BY <1>10 DEF STOR
  <2> QED
    BY <2>1, <1>2, <1>7, <1>8
<1> QED
  BY <1>1, <1>2, <1>3, <1>4, <1>5, <1>6, <1>9, <1>10 DEF processCommand

\* The buffer of a transfer lasts as long as the transfer: every way to end or
\* abort one that frees the buffer also makes it idle, so the only transfer without
\* a buffer is one that found no memory when it began, whose chunks NoBuffer meets.
THEOREM NoChunkWithoutBuffer == FtpSpec => []BufferHeld
<1>1. FtpInit => BufferHeld
  BY DEF FtpInit, BufferHeld
<1>2. BufferHeld /\ [FtpNext]_fvars => BufferHeld'
  <2> SUFFICES ASSUME BufferHeld, [FtpNext]_fvars PROVE BufferHeld'
    OBVIOUS
  <2>1. CASE UNCHANGED fvars
    BY <2>1 DEF fvars, BufferHeld
  <2>2. CASE ControlInit \/ Reboot \/ NoBuffer
    BY <2>2 DEF ControlInit, Reboot, NoBuffer, Restarted, BufferHeld
  <2>3. CASE Greet \/ LoginOk \/ NothingRead \/ LineTooLong \/ Refuse
    BY <2>3 DEF Greet, LoginOk, NothingRead, LineTooLong, Refuse, BufferHeld
  <2>4. CASE Process
    BY <2>4, CommandHoldsBuffer DEF Process
  <2>5. CASE Watch
    <3>1. CASE doFiletoNetwork
      BY <3>1 DEF doFiletoNetwork, CloseTransfer, BufferHeld
    <3>2. CASE doNetworkToFile
      BY <3>2 DEF doNetworkToFile, CloseTransfer, BufferHeld
    <3>3. CASE noTransfer
      BY <3>3 DEF noTransfer, BufferHeld
    <3> QED
      BY <2>5, <3>1, <3>2, <3>3 DEF Watch
  <2>6. CASE Accept \/ Send \/ ControlLost \/ Expire
    BY <2>6 DEF Accept, Send, ControlLost, Expire, BufferHeld
  <2>7. CASE Knock \/ KnockLost \/ DataArrives \/ DataLost
    BY <2>7 DEF Knock, KnockLost, DataArrives, DataLost, Network, BufferHeld
  <2> QED
    BY <2>1, <2>2, <2>3, <2>4, <2>5, <2>6, <2>7 DEF FtpNext, handleFTP, Environment
<1> QED
  BY <1>1, <1>2, PTL DEF FtpSpec

-----------------------------------------------------------------------------
(* Replies.  What the server still has a reason to send: the greeting or the
   reply to a password, one for a line not read yet (the rest of a line that was
   too long is one), one for a command that is to be processed again, one for the
   transfer under way. *)

One(p) == IF p THEN 1 ELSE 0

Due == One(cmdState \in {"cCheck", "cLoginOk"}) + One(input # None)
         + One(command # None) + One(transferState # "tIdle")

\* A command that waits for its data connection, and what may be sent beside it.
OneAtATime ==
    /\ cmdState = "cWait" => command = None /\ transferState = "tIdle"
    /\ command # None /\ cmdState # "cInit" =>
          /\ cmdState = "cProcess" /\ transferState = "tIdle"
          /\ command.name \notin {"USER", "PASS", "ABOR"}
    /\ input # None /\ cmdState # "cInit" =>
          /\ input.name \in {"USER", "PASS"} => LoggingIn
          /\ command # None \/ transferState # "tIdle" => input.name = "ABOR"

\* Only a line that was lost with its connection leaves more owed than due.
Balance ==
    /\ owed \in Int
    /\ IF cmdState = "cInit" THEN owed >= 0 /\ pc = "control"
       ELSE owed >= Due /\ (control => owed = Due)

Accounts == Balance /\ OneAtATime

LEMMA NoneIsNoLine ==
    /\ None \notin Lines
    /\ \A n \in {"PWD", "CDUP"} : None # [name |-> n, par |-> None]
<1> DEFINE All == [name : WithPath \cup Plain \cup {"USER", "PASS", "PORT", "PWD"},
                   par : Names \cup {None, "right", "wrong", ".", ".."}]
<1>1. None \notin All
  BY LinesAssumption
<1>2. Lines \subseteq All
  BY DEF Lines, WithPath, Plain
<1>3. \A n \in {"PWD", "CDUP"} : [name |-> n, par |-> None] \in All
  BY DEF Plain
<1> QED
  BY <1>1, <1>2, <1>3

\* The three ways a command of an accountable state may leave it.
Answered == \E n \in {0, 1} :
    /\ command' = None /\ owed' = owed - 1 - n
    /\ One(transferState' # "tIdle") = One(transferState # "tIdle") - n
Waits(c) ==
    /\ command' # None /\ command'.name \notin {"USER", "PASS", "ABOR"}
    /\ transferState = "tIdle" /\ UNCHANGED <<owed, transferState>>
    /\ c.name \notin {"USER", "PASS", "FEAT", "TOOLONG"}
Starts ==
    /\ command' = None /\ transferState = "tIdle" /\ transferState' # "tIdle"
    /\ UNCHANGED owed

\* Each command of an accountable state is answered, waits or starts a transfer.
LEMMA CommandAnswers ==
    ASSUME NEW c, c # None, owed \in Int, processCommand(c), ~NeedsLogin(c), Reading,
           c.name \in {"USER", "PASS"} => LoggingIn,
           transferState # "tIdle" => c.name = "ABOR",
           c.name \notin {"USER", "PASS", "QUIT"}
    PROVE  /\ UNCHANGED <<cmdState, control>> /\ pc' = "watch"
           /\ Answered \/ Waits(c) \/ Starts
<1> DEFINE Goal == /\ UNCHANGED <<cmdState, control>> /\ pc' = "watch"
                   /\ Answered \/ Waits(c) \/ Starts
<1>1. ASSUME Finished(1) \/ Cleared, UNCHANGED transferState PROVE Goal
  <2>1. /\ command' = None /\ owed' = owed - 1 - 0
        /\ One(transferState' # "tIdle") = One(transferState # "tIdle") - 0
    BY <1>1 DEF Finished, Cleared, One
  <2> QED
    BY <1>1, <2>1 DEF Finished, Cleared, Answered
<1>2. ASSUME Again(c), c.name \in {"LIST", "RETR", "STOR"}, UNCHANGED transferState PROVE Goal
  BY <1>2 DEF Again, Waits
<1>3. ASSUME NOOP(c) \/ FEAT(c) \/ CDUP(c) \/ SIZE(c) \/ PASV(c) \/ PORT(c) \/ DELE(c)
             \/ MKD(c) \/ RMD(c) \/ RNFR(c) \/ RNTO(c)
      PROVE  Goal
  <2>1. UNCHANGED transferState /\ (Finished(1) \/ Cleared)
    BY <1>3 DEF NOOP, FEAT, CDUP, SIZE, PASV, PORT, DELE, MKD, RMD, RNFR, RNTO, FilesKept
  <2> QED
    BY <2>1, <1>1
<1>4. CASE ABOR(c)
  <2>1. One(transferState' # "tIdle") = One(transferState # "tIdle") - Aborted
        /\ Aborted \in {0, 1}
    BY <1>4 DEF ABOR, abortTransfer, Aborted, One
  <2> QED
    BY <1>4, <2>1 DEF ABOR, Finished, Answered
<1>5. CASE CWD(c)
  <2>1. CASE Again([name |-> "PWD", par |-> None]) \/ Again([name |-> "CDUP", par |-> None])
    BY <1>5, <2>1, NoneIsNoLine DEF CWD, Again, Waits, FilesKept
  <2>2. CASE Finished(1) /\ UNCHANGED transferState
    BY <2>2, <1>1
  <2> QED
    BY <1>5, <2>1, <2>2 DEF CWD
<1>6. CASE LIST(c)
  <2>1. UNCHANGED transferState /\ (Again(c) \/ Finished(1))
    BY <1>6 DEF LIST
  <2> QED
    BY <1>6, <2>1, <1>1, <1>2 DEF LIST
<1>7. ASSUME NoTransfer PROVE Goal
  BY <1>7, <1>1 DEF NoTransfer
<1>8. ASSUME NEW s \in {"tRetrieve", "tStore"}, NEW h, NEW g, BeginTransfer(c, s, h, g),
             c.name \in {"RETR", "STOR"}
      PROVE  Goal
  <2>1. CASE (Finished(0) \/ Finished(2 - Surplus)) /\ transferState' = s
    <3>1. transferState = "tIdle"
      BY <1>8
    <3> QED
      BY <2>1, <3>1 DEF Finished, Starts, Surplus
  <2> QED
    BY <1>8, <2>1, <1>1, <1>2 DEF BeginTransfer
<1>9. CASE RETR(c)
  BY <1>9, <1>7, <1>8 DEF RETR
<1>10. CASE STOR(c)
  BY <1>10, <1>7, <1>8 DEF STOR
<1> QED
  BY <1>3, <1>4, <1>5, <1>6, <1>9, <1>10 DEF processCommand, USER, PASS, QUIT

\* What readChar() leaves: of the line or the pending command, one is gone.
LEMMA LineTaken ==
    ASSUME Accounts, Reading, Current # None, TakeLine
    PROVE  /\ owed \in Int /\ cmdState # "cInit"
           /\ One(input' # None) + 1 = One(input # None) + One(command # None)
           /\ input' # None => input'.name = "ABOR" /\ input' = input
           /\ Current.name \in {"USER", "PASS"} => LoggingIn
           /\ transferState # "tIdle" => Current.name = "ABOR"
           /\ LoggingIn => command = None /\ input' = None
<1>1. owed \in Int /\ cmdState # "cInit"
  BY DEF Accounts, Balance, Reading
<1>2. CASE command # None
  BY <1>1, <1>2 DEF Accounts, OneAtATime, TakeLine, Current, One, LoggingIn
<1>3. CASE command = None
  BY <1>1, <1>3 DEF Accounts, OneAtATime, TakeLine, Current, One
<1> QED
  BY <1>2, <1>3

LEMMA ProcessAccounts == ASSUME Accounts, Process PROVE Accounts'
<1> DEFINE c == Current
<1>1. Reading /\ c # None /\ ~NeedsLogin(c) /\ TakeLine /\ processCommand(c)
  BY DEF Process
<1>2. /\ owed \in Int /\ cmdState # "cInit"
      /\ One(input' # None) + 1 = One(input # None) + One(command # None)
      /\ input' # None => input'.name = "ABOR" /\ input' = input
      /\ c.name \in {"USER", "PASS"} => LoggingIn
      /\ transferState # "tIdle" => c.name = "ABOR"
      /\ LoggingIn => command = None /\ input' = None
  BY <1>1, LineTaken
<1>3. cmdState \in {"cUserId", "cPassword", "cProcess"}
  BY <1>1 DEF Reading
<1>4. /\ One(cmdState \in {"cCheck", "cLoginOk"}) = 0
      /\ One(input' # None) \in 0 .. 1 /\ One(transferState # "tIdle") \in 0 .. 1
  BY <1>3 DEF One
<1>5. /\ owed >= One(input' # None) + 1 + One(transferState # "tIdle")
      /\ control => owed = One(input' # None) + 1 + One(transferState # "tIdle")
  BY <1>1, <1>2, <1>3, <1>4 DEF Accounts, Balance, Due, One
<1> HIDE DEF c
<1>6. CASE c.name = "QUIT"
  <2>1. QUIT(c)
    BY <1>1, <1>6 DEF processCommand, USER, PASS, NOOP, FEAT, CDUP, CWD, SIZE, PASV, PORT, ABOR,
       LIST, RETR, STOR, DELE, MKD, RMD, RNFR, RNTO
  <2>2. transferState = "tIdle" /\ Aborted = 0
    BY <1>2, <1>6 DEF Aborted
  <2> QED
    BY <2>1, <2>2, <1>2, <1>4, <1>5, <1>6 DEF QUIT, abortTransfer, Accounts, Balance, OneAtATime
<1>7. CASE c.name \in {"USER", "PASS"}
  <2>1. USER(c) \/ PASS(c)
    BY <1>1, <1>7 DEF processCommand, QUIT, NOOP, FEAT, CDUP, CWD, SIZE, PASV, PORT, ABOR,
       LIST, RETR, STOR, DELE, MKD, RMD, RNFR, RNTO
  <2>2. transferState' = transferState /\ transferState = "tIdle" /\ input' = None /\ command' = None
    BY <2>1, <1>2, <1>7 DEF USER, PASS, FilesKept, Cleared, Finished
  <2>3. \/ UNCHANGED <<cmdState, control>> /\ owed' = owed - 1
        \/ UNCHANGED control /\ cmdState' = "cPassword" /\ owed' = owed - 1
        \/ UNCHANGED <<control, owed>> /\ cmdState' = "cLoginOk"
    BY <2>1, <1>1, <1>2, <1>3, <1>7 DEF USER, PASS, Cleared, Finished, NeedsLogin, LoggingIn
  <2>4. owed' >= Due' /\ (control' => owed' = Due') /\ owed' \in Int
    BY <2>2, <2>3, <1>2, <1>3, <1>5 DEF Due, One
  <2> QED
    BY <2>2, <2>3, <2>4, <1>3 DEF Accounts, Balance, OneAtATime
<1>8. CASE c.name \notin {"USER", "PASS", "QUIT"}
  <2>1. /\ UNCHANGED <<cmdState, control>> /\ pc' = "watch"
        /\ Answered \/ Waits(c) \/ Starts
    BY <1>1, <1>2, <1>8, CommandAnswers
  <2>2. owed' >= Due' /\ (control' => owed' = Due') /\ owed' \in Int
    <3>1. CASE Answered
      BY <2>1, <3>1, <1>2, <1>4, <1>5 DEF Answered, Due, One
    <3>2. CASE Waits(c)
      BY <2>1, <3>2, <1>2, <1>4, <1>5 DEF Waits, Due, One
    <3>3. CASE Starts
      BY <2>1, <3>3, <1>2, <1>4, <1>5 DEF Starts, Due, One
    <3> QED
      BY <2>1, <3>1, <3>2, <3>3
  <2>3. command' # None => /\ cmdState' = "cProcess" /\ transferState' = "tIdle"
                           /\ command'.name \notin {"USER", "PASS", "ABOR"}
    BY <1>1, <1>3, <1>8, <2>1 DEF Answered, Waits, Starts, NeedsLogin
  <2>4. input' # None => input'.name = "ABOR" /\ ~(input'.name \in {"USER", "PASS"})
    BY <1>2
  <2> QED
    BY <2>1, <2>2, <2>3, <2>4, <1>3 DEF Accounts, Balance, OneAtATime
<1> QED
  BY <1>6, <1>7, <1>8

LEMMA AccountsKept ==
    ASSUME Polite, Accounts, [FtpNext]_fvars
    PROVE  Accounts'
<1> USE DEF Accounts, Balance, OneAtATime
<1>1. CASE UNCHANGED fvars
  BY <1>1 DEF fvars, Due, LoggingIn
<1>2. CASE ControlInit
  BY <1>2 DEF ControlInit, Due, One, LoggingIn
<1>3. CASE Greet
  BY <1>3 DEF Greet, Due, One, LoggingIn
<1>4. CASE LoginOk
  BY <1>4 DEF LoginOk, Due, One, LoggingIn
<1>5. CASE NothingRead
  BY <1>5 DEF NothingRead, Reading, Due, One, LoggingIn
<1>6. CASE Refuse
  <2>1. Reading /\ Current # None /\ TakeLine
    BY <1>6 DEF Refuse
  <2>2. cmdState \in {"cUserId", "cPassword"} /\ LoggingIn
    BY <1>6 DEF Refuse, NeedsLogin, LoggingIn
  <2>3. /\ command = None /\ input' = None /\ input # None /\ command' = None
        /\ transferState = "tIdle" \/ input.name = "ABOR"
    BY <1>6, <2>1, <2>2 DEF TakeLine, Current, Refuse
  <2> QED
    BY <1>6, <2>2, <2>3 DEF Refuse, Due, One, LoggingIn
<1>7. CASE Process
  BY <1>7, ProcessAccounts
<1>15. CASE LineTooLong
  <2>1. /\ cmdState # "cInit" /\ command = None /\ command' = None /\ input # None
        /\ transferState = "tIdle" /\ UNCHANGED <<cmdState, control, transferState>>
    BY <1>15 DEF LineTooLong, Reading
  <2>2. CASE input' = None /\ owed' = owed - 1
    BY <2>1, <2>2 DEF Due, One
  <2>3. CASE input' \in Rests /\ UNCHANGED owed
    <3>1. input' # None /\ input'.name \notin {"USER", "PASS"}
      BY <2>3, NoneIsNoLine DEF Rests
    <3> QED
      BY <2>1, <2>3, <3>1 DEF Due, One
  <2> QED
    BY <1>15, <2>2, <2>3 DEF LineTooLong
<1>8. CASE Watch
  <2> DEFINE rest == One(cmdState \in {"cCheck", "cLoginOk"}) + One(input # None) + One(command # None)
             now  == One(transferState # "tIdle")
             then == One(transferState' # "tIdle")
  <2>1. /\ cmdState # "cInit" /\ owed \in Int
        /\ UNCHANGED <<control, input, command>> /\ pc' = "control"
        /\ cmdState' \in {cmdState, "cInit"}
    BY <1>8 DEF Watch
  <2>2. rest \in Nat /\ now \in Nat /\ then \in Nat /\ Due = rest + now
    BY DEF Due, One
  <2>3. owed' = owed + then - now /\ transferState' \in {transferState, "tIdle"}
    <3>1. CASE UNCHANGED <<transferState, owed>>
      <4>1. then = now
        BY <3>1
      <4> QED
        BY <2>1, <2>2, <3>1, <4>1
    <3>2. CASE transferState # "tIdle" /\ CloseTransfer
      BY <2>1, <3>2 DEF CloseTransfer, One
    <3> QED
      BY <1>8, <3>1, <3>2 DEF Watch, doFiletoNetwork, doNetworkToFile, noTransfer
  <2>4. cmdState' = cmdState => Due' = rest + then
    BY <2>1 DEF Due
  <2>5. owed >= Due /\ (control => owed = Due)
    BY <2>1
  <2> HIDE DEF rest, now, then
  <2>6. owed' >= rest + then /\ (control' => owed' = rest + then) /\ owed' \in Int
    BY <2>1, <2>2, <2>3, <2>5
  <2>7. owed' >= 0
    BY <2>2, <2>6
  <2>8. Balance'
    BY <2>1, <2>4, <2>6, <2>7
  <2>9. OneAtATime'
    BY <2>1, <2>3 DEF LoggingIn
  <2> QED
    BY <2>8, <2>9
<1>9. CASE Send
  <2>1. PICK l \in Lines : input' = l /\ Courteous(l)
    BY <1>9 DEF Send
  <2>2. input' # None
    BY <2>1, NoneIsNoLine
  <2>3. /\ control /\ input = None /\ owed' = owed + 1
        /\ UNCHANGED <<pc, cmdState, control, command, transferState>>
    BY <1>9 DEF Send
  <2>4. CASE cmdState = "cInit"
    BY <2>3, <2>4
  <2>5. CASE cmdState # "cInit"
    <3>1. owed = Due
      BY <2>3, <2>5
    <3>2. owed = 0 => command = None /\ transferState = "tIdle"
      BY <3>1 DEF Due, One
    <3>3. command # None \/ transferState # "tIdle" => input'.name = "ABOR"
      BY <2>1, <3>2 DEF Courteous
    <3>4. input'.name \in {"USER", "PASS"} => LoggingIn
      BY <2>1 DEF Courteous
    <3>5. Due' = Due + 1
      BY <2>2, <2>3 DEF Due, One
    <3> QED
      BY <2>2, <2>3, <2>5, <3>1, <3>3, <3>4, <3>5 DEF LoggingIn
  <2> QED
    BY <2>4, <2>5
<1>10. CASE Accept
  BY <1>10 DEF Accept, Due, One, LoggingIn
<1>11. CASE ControlLost
  BY <1>11 DEF ControlLost, Due, One, LoggingIn
<1>12. CASE Knock \/ KnockLost \/ DataArrives \/ DataLost
  <2>1. UNCHANGED <<pc, cmdState, control, command, input, owed, transferState>>
    BY <1>12 DEF Knock, KnockLost, DataArrives, DataLost, Network
  <2> QED
    BY <2>1 DEF Due, LoggingIn
<1>13. CASE Expire
  BY <1>13 DEF Expire, Due, LoggingIn
<1>14. CASE Reboot \/ NoBuffer
  BY <1>14 DEF Reboot, NoBuffer, Restarted
<1> QED
  BY <1>1, <1>2, <1>3, <1>4, <1>5, <1>6, <1>7, <1>8, <1>9, <1>10, <1>11, <1>12, <1>13, <1>14, <1>15
  DEF FtpNext, handleFTP, Environment

\* A polite client gets one final reply for each of its commands, whatever the
\* connections do, and beyond those only the ones a transfer without memory and the
\* rest of a line too long bring: what is owed is what the server has a reason to
\* send.
THEOREM RepliesMatch ==
    ASSUME Polite
    PROVE  FtpSpec => []OneReplyEach
<1>1. FtpInit => Accounts
  BY DEF FtpInit, Accounts, Balance, OneAtATime
<1>2. Accounts /\ [FtpNext]_fvars => Accounts'
  BY AccountsKept
<1>3. Accounts => OneReplyEach
  BY DEF Accounts, Balance, OneReplyEach, Due, One
<1> QED
  BY <1>1, <1>2, <1>3, PTL DEF FtpSpec

-----------------------------------------------------------------------------
(* What a step does to names. *)

FsIsMap == fs = [n \in Names |-> fs[n]]

\* A step that may only store what an open handle wrote.
Stores == fs' \in {fs, Flushed(file, fs)}

LEMMA StoreIsNamed ==
    ASSUME FsIsMap, Stores
    PROVE  /\ FsIsMap'
           /\ \A n \in Names : fs'[n] # fs[n] => file.mode = "w" /\ file.path = n
  BY DEF FsIsMap, Stores, Flushed

\* The commands that change no name but through the open handle.
LEMMA Harmless ==
    ASSUME NEW c, \/ USER(c) \/ PASS(c) \/ QUIT(c) \/ NOOP(c) \/ FEAT(c) \/ CDUP(c) \/ CWD(c)
                  \/ SIZE(c) \/ PASV(c) \/ PORT(c) \/ ABOR(c) \/ LIST(c) \/ RETR(c) \/ RNFR(c)
    PROVE  Stores
<1>1. CASE USER(c) \/ PASS(c) \/ NOOP(c) \/ FEAT(c) \/ CDUP(c) \/ RNFR(c)
  BY <1>1 DEF USER, PASS, NOOP, FEAT, CDUP, RNFR, FilesKept, Stores
<1>2. CASE QUIT(c) \/ ABOR(c)
  BY <1>2 DEF QUIT, ABOR, abortTransfer, CloseFile, Closes, Stores
<1>3. CASE CWD(c) \/ SIZE(c) \/ LIST(c)
  BY <1>3 DEF CWD, SIZE, LIST, CloseFile, Closes, FilesKept, Stores
<1>4. CASE PASV(c) \/ PORT(c)
  BY <1>4 DEF PASV, PORT, Stores
<1>5. CASE RETR(c)
  <2> DEFINE h == IF Reused THEN file ELSE OpenedToRead(c.par)
  <2>1. ~Reused => Flushed(h, fs) = fs
    BY DEF OpenedToRead, Flushed, Closed
  <2>2. fs' = fs \/ fs' = Flushed(h, fs)
    BY <1>5 DEF RETR, NoTransfer, BeginTransfer, Closes
  <2> QED
    BY <2>1, <2>2 DEF Stores
<1> QED
  BY <1>1, <1>2, <1>3, <1>4, <1>5

\* The change of a name by a step, as the property has it.
Named(n) ==
    \/ /\ Current # None /\ Current.name \in {"DELE", "RMD", "STOR"}
       /\ PathOf(Current) = n
    \/ Current # None /\ Current.name = "RNTO" /\ rnFrom = n
    \/ file.mode = "w" /\ file.path = n

LEMMA CommandNames ==
    ASSUME FsIsMap, Current # None, processCommand(Current)
    PROVE  FsIsMap' /\ \A n \in Names : fs[n] # Absent /\ fs'[n] # fs[n] => Named(n)
<1> DEFINE c == Current
<1>1. CASE Stores
  BY <1>1, StoreIsNamed DEF Named
<1>2. CASE STOR(c)
  <2>1. \/ Stores
        \/ c.par # None /\ fs' \in {Emptied(c.par), Flushed(OpenedToWrite(c.par), Emptied(c.par))}
    BY <1>2 DEF STOR, NoTransfer, BeginTransfer, Closes, Stores
  <2>2. CASE c.par # None /\ fs' \in {Emptied(c.par), Flushed(OpenedToWrite(c.par), Emptied(c.par))}
    BY <1>2, <2>2 DEF STOR, Emptied, OpenedToWrite, Flushed, FsIsMap, Named, PathOf
  <2> QED
    BY <2>1, <2>2, <1>1
<1>3. CASE DELE(c)
  BY <1>3 DEF DELE, FsIsMap, Named, PathOf
<1>4. CASE MKD(c)
  BY <1>4 DEF MKD, FsIsMap
<1>5. CASE RMD(c)
  BY <1>5 DEF RMD, FsIsMap, Named
<1>6. CASE RNTO(c)
  BY <1>6 DEF RNTO, NotRenamed, FsIsMap, Named, PathOf
<1> QED
  BY <1>1, <1>2, <1>3, <1>4, <1>5, <1>6, Harmless DEF processCommand

LEMMA StepNames ==
    ASSUME FsIsMap, [FtpNext]_fvars
    PROVE  FsIsMap' /\ \A n \in Names : fs[n] # Absent /\ fs'[n] # fs[n] => Named(n)
<1>1. CASE Process
  BY <1>1, CommandNames DEF Process
<1>2. ASSUME UNCHANGED fvars \/ ControlInit \/ Greet \/ LoginOk \/ NothingRead
             \/ LineTooLong \/ Refuse \/ NoBuffer
      PROVE  Stores
  BY <1>2 DEF fvars, ControlInit, CloseFile, Closes, Greet, LoginOk, NothingRead, LineTooLong,
     Refuse, NoBuffer, Restarted, Stores
<1>3. ASSUME Watch PROVE Stores
  BY <1>3 DEF Watch, doFiletoNetwork, doNetworkToFile, noTransfer, CloseTransfer, CloseFile, Closes, Stores
<1>4. ASSUME Environment PROVE Stores
  BY <1>4 DEF Environment, Accept, Send, ControlLost, Knock, KnockLost, DataArrives, DataLost,
     Expire, Reboot, Restarted, Network, Stores
<1> QED
  BY <1>1, <1>2, <1>3, <1>4, StoreIsNamed DEF FtpNext, handleFTP, Named

\* What exists changes only where a command says so, for clients of any manners,
\* any number of names and a file system that may be full.
THEOREM NamesAreSafe == FtpSpec => OnlyNamedChanges
<1>1. FtpInit => FsIsMap
  BY DEF FtpInit, FsIsMap
<1>2. FsIsMap /\ [FtpNext]_fvars => FsIsMap'
  BY StepNames
<1>3. FsIsMap /\ [FtpNext]_fvars
        => [\A n \in Names : fs[n] # Absent /\ fs'[n] # fs[n] => Named(n)]_fvars
  BY StepNames
<1> QED
  BY <1>1, <1>2, <1>3, PTL DEF FtpSpec, OnlyNamedChanges, Named
=============================================================================

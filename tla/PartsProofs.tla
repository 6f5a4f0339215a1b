---------------------------- MODULE PartsProofs -----------------------------
(***************************************************************************)
(* Theorems about the components of module MCParts but the calendar, which *)
(* has a module of its own.  Update: whatever faults come between its      *)
(* pieces, an image that cannot run has one of two origins.  Button: a     *)
(* press is measured right, however wide the clock is and wherever it      *)
(* wraps.  RtcMemory: the rule of recovery, for every type of the          *)
(* structure.  FtpClient: files of any number of chunks.  FtpPath: names   *)
(* and directories of any length.                                          *)
(***************************************************************************)
EXTENDS MCParts, FiniteSetTheorems, SequenceTheorems, TLAPS

(* Update *)

\* The rest of an update that has "broken" in it is known to be one that was
\* appended to, an incomplete firmware.bin to have been left so.
Origins ==
    /\ WholeImages
    /\ updater = "mixed" => spliced
    /\ bin = "part" => spliced

UpdateInv == UpdateTypeOK /\ Origins

-----------------------------------------------------------------------------
\* Every kind of reset ends what was under way and obeys the command, if any.
LEMMA ResetKeeps ==
    ASSUME UpdateInv, NEW m \in {rtcUser, "noise"}, Reset(m)
    PROVE  UpdateInv'
<1> USE DEF UpdateInv, Origins, WholeImages, UpdateTypeOK, Images, Commands, Reset
<1>1. UpdateTypeOK'
  OBVIOUS
<1>2. WholeImages'
  <2>1. CASE m \in Commands
    BY <2>1
  <2>2. CASE m \notin Commands
    BY <2>2
  <2>3. QED
    BY <2>1, <2>2
<1>3. Origins'
  BY <1>2
<1>4. QED
  BY <1>1, <1>3

LEMMA UploadKeeps ==
    ASSUME UpdateInv,
           UploadStart \/ UploadPiece \/ UploadEnd \/ UploadRefused \/ UploadAborted
    PROVE  UpdateInv'
<1> USE DEF UpdateInv, Origins, WholeImages, UpdateTypeOK, Images, Commands,
            flashVars, uploadVars, uhistory
<1>1. CASE UploadStart
  <2>1. UpdateTypeOK'
    BY <1>1 DEF UploadStart
  <2>2. UNCHANGED <<image, rtcUser, bin>> /\ (spliced => spliced')
    BY <1>1 DEF UploadStart
  <2>3. updater' = "mixed" => spliced'
    BY <1>1 DEF UploadStart
  <2>4. QED
    BY <2>1, <2>2, <2>3
<1>2. CASE UploadPiece
  BY <1>2 DEF UploadPiece
<1>3. CASE UploadEnd
  BY <1>3 DEF UploadEnd
<1>4. CASE UploadRefused
  BY <1>4 DEF UploadRefused
<1>5. CASE UploadAborted
  BY <1>5 DEF UploadAborted
<1>6. QED
  BY <1>1, <1>2, <1>3, <1>4, <1>5

LEMMA SetupKeeps ==
    ASSUME UpdateInv, Setup \/ RemoveBin
    PROVE  UpdateInv'
<1> USE DEF UpdateInv, Origins, WholeImages, UpdateTypeOK, Images, Commands,
            flashVars, uploadVars, uhistory
<1>1. CASE BeginSetup
  BY <1>1 DEF BeginSetup
<1>2. CASE FormatFs
  BY <1>2 DEF FormatFs
<1>3. CASE TakeBin
  BY <1>3 DEF TakeBin
<1>4. CASE RefuseBin
  BY <1>4 DEF RefuseBin
<1>5. CASE EndSetup
  BY <1>5 DEF EndSetup
<1>6. CASE RemoveBin
  BY <1>6 DEF RemoveBin
<1>7. QED
  BY <1>1, <1>2, <1>3, <1>4, <1>5, <1>6 DEF Setup

LEMMA UpdateInductive == UpdateSpec => []UpdateInv
<1>1. UpdateInit => UpdateInv
  BY DEF UpdateInit, UpdateInv, Origins, WholeImages, UpdateTypeOK, Images, Commands
<1>2. UpdateInv /\ [UpdateNext]_uvars => UpdateInv'
  <2> SUFFICES ASSUME UpdateInv, [UpdateNext]_uvars
               PROVE  UpdateInv'
    OBVIOUS
  <2> USE DEF UpdateInv, Origins, WholeImages, UpdateTypeOK, flashVars, uploadVars, uhistory
  <2>1. CASE UploadStart \/ UploadPiece \/ UploadEnd \/ UploadRefused \/ UploadAborted
    BY <2>1, UploadKeeps
  <2>2. CASE Setup \/ RemoveBin
    BY <2>2, SetupKeeps
  <2>3. CASE StoreBin
    BY <2>3 DEF StoreBin
  <2>4. CASE SaveData
    BY <2>4 DEF SaveData, Commands
  <2>5. CASE AskRestart
    BY <2>5 DEF AskRestart
  <2>6. CASE Restart
    BY <2>6, ResetKeeps DEF Restart
  <2>7. CASE CrashReset
    BY <2>7, ResetKeeps DEF CrashReset
  <2>8. CASE LosePower
    BY <2>8, ResetKeeps DEF LosePower
  <2>9. CASE UNCHANGED uvars
    BY <2>9 DEF uvars
  <2>10. QED
    BY <2>1, <2>2, <2>3, <2>4, <2>5, <2>6, <2>7, <2>8, <2>9 DEF UpdateNext
<1>3. QED
  BY <1>1, <1>2, PTL DEF UpdateSpec

-----------------------------------------------------------------------------
\* Pieces of an update are kept only while pages are served, and a promise or a
\* file to be removed only until the restart (WiFiSettings.cpp:297-326,
\* main.cpp:68-91).
THEOREM UpdateTypes == UpdateSpec => []UpdateTypeOK
<1>1. UpdateInv => UpdateTypeOK
  BY DEF UpdateInv
<1>2. QED
  BY <1>1, UpdateInductive, PTL

\* An image that cannot run gets into the flash only by an upload over the rest
\* of an aborted one or by an incomplete firmware.bin, whatever faults come when.
THEOREM OnlySplicedImagesBreak == UpdateSpec => []WholeImages
<1>1. UpdateInv => WholeImages
  BY DEF UpdateInv, Origins
<1>2. QED
  BY <1>1, UpdateInductive, PTL

-----------------------------------------------------------------------------
(* Button *)

\* While the button is down, the clock is where the time measured since the
\* press takes it; before init_buttom nothing is measured.
Timed ==
    /\ mode = "setup" => measured = -1 /\ lastState = "LOW"
    /\ lastState = "LOW" /\ measured >= 0 => now = (pressedTime + measured) % Width

ButtonInv == ButtonTypeOK /\ Timed

\* The remainders the clock needs.
LEMMA Remainders ==
    ASSUME NEW w \in Nat \ {0}
    PROVE  /\ \A x \in 0 .. w - 1 : x % w = x
           /\ \A x \in w .. 2 * w - 1 : x % w = x - w
           /\ \A x \in -w .. -1 : x % w = x + w
<1>1. ASSUME NEW x \in 0 .. w - 1
      PROVE  x % w = x
  BY <1>1, SMTT(20)
<1>2. ASSUME NEW x \in w .. 2 * w - 1
      PROVE  x % w = x - w
  BY <1>2, SMTT(20)
<1>3. ASSUME NEW x \in -w .. -1
      PROVE  x % w = x + w
  BY <1>3, SMTT(20)
<1>4. QED
  BY <1>1, <1>2, <1>3

\* The range of the clock is even and wider than two presses.
LEMMA WidthPositive ==
    /\ Width \in Nat \ {0} /\ Width = HALF + HALF /\ MaxHeld < HALF
    /\ HALF \in Nat /\ MaxHeld \in Nat
BY TimesAssumption DEF Width

\* Time that passes moves the clock and the measure alike, also across the wrap.
LEMMA Ticks ==
    ASSUME NEW p \in 0 .. Width - 1, NEW m \in 0 .. MaxHeld - 1
    PROVE  (((p + m) % Width) + 1) % Width = (p + (m + 1)) % Width
<1> DEFINE W == Width
<1>1. W \in Nat \ {0} /\ MaxHeld \in Nat /\ MaxHeld < W
  BY WidthPositive
<1>2. /\ \A x \in 0 .. W - 1 : x % W = x
      /\ \A x \in W .. 2 * W - 1 : x % W = x - W
  BY <1>1, Remainders
<1> HIDE DEF W
<1>3. p \in 0 .. W - 1 /\ (((p + m) % W) + 1) % W = (p + (m + 1)) % W
  <2>0. p \in 0 .. W - 1
    BY DEF W
  <2>1. CASE p + m < W - 1
    <3>1. p + m \in 0 .. W - 1 /\ p + (m + 1) \in 0 .. W - 1
      BY <1>1, <2>0, <2>1
    <3>2. (p + m) % W = p + m
      BY <1>2, <3>1
    <3> QED
      BY <2>0, <3>2
  <2>2. CASE p + m = W - 1
    <3>1. p + m \in 0 .. W - 1
      BY <1>1, <2>0, <2>2
    <3>2. (p + m) % W = p + m /\ p + m + 1 = p + (m + 1)
      BY <1>2, <2>0, <3>1
    <3> QED
      BY <2>0, <3>2
  <2>3. CASE p + m > W - 1
    <3>1. p + m \in W .. 2 * W - 1 /\ p + (m + 1) \in W .. 2 * W - 1
      BY <1>1, <2>0, <2>3
    <3>2. (p + m) % W = p + m - W
      BY <1>1, <1>2, <2>0, <3>1
    <3>3. (p + (m + 1)) % W = p + (m + 1) - W
      BY <1>1, <1>2, <2>0, <3>1
    <3>4. p + (m + 1) - W \in 0 .. W - 1 /\ p + m - W + 1 = p + (m + 1) - W
      BY <1>1, <2>0, <2>3
    <3>5. (p + (m + 1) - W) % W = p + (m + 1) - W
      BY <1>2, <3>4
    <3> QED
      BY <2>0, <3>2, <3>3, <3>4, <3>5
  <2> QED
    BY <1>1, <2>0, <2>1, <2>2, <2>3
<1>4. QED
  BY <1>3 DEF W

\* The signed difference of two readings is the time between them.
LEMMA Measures ==
    ASSUME NEW p \in 0 .. Width - 1, NEW m \in 0 .. MaxHeld
    PROVE  Signed(((p + m) % Width) - p) = m
<1> DEFINE W == Width
           n == (p + m) % W
<1>1. W \in Nat \ {0} /\ MaxHeld \in Nat /\ MaxHeld < HALF /\ HALF \in Nat /\ W = HALF + HALF
  BY WidthPositive
<1>2. /\ \A x \in 0 .. W - 1 : x % W = x
      /\ \A x \in W .. 2 * W - 1 : x % W = x - W
      /\ \A x \in -W .. -1 : x % W = x + W
  BY <1>1, Remainders
<1>3. p \in 0 .. W - 1
  OBVIOUS
<1> HIDE DEF W
<1>4. (n - p) % W = m
  <2>1. CASE p + m < W
    <3>1. p + m \in 0 .. W - 1 /\ m \in 0 .. W - 1
      BY <1>1, <1>3, <2>1
    <3>2. n = p + m /\ m % W = m
      BY <1>2, <3>1
    <3>3. n - p = m
      BY <1>3, <3>2
    <3> QED
      BY <3>2, <3>3
  <2>2. CASE p + m >= W
    <3>1. p + m \in W .. 2 * W - 1 /\ m - W \in -W .. -1
      BY <1>1, <1>3, <2>2
    <3>2. n = p + m - W
      BY <1>1, <1>2, <1>3, <3>1
    <3>3. (m - W) % W = m - W + W
      BY <1>2, <3>1
    <3>4. n - p = m - W /\ m - W + W = m
      BY <1>1, <1>3, <3>2
    <3> QED
      BY <3>3, <3>4
  <2> QED
    BY <1>1, <1>3, <2>1, <2>2
<1>5. m < HALF
  BY <1>1
<1>6. QED
  BY <1>4, <1>5 DEF Signed, W

LEMMA ButtonInductive == ButtonSpec => []ButtonInv
<1>1. ButtonInit => ButtonInv
  BY TimesAssumption, WidthPositive DEF ButtonInit, ButtonInv, ButtonTypeOK, Timed
<1>2. ButtonInv /\ [ButtonNext]_bvars => ButtonInv'
  <2> SUFFICES ASSUME ButtonInv, [ButtonNext]_bvars
               PROVE  ButtonInv'
    OBVIOUS
  <2> USE DEF ButtonInv, ButtonTypeOK, Timed
  <2>1. CASE Push
    BY <2>1, WidthPositive DEF Push
  <2>2. CASE LetGo
    BY <2>2, WidthPositive DEF LetGo
  <2>3. CASE Pass
    <3>1. now' \in 0 .. Width - 1
      BY <2>3, WidthPositive, Remainders DEF Pass
    <3>2. UNCHANGED <<pin, lastState, pressedTime, xPressButton_action, mode>>
      BY <2>3 DEF Pass
    <3>3. gap' \in 0 .. MaxGap
      BY <2>3, TimesAssumption DEF Pass
    <3>4. down' \in 0 .. MaxHeld
      BY <2>3, WidthPositive DEF Pass
    <3>5. measured' \in -1 .. MaxHeld /\ (measured = -1 => measured' = -1)
      BY <2>3, WidthPositive DEF Pass
    <3>6. ASSUME lastState = "LOW", measured' >= 0
          PROVE  now' = (pressedTime + measured') % Width
      <4>1. measured >= 0
        BY <3>6, <2>3 DEF Pass
      <4>2. measured' = measured + 1 /\ measured \in 0 .. MaxHeld - 1
        BY <2>3, <3>6, <4>1, WidthPositive DEF Pass
      <4>3. now' = (((pressedTime + measured) % Width) + 1) % Width
        BY <2>3, <3>6, <4>1 DEF Pass
      <4>4. QED
        BY <4>2, <4>3, Ticks
    <3>7. QED
      BY <3>1, <3>2, <3>3, <3>4, <3>5, <3>6
  <2>4. CASE init_buttom
    BY <2>4, TimesAssumption DEF init_buttom
  <2>5. CASE buttom_task_callback
    <3>1. UNCHANGED <<pin, now, down>> /\ lastState' = pin /\ gap' = 0 /\ mode = "polling"
      BY <2>5 DEF buttom_task_callback
    <3>2. CASE SamplePress
      <4>1. pressedTime' = now /\ measured' = 0 /\ UNCHANGED <<xPressButton_action, mode>>
        BY <3>2 DEF SamplePress
      <4>2. (now + 0) % Width = now
        BY Remainders, WidthPositive
      <4>3. QED
        BY <3>1, <4>1, <4>2, TimesAssumption
    <3>3. CASE SampleRelease
      <4>1. lastState' = "HIGH" /\ UNCHANGED <<pressedTime, measured>>
        BY <3>1, <3>3 DEF SampleRelease
      <4>2. mode' \in {"polling", "safe"}
        BY <3>1, <3>3 DEF SampleRelease
      <4>3. xPressButton_action' \in {"NONE", "PRESS_SHORT", "PRESS_LONG"}
        BY <3>3, Zenon DEF SampleRelease
      <4>4. QED
        BY <3>1, <4>1, <4>2, <4>3, TimesAssumption
    <3>4. CASE SampleSame
      BY <3>1, <3>4, TimesAssumption DEF SampleSame
    <3>5. QED
      BY <2>5, <3>2, <3>3, <3>4 DEF buttom_task_callback
  <2>6. CASE Restarted
    BY <2>6, TimesAssumption, WidthPositive DEF Restarted
  <2>7. CASE UNCHANGED bvars
    BY <2>7 DEF bvars
  <2>8. QED
    BY <2>1, <2>2, <2>3, <2>4, <2>5, <2>6, <2>7 DEF ButtonNext
<1>3. QED
  BY <1>1, <1>2, PTL DEF ButtonSpec

\* Every variable of the sampling task (buttom.cpp:13-46) keeps its type.
THEOREM ButtonTypes == ButtonSpec => []ButtonTypeOK
<1>1. ButtonInv => ButtonTypeOK
  BY DEF ButtonInv
<1>2. QED
  BY <1>1, ButtonInductive, PTL

\* However wide millis() is, a press whose begin was sampled starts safe mode if
\* and only if it was longer than LONG_PRESS_TIME (buttom.cpp:23-46), as long as
\* it stays below half the range of the clock.
THEOREM PressesAreMeasured == ButtonSpec => LongPressOnly
<1> DEFINE Step == lastState = "LOW" /\ lastState' = "HIGH" /\ mode = "polling" /\ measured >= 0
                     => (mode' = "safe" <=> measured > LONG_PRESS_TIME)
<1>1. ButtonInv /\ [ButtonNext]_bvars => [Step]_bvars
  <2> SUFFICES ASSUME ButtonInv, ButtonNext,
                      lastState = "LOW", lastState' = "HIGH", mode = "polling", measured >= 0
               PROVE  mode' = "safe" <=> measured > LONG_PRESS_TIME
    OBVIOUS
  <2>1. SampleRelease
    BY DEF ButtonNext, Push, LetGo, Pass, init_buttom, Restarted, buttom_task_callback,
           SamplePress, SampleSame
  <2>2. Signed(now - pressedTime) = measured
    <3>1. pressedTime \in 0 .. Width - 1 /\ measured \in 0 .. MaxHeld
      BY WidthPositive DEF ButtonInv, ButtonTypeOK
    <3>2. now = (pressedTime + measured) % Width
      BY DEF ButtonInv, Timed
    <3>3. QED
      BY <3>1, <3>2, Measures
  <2>3. mode' = IF measured > LONG_PRESS_TIME THEN "safe" ELSE mode
    BY <2>1, <2>2 DEF SampleRelease
  <2>4. QED
    BY <2>3
<1>2. QED
  BY <1>1, ButtonInductive, PTL DEF ButtonSpec, LongPressOnly

-----------------------------------------------------------------------------
(* RtcMemory *)

\* The histories name what the RTC memory and the backup file hold.
HistoriesAreTrue ==
    /\ saved.some <=> rtc.sealed
    /\ rtc.sealed => saved.value = rtc.data
    /\ backup.some <=> readFromFlash
    /\ backup.some => backup.value = flash.data

Histories == RtcTypeOK /\ HistoriesAreTrue

LEMMA NoneFacts ==
    /\ None \in [some : BOOLEAN, value : Values] /\ ~None.some /\ None.value = Zero
    /\ \A v \in Values : /\ Just(v) \in [some : BOOLEAN, value : Values]
                         /\ Just(v).some /\ Just(v).value = v
BY ValuesAssumption DEF None, Just

\* Writing the backup, whole, cut short or not at all.
LEMMA BackupWritten ==
    ASSUME Histories, NEW v \in Values, NEW ok \in BOOLEAN, writeToFlash(v, ok)
    PROVE  /\ flash' \in [state : {"absent", "short", "full"}, data : Values]
           /\ backup' \in [some : BOOLEAN, value : Values]
           /\ backup'.some <=> readFromFlash'
           /\ backup'.some => backup'.value = flash'.data
<1> USE DEF Histories, RtcTypeOK, HistoriesAreTrue, readFromFlash
<1>1. CASE HasPath /\ ok /\ flash' = [state |-> "full", data |-> v] /\ backup' = Just(v)
  BY <1>1, NoneFacts
<1>2. CASE flash' = [state |-> "short", data |-> Zero] /\ backup' = None
  BY <1>2, NoneFacts, ValuesAssumption
<1>3. CASE UNCHANGED <<flash, backup>>
  BY <1>3
<1> QED BY <1>1, <1>2, <1>3 DEF writeToFlash

LEMMA HistoriesStep == ASSUME Histories, [RtcNext]_rvars PROVE Histories'
<1> USE DEF Histories, RtcTypeOK, HistoriesAreTrue
<1>1. CASE begin
  <2>1. data' \in Values /\ result' \in BOOLEAN /\ ready' = TRUE
    BY <1>1, ValuesAssumption DEF begin
  <2>2. UNCHANGED <<rtc, persisting, saved>>
    BY <1>1 DEF begin
  <2>3. CASE UNCHANGED <<flash, backup>>
    BY <2>1, <2>2, <2>3 DEF readFromFlash
  <2>4. CASE \E ok \in BOOLEAN : writeToFlash(Zero, ok)
    BY <2>1, <2>2, <2>4, BackupWritten, ValuesAssumption
  <2> QED BY <1>1, <2>3, <2>4 DEF begin
<1>2. CASE beginAgain
  BY <1>2 DEF beginAgain, readFromFlash
<1>3. CASE assign
  BY <1>3 DEF assign, readFromFlash
<1>4. CASE save
  <2>1. rtc' \in [sealed : BOOLEAN, data : Values] /\ rtc'.sealed /\ rtc'.data = data
    BY <1>4 DEF save
  <2>2. saved' = Just(data) /\ UNCHANGED <<ready, data, flash, backup>>
    BY <1>4 DEF save
  <2>3. persisting' \in BOOLEAN /\ result' \in BOOLEAN
    BY <1>4 DEF save
  <2> QED BY <2>1, <2>2, <2>3, NoneFacts DEF readFromFlash
<1>5. CASE persistEnd
  <2>1. PICK ok \in BOOLEAN : writeToFlash(data, ok) /\ result' = ok
    BY <1>5 DEF persistEnd
  <2>2. persisting' = FALSE /\ UNCHANGED <<ready, data, rtc, saved>>
    BY <1>5 DEF persistEnd
  <2> QED BY <2>1, <2>2, BackupWritten
<1>6. CASE notReady
  BY <1>6 DEF notReady, readFromFlash
<1>7. CASE WarmReset
  BY <1>7, ValuesAssumption DEF WarmReset, Forget, readFromFlash
<1>8. CASE LoseRtc
  <2>1. rtc' \in [sealed : BOOLEAN, data : Values] /\ ~rtc'.sealed
    BY <1>8, ValuesAssumption DEF LoseRtc
  <2>2. /\ ready' = FALSE /\ data' = Zero /\ persisting' = FALSE /\ result' = FALSE
        /\ saved' = None /\ UNCHANGED <<flash, backup>>
    BY <1>8 DEF LoseRtc, Forget
  <2> QED BY <2>1, <2>2, NoneFacts, ValuesAssumption DEF readFromFlash
<1>9. CASE UNCHANGED rvars
  BY <1>9 DEF rvars, readFromFlash
<1> QED BY <1>1, <1>2, <1>3, <1>4, <1>5, <1>6, <1>7, <1>8, <1>9 DEF RtcNext

LEMMA HistoriesHold == RtcSpec => []Histories
<1>1. RtcInit => Histories
  <2> SUFFICES ASSUME RtcInit PROVE Histories
    OBVIOUS
  <2>1. /\ rtc \in [sealed : BOOLEAN, data : Values] /\ ~rtc.sealed
        /\ flash \in [state : {"absent", "short", "full"}, data : Values]
        /\ flash.state = "absent"
    BY ValuesAssumption DEF RtcInit
  <2>2. /\ saved \in [some : BOOLEAN, value : Values] /\ ~saved.some
        /\ backup \in [some : BOOLEAN, value : Values] /\ ~backup.some
    BY NoneFacts DEF RtcInit
  <2>3. ~readFromFlash
    BY <2>1 DEF readFromFlash
  <2>4. /\ ready \in BOOLEAN /\ persisting \in BOOLEAN /\ result \in BOOLEAN
        /\ data \in Values
    BY ValuesAssumption DEF RtcInit
  <2> QED BY <2>1, <2>2, <2>3, <2>4 DEF Histories, RtcTypeOK, HistoriesAreTrue
<1> QED BY <1>1, HistoriesStep, PTL DEF RtcSpec

\* begin() recovers the last save that survived, else the last complete backup,
\* else zeros, and its result says whether it found anything.
THEOREM Recovery == RtcSpec => BeginRecovers
<1> DEFINE Rule == ~ready /\ ready' =>
             /\ data' = IF saved.some THEN saved.value
                        ELSE IF backup.some THEN backup.value ELSE Zero
             /\ result' = (saved.some \/ backup.some)
<1>1. Histories /\ [RtcNext]_rvars => Rule
  <2> SUFFICES ASSUME Histories, [RtcNext]_rvars, ~ready, ready' PROVE
             /\ data' = IF saved.some THEN saved.value
                        ELSE IF backup.some THEN backup.value ELSE Zero
             /\ result' = (saved.some \/ backup.some)
    OBVIOUS
  <2>1. begin
    BY DEF RtcNext, beginAgain, assign, save, persistEnd, notReady, WarmReset,
           LoseRtc, Forget, rvars, Histories, RtcTypeOK
  <2>2. /\ saved.some <=> rtc.sealed
        /\ rtc.sealed => saved.value = rtc.data
        /\ backup.some <=> readFromFlash
        /\ backup.some => backup.value = flash.data
    BY DEF Histories, HistoriesAreTrue
  <2>3. CASE rtc.sealed
    BY <2>1, <2>2, <2>3 DEF begin
  <2>4. CASE ~rtc.sealed
    BY <2>1, <2>2, <2>4 DEF begin
  <2> QED BY <2>3, <2>4
<1>2. [](Histories) /\ [][RtcNext]_rvars => [][Rule]_rvars
  BY <1>1, PTL
<1> QED BY <1>2, HistoriesHold, PTL DEF RtcSpec, BeginRecovers

-----------------------------------------------------------------------------
(* FtpClient *)

TransferWhole ==
    /\ direction \in Gets => bytesTransfered = sent
    /\ direction = "FTP_PUT_NONBLOCKING" => bytesTransfered = size \/ cut
    /\ direction = "FTP_PUT" => bytesTransfered = 0

\* While a transfer runs, what the server sent is read or still unread, and a put
\* has a connection unless the server closed it; from its end to the OK it is whole.
\* The file of a blocking put is empty from the moment it is opened.
Accounts ==
    /\ ftpState = "cTransfer" /\ direction \in Gets => bytesTransfered + unread = sent
    /\ ftpState = "cTransfer" /\ direction \in Puts =>
          bytesTransfered <= size /\ (dataUp \/ cut)
    /\ ftpState \in {"cFinish", "cQuit"} => TransferWhole
    /\ ftpState \in Busy /\ direction = "FTP_PUT" => size = 0
    /\ OkIsWhole

ClientInv == ClientTypeOK /\ Accounts

-----------------------------------------------------------------------------
\* What the user's calls and a call without a server keep.
LEMMA UserKeeps ==
    ASSUME ClientInv,
           ClientBegin \/ TransferRefused \/ TransferBegin \/ TransferReturns \/ handleNothing
    PROVE  ClientInv'
<1> USE ChunksAssumption DEF ClientInv, Accounts, TransferWhole, OkIsWhole, ClientTypeOK, Chunks, Waiting,
        Busy, Over, Blocking, Puts, Gets, OpenedToWrite, orderVars, localVars, moveVars
<1>1. CASE ClientBegin
  BY <1>1 DEF ClientBegin
<1>2. CASE TransferRefused
  BY <1>2 DEF TransferRefused, TransferGranted
<1>3. CASE TransferBegin
  <2>1. /\ ftpState \in Over /\ direction' \in Puts \cup Gets
        /\ UNCHANGED <<server, timer, fileBuffer, fileBufferSize, dataUp, unread,
                       bytesTransfered, sent, cut>>
    BY <1>3 DEF TransferBegin, TransferGranted
  <2> DEFINE Refused == opened' = FALSE /\ status' = "ERROR" /\ UNCHANGED <<ftpState, blocking, size>>
             Granted == /\ opened' = TRUE /\ status' = "PROGRESS" /\ ftpState' = "cConnect"
                        /\ size' \in IF direction' \in OpenedToWrite THEN {0} ELSE Chunks
                        /\ blocking' = (direction' \in Blocking)
  <2>2. CASE Refused
    BY <2>1, <2>2
  <2>3. CASE Granted
    <3>1. size' \in Chunks /\ (direction' = "FTP_PUT" => size' = 0) /\ blocking' \in BOOLEAN
      BY <2>3
    <3>2. timer = "never"
      BY <2>1
    <3> QED
      BY <2>1, <2>3, <3>1, <3>2
  <2>4. Refused \/ Granted
    BY <1>3 DEF TransferBegin
  <2> HIDE DEF Refused, Granted
  <2> QED
    BY <2>2, <2>3, <2>4
<1>4. CASE TransferReturns
  <2>1. /\ blocking' = FALSE
        /\ UNCHANGED <<ftpState, status, timer, server, direction, size, opened, fileBuffer,
                       fileBufferSize, dataUp, unread, bytesTransfered, sent, cut>>
    BY <1>4 DEF TransferReturns
  <2>2. ClientTypeOK'
    <3> HIDE DEF Chunks, Waiting, Busy, Over, Puts, Gets
    <3> QED
      BY <2>1, Zenon
  <2>3. Accounts'
    BY <2>1
  <2> QED
    BY <2>2, <2>3
<1>5. CASE handleNothing
  BY <1>5 DEF handleNothing
<1>6. QED
  BY <1>1, <1>2, <1>3, <1>4, <1>5

\* The steps before the data connection.
LEMMA ControlKeeps ==
    ASSUME ClientInv,
           \/ handleConnect \/ waitForBegin \/ waitForTimeout
           \/ handlePassiveAgain \/ \E right \in BOOLEAN : waitForLine(right)
    PROVE  ClientInv'
<1> USE ChunksAssumption DEF ClientInv, Accounts, TransferWhole, OkIsWhole, ClientTypeOK, Chunks, Waiting,
        Busy, Over, Blocking, Puts, Gets, OpenedToWrite, orderVars, localVars, moveVars
<1>1. CASE handleConnect
  BY <1>1 DEF handleConnect
<1>2. CASE waitForBegin
  BY <1>2 DEF waitForBegin
<1>3. CASE waitForTimeout
  BY <1>3 DEF waitForTimeout
<1>4. CASE handlePassiveAgain
  BY <1>4 DEF handlePassiveAgain
<1>5. ASSUME NEW right \in BOOLEAN, waitForLine(right)
      PROVE  ClientInv'
  <2>1. ftpState \in Waiting /\ ftpState' \in {NextState[ftpState], "cError"}
    BY <1>5 DEF waitForLine
  <2>2. ftpState' \in {"cUser", "cPassword", "cPassive", "cData", "cError"}
    BY <2>1 DEF NextState
  <2>3. QED
    BY <1>5, <2>1, <2>2 DEF waitForLine
<1>6. QED
  BY <1>1, <1>2, <1>3, <1>4, <1>5

\* The data connection: chunks that are read, written, sent or lost.
LEMMA DataKeeps ==
    ASSUME ClientInv,
           \/ handleDataRefused \/ handleData \/ doFiletoNetwork \/ doNetworkToFile
           \/ ServerSends \/ ServerCloses
    PROVE  ClientInv'
<1> USE ChunksAssumption DEF ClientInv, Accounts, TransferWhole, OkIsWhole, ClientTypeOK, Chunks, Waiting,
        Busy, Over, Blocking, Puts, Gets, OpenedToWrite, orderVars, localVars, moveVars
<1>1. CASE handleDataRefused
  <2>1. ClientTypeOK'
    <3>1. unread' \in Chunks
      BY <1>1 DEF handleDataRefused
    <3>2. dataUp' \in BOOLEAN
      BY <1>1 DEF handleDataRefused
    <3>3. QED
      BY <1>1, <3>1, <3>2 DEF handleDataRefused
  <2>2. Accounts'
    BY <1>1 DEF handleDataRefused
  <2>3. QED
    BY <2>1, <2>2
<1>2. CASE handleData
  <2>1. ClientTypeOK'
    <3>1. /\ unread' \in Chunks /\ bytesTransfered' \in Chunks /\ sent' \in Chunks
          /\ size' \in Chunks
      BY <1>2 DEF handleData
    <3>2. /\ dataUp' \in BOOLEAN /\ cut' \in BOOLEAN /\ opened' \in BOOLEAN
          /\ fileBuffer' \in BOOLEAN /\ fileBufferSize' \in BOOLEAN
          /\ server' \in BOOLEAN /\ blocking' \in BOOLEAN
      BY <1>2 DEF handleData
    <3>3. QED
      BY <1>2, <3>1, <3>2 DEF handleData
  <2>2. Accounts'
    BY <1>2 DEF handleData
  <2>3. QED
    BY <2>1, <2>2
<1>3. CASE doFiletoNetwork
  <2>1. ClientTypeOK'
    BY <1>3 DEF doFiletoNetwork, Moved, connected
  <2>2. Accounts'
    BY <1>3 DEF doFiletoNetwork, Moved, connected
  <2>3. QED
    BY <2>1, <2>2
<1>4. CASE doNetworkToFile
  BY <1>4 DEF doNetworkToFile, Moved
<1>5. CASE ServerSends
  BY <1>5 DEF ServerSends
<1>6. CASE ServerCloses
  <2>1. ClientTypeOK'
    <3>1. /\ unread' \in Chunks /\ bytesTransfered' \in Chunks /\ sent' \in Chunks
          /\ size' \in Chunks
      BY <1>6 DEF ServerCloses
    <3>2. /\ dataUp' \in BOOLEAN /\ cut' \in BOOLEAN /\ opened' \in BOOLEAN
          /\ fileBuffer' \in BOOLEAN /\ fileBufferSize' \in BOOLEAN
          /\ server' \in BOOLEAN /\ blocking' \in BOOLEAN
      BY <1>6 DEF ServerCloses
    <3>3. QED
      BY <1>6, <3>1, <3>2 DEF ServerCloses
  <2>2. Accounts'
    BY <1>6 DEF ServerCloses
  <2>3. QED
    BY <2>1, <2>2
<1>7. QED
  BY <1>1, <1>2, <1>3, <1>4, <1>5, <1>6

\* The end of a transfer, and of the processor's patience.
LEMMA EndKeeps ==
    ASSUME ClientInv, noBuffer \/ handleFinish \/ handleQuit \/ handleIdle \/ TenSeconds
    PROVE  ClientInv'
<1> USE ChunksAssumption DEF ClientInv, Accounts, TransferWhole, OkIsWhole, ClientTypeOK, Chunks, Waiting,
        Busy, Over, Blocking, Puts, Gets, OpenedToWrite, orderVars, localVars, moveVars
<1>1. CASE noBuffer
  <2>1. ClientTypeOK'
    <3>1. /\ unread' \in Chunks /\ bytesTransfered' \in Chunks /\ sent' \in Chunks
          /\ size' \in Chunks
      BY <1>1 DEF noBuffer
    <3>2. /\ dataUp' \in BOOLEAN /\ cut' \in BOOLEAN /\ opened' \in BOOLEAN
          /\ fileBuffer' \in BOOLEAN /\ fileBufferSize' \in BOOLEAN
          /\ server' \in BOOLEAN /\ blocking' \in BOOLEAN
      BY <1>1 DEF noBuffer
    <3>3. QED
      BY <1>1, <3>1, <3>2 DEF noBuffer
  <2>2. Accounts'
    BY <1>1 DEF noBuffer
  <2>3. QED
    BY <2>1, <2>2
<1>2. CASE handleFinish
  <2>1. ClientTypeOK'
    <3>1. /\ unread' \in Chunks /\ bytesTransfered' \in Chunks /\ sent' \in Chunks
          /\ size' \in Chunks
      BY <1>2 DEF handleFinish
    <3>2. /\ dataUp' \in BOOLEAN /\ cut' \in BOOLEAN /\ opened' \in BOOLEAN
          /\ fileBuffer' \in BOOLEAN /\ fileBufferSize' \in BOOLEAN
          /\ server' \in BOOLEAN /\ blocking' \in BOOLEAN
      BY <1>2 DEF handleFinish
    <3>3. QED
      BY <1>2, <3>1, <3>2 DEF handleFinish
  <2>2. Accounts'
    BY <1>2 DEF handleFinish
  <2>3. QED
    BY <2>1, <2>2
<1>3. CASE handleQuit
  <2>1. ClientTypeOK'
    BY <1>3 DEF handleQuit
  <2>2. Accounts'
    BY <1>3 DEF handleQuit
  <2>3. QED
    BY <2>1, <2>2
<1>4. CASE handleIdle
  <2>1. ClientTypeOK'
    <3>1. /\ unread' \in Chunks /\ bytesTransfered' \in Chunks /\ sent' \in Chunks
          /\ size' \in Chunks
      BY <1>4 DEF handleIdle
    <3>2. /\ dataUp' \in BOOLEAN /\ cut' \in BOOLEAN /\ opened' \in BOOLEAN
          /\ fileBuffer' \in BOOLEAN /\ fileBufferSize' \in BOOLEAN
          /\ server' \in BOOLEAN /\ blocking' \in BOOLEAN
      BY <1>4 DEF handleIdle
    <3>3. QED
      BY <1>4, <3>1, <3>2 DEF handleIdle
  <2>2. Accounts'
    BY <1>4 DEF handleIdle
  <2>3. QED
    BY <2>1, <2>2
<1>5. CASE TenSeconds
  <2>1. ClientTypeOK'
    BY <1>5 DEF TenSeconds
  <2>2. Accounts'
    BY <1>5 DEF TenSeconds
  <2>3. QED
    BY <2>1, <2>2
<1>6. QED
  BY <1>1, <1>2, <1>3, <1>4, <1>5

LEMMA ClientInductive == ClientSpec => []ClientInv
<1>1. ASSUME ClientInit
      PROVE  ClientInv
  <2> USE <1>1, ChunksAssumption DEF ClientInit
  <2>1. 0 \in Chunks /\ {TRUE, FALSE} \subseteq BOOLEAN
    BY DEF Chunks
  <2>2. ClientTypeOK
    BY <2>1 DEF ClientTypeOK, Waiting, Busy, Over, Puts, Gets
  <2>3. Accounts
    BY DEF Accounts, TransferWhole, OkIsWhole, Busy, Waiting, Puts, Gets
  <2>4. QED
    BY <2>2, <2>3 DEF ClientInv
<1>2. ClientInv /\ [ClientNext]_cvars => ClientInv'
  <2> SUFFICES ASSUME ClientInv, [ClientNext]_cvars
               PROVE  ClientInv'
    OBVIOUS
  <2>1. CASE ClientNext
    BY <2>1, UserKeeps, ControlKeeps, DataKeeps, EndKeeps
       DEF ClientNext, handleSilence, handleLine
  <2>2. CASE UNCHANGED cvars
    BY <2>2 DEF cvars, ClientInv, Accounts, TransferWhole, OkIsWhole, ClientTypeOK, orderVars, localVars,
       moveVars
  <2>3. QED
    BY <2>1, <2>2
<1>3. QED
  BY <1>1, <1>2, PTL DEF ClientSpec

-----------------------------------------------------------------------------
\* The timer runs only while a reply is waited for, a transfer under way has its
\* file open, and a buffer its size (FTPClient.cpp:223-285, FTPCommon.cpp:28-57).
THEOREM ClientTypes == ClientSpec => []ClientTypeOK
<1>1. ClientInv => ClientTypeOK
  BY DEF ClientInv
<1>2. QED
  BY <1>1, ClientInductive, PTL

\* What FTPClient.cpp:201 reports OK is whole, up to what the server cut off.
THEOREM OkTransfersAreWhole == ClientSpec => []OkIsWhole
<1>1. ClientInv => OkIsWhole
  BY DEF ClientInv, Accounts
<1>2. QED
  BY <1>1, ClientInductive, PTL

-----------------------------------------------------------------------------
(* FtpPath *)

Chars == Letters \cup {Slash}

\* A bounded string is a sequence of characters.
LEMMA StringsAre ==
    ASSUME NEW n \in Nat, NEW s
    PROVE  s \in Strings(n) <=> s \in Seq(Chars) /\ Len(s) <= n
<1>1. ASSUME s \in Strings(n)
      PROVE  s \in Seq(Chars) /\ Len(s) <= n
  <2>1. PICK k \in 0 .. n : s \in [1 .. k -> Chars]
    BY <1>1 DEF Strings, Chars
  <2> QED
    BY <2>1
<1>2. ASSUME s \in Seq(Chars), Len(s) <= n
      PROVE  s \in Strings(n)
  <2>1. Len(s) \in 0 .. n /\ s \in [1 .. Len(s) -> Chars]
    BY <1>2
  <2> QED
    BY <2>1 DEF Strings, Chars
<1> QED
  BY <1>1, <1>2

-----------------------------------------------------------------------------
(* The normal form of a path *)

\* Places among the numbers of a set: they are numbered without a gap, in order.
LEMMA Ranks ==
    ASSUME NEW n \in Nat, NEW S \in SUBSET (1 .. n)
    PROVE  /\ IsFiniteSet(S) /\ Cardinality(S) \in 0 .. n
           /\ \A i \in S : Rank(S, i) \in 1 .. Cardinality(S)
           /\ \A i, j \in S : i < j => Rank(S, i) < Rank(S, j)
           /\ \A k \in 1 .. Cardinality(S) : \E i \in S : Rank(S, i) = k
<1> DEFINE upTo(i) == {j \in S : j <= i}
<1>1. IsFiniteSet(S) /\ Cardinality(S) \in 0 .. n
  <2>1. IsFiniteSet(1 .. n) /\ Cardinality(1 .. n) = n
    BY FS_Interval
  <2>2. IsFiniteSet(S) /\ Cardinality(S) <= n
    BY <2>1, FS_Subset
  <2> QED
    BY <2>2, FS_CardinalityType
<1>2. \A i \in S : IsFiniteSet(upTo(i)) /\ Cardinality(upTo(i)) \in 1 .. Cardinality(S)
  <2> SUFFICES ASSUME NEW i \in S
               PROVE  IsFiniteSet(upTo(i)) /\ Cardinality(upTo(i)) \in 1 .. Cardinality(S)
    OBVIOUS
  <2>1. upTo(i) \in SUBSET S /\ i \in upTo(i)
    OBVIOUS
  <2> HIDE DEF upTo
  <2>2. IsFiniteSet(upTo(i)) /\ Cardinality(upTo(i)) <= Cardinality(S)
    BY <1>1, <2>1, FS_Subset
  <2>3. Cardinality(upTo(i)) \in Nat /\ Cardinality(upTo(i)) # 0
    BY <2>1, <2>2, FS_CardinalityType, FS_EmptySet
  <2> QED
    BY <1>1, <2>2, <2>3
<1>3. ASSUME NEW i \in S, NEW j \in S, i < j
      PROVE  Cardinality(upTo(i)) < Cardinality(upTo(j))
  <2>1. upTo(i) \in SUBSET upTo(j) /\ j \in upTo(j) /\ j \notin upTo(i)
    <3>1. \A l \in S : l \in Int
      OBVIOUS
    <3>2. \A l \in S : l <= i => l <= j
      BY <1>3, <3>1
    <3>3. j <= j /\ ~(j <= i)
      BY <1>3, <3>1
    <3> QED
      BY <3>2, <3>3
  <2> HIDE DEF upTo
  <2>2. /\ Cardinality(upTo(i)) <= Cardinality(upTo(j))
        /\ Cardinality(upTo(j)) = Cardinality(upTo(i)) => upTo(j) = upTo(i)
    BY <1>2, <2>1, FS_Subset
  <2> QED
    BY <1>1, <1>2, <2>1, <2>2
<1>4. ASSUME NEW k \in 1 .. Cardinality(S)
      PROVE  \E i \in S : Cardinality(upTo(i)) = k
  <2> DEFINE f == [i \in S |-> Cardinality(upTo(i))]
             T == 1 .. Cardinality(S)
  <2>1. f \in [S -> T]
    BY <1>2
  <2>2. f \in Injection(S, T)
    <3>1. ASSUME NEW i \in S, NEW j \in S, f[i] = f[j]
          PROVE  i = j
      <4>1. ~(i < j) /\ ~(j < i)
        <5>1. f[i] \in Nat /\ f[j] \in Nat
          BY <1>1, <1>2
        <5> QED
          BY <1>1, <1>3, <3>1, <5>1
      <4>2. i \in Int /\ j \in Int
        OBVIOUS
      <4> QED
        BY <4>1, <4>2
    <3> QED
      BY <2>1, <3>1 DEF Injection, IsInjective
  <2>3. IsFiniteSet(T) /\ Cardinality(T) = Cardinality(S)
    BY <1>1, FS_Interval
  <2>4. f \in Surjection(S, T)
    <3> HIDE DEF f, T
    <3> QED
      BY <2>2, <2>3, FS_Injection
  <2>5. \E i \in S : f[i] = k
    BY <2>4 DEF Surjection
  <2> QED
    BY <2>5
<1> QED
  BY <1>1, <1>2, <1>3, <1>4 DEF Rank

\* The next number of the set has the next place.
LEMMA NextRank ==
    ASSUME NEW n \in Nat, NEW S \in SUBSET (1 .. n), NEW i \in S, i + 1 \in S
    PROVE  Rank(S, i + 1) = Rank(S, i) + 1
<1> DEFINE U == {j \in S : j <= i}
           V == {j \in S : j <= i + 1}
<1>1. \A l \in S : l \in Int
  OBVIOUS
<1>2. V = U \cup {i + 1} /\ i + 1 \notin U
  <2>1. \A l \in S : l <= i + 1 <=> l <= i \/ l = i + 1
    BY <1>1
  <2>2. ~(i + 1 <= i)
    BY <1>1
  <2> QED
    BY <2>1, <2>2
<1>3. IsFiniteSet(U)
  <2>1. U \in SUBSET S /\ IsFiniteSet(S)
    BY Ranks
  <2> QED
    BY <2>1, FS_Subset
<1>4. Cardinality(V) = Cardinality(U) + 1
  <2> HIDE DEF U, V
  <2> QED
    BY <1>2, <1>3, FS_AddElement
<1> QED
  BY <1>4 DEF Rank

\* Every slash has a name behind it.
IsNormal(s) ==
    \A i \in DOMAIN s : s[i] = Slash => i # Len(s) /\ s[i + 1] # Slash

\* What Normal keeps, in the places of the order they were in.
LEMMA NormalKeeps ==
    ASSUME NEW s \in Seq(Chars)
    PROVE  /\ Kept(s) \in SUBSET (1 .. Len(s)) /\ Len(s) \in Nat
           /\ Cardinality(Kept(s)) \in 0 .. Len(s)
           /\ Normal(s) \in Seq(Chars) /\ Len(Normal(s)) = Cardinality(Kept(s))
           /\ \A i \in Kept(s) : /\ Rank(Kept(s), i) \in 1 .. Len(Normal(s))
                                 /\ Normal(s)[Rank(Kept(s), i)] = s[i]
           /\ \A k \in 1 .. Len(Normal(s)) : \E i \in Kept(s) : Rank(Kept(s), i) = k
<1> DEFINE K == Kept(s)
           at(k) == CHOOSE i \in K : Rank(K, i) = k
           last == Cardinality(K)
<1>1. K \in SUBSET (1 .. Len(s)) /\ Len(s) \in Nat
  BY DEF Kept
<1> HIDE DEF K
<1>2. /\ last \in 0 .. Len(s)
      /\ \A i \in K : Rank(K, i) \in 1 .. last
      /\ \A i, j \in K : i < j => Rank(K, i) < Rank(K, j)
      /\ \A k \in 1 .. last : \E i \in K : Rank(K, i) = k
  BY <1>1, Ranks
<1>3. \A k \in 1 .. last : at(k) \in K /\ Rank(K, at(k)) = k
  BY <1>2
<1>4. ASSUME NEW i \in K
      PROVE  at(Rank(K, i)) = i
  <2> DEFINE j == at(Rank(K, i))
  <2>1. j \in K /\ Rank(K, j) = Rank(K, i)
    BY <1>2, <1>3
  <2> HIDE DEF j
  <2>2. i \in Int /\ j \in Int /\ Rank(K, i) \in Int
    BY <1>1, <1>2, <2>1
  <2>3. ~(i < j) /\ ~(j < i)
    BY <1>2, <2>1, <2>2
  <2>4. i = j
    BY <2>2, <2>3
  <2> QED
    BY <2>4 DEF j
<1>5. Normal(s) = [k \in 1 .. last |-> s[at(k)]]
  BY DEF Normal, K
<1> HIDE DEF at
<1>6. \A k \in 1 .. last : s[at(k)] \in Chars
  <2>1. \A i \in 1 .. Len(s) : s[i] \in Chars
    OBVIOUS
  <2> QED
    BY <1>1, <1>3, <2>1
<1>7. last \in Nat
  BY <1>1, <1>2
<1> HIDE DEF last
<1>8. Normal(s) \in Seq(Chars) /\ Len(Normal(s)) = last /\ \A k \in 1 .. last : Normal(s)[k] = s[at(k)]
  BY <1>5, <1>6, <1>7
<1>9. last = Cardinality(K)
  BY DEF last
<1> QED
  BY <1>1, <1>2, <1>4, <1>8, <1>9 DEF K

\* The normal form is normal.
LEMMA NormalIsNormal ==
    ASSUME NEW s \in Seq(Chars)
    PROVE  IsNormal(Normal(s))
<1> DEFINE K == Kept(s)
           t == Normal(s)
<1> SUFFICES ASSUME NEW k \in DOMAIN t, t[k] = Slash
             PROVE  k # Len(t) /\ t[k + 1] # Slash
  BY DEF IsNormal
<1>1. /\ K \in SUBSET (1 .. Len(s)) /\ Len(s) \in Nat
      /\ t \in Seq(Chars) /\ Len(t) \in Nat
      /\ \A i \in K : Rank(K, i) \in 1 .. Len(t) /\ t[Rank(K, i)] = s[i]
      /\ \A l \in 1 .. Len(t) : \E i \in K : Rank(K, i) = l
  BY NormalKeeps
<1>2. PICK i \in K : Rank(K, i) = k
  BY <1>1
<1>3. s[i] = Slash
  BY <1>1, <1>2
<1>4. i + 1 \in K /\ s[i + 1] # Slash
  BY <1>1, <1>2, <1>3 DEF Kept
<1> HIDE DEF K, t
<1>5. Rank(K, i + 1) = k + 1
  BY <1>1, <1>2, <1>4, NextRank
<1>6. k + 1 \in 1 .. Len(t) /\ t[k + 1] = s[i + 1]
  BY <1>1, <1>4, <1>5
<1> QED
  BY <1>1, <1>4, <1>6

\* A path is its own normal form if it is normal, and only then.
LEMMA NormalForm ==
    ASSUME NEW s \in Seq(Chars)
    PROVE  Normal(s) = s <=> IsNormal(s)
<1>1. ASSUME IsNormal(s)
      PROVE  Normal(s) = s
  <2>1. Kept(s) = 1 .. Len(s)
    BY <1>1 DEF Kept, IsNormal
  <2>2. Len(s) \in Nat /\ Cardinality(1 .. Len(s)) = Len(s)
    <3>1. Len(s) \in Nat /\ Len(s) \in Int /\ 1 \in Int
      OBVIOUS
    <3>2. Cardinality(1 .. Len(s)) = IF 1 > Len(s) THEN 0 ELSE Len(s) - 1 + 1
      BY <3>1, FS_Interval
    <3> QED
      BY <3>1, <3>2
  <2>3. ASSUME NEW i \in 1 .. Len(s)
        PROVE  Rank(1 .. Len(s), i) = i
    <3>1. {j \in 1 .. Len(s) : j <= i} = 1 .. i
      OBVIOUS
    <3>2. Cardinality(1 .. i) = i
      BY FS_Interval
    <3> QED
      BY <3>1, <3>2 DEF Rank
  <2>4. /\ Normal(s) \in Seq(Chars) /\ Len(Normal(s)) = Len(s)
        /\ \A i \in 1 .. Len(s) : Normal(s)[Rank(1 .. Len(s), i)] = s[i]
    BY <2>1, <2>2, NormalKeeps
  <2> QED
    BY <2>3, <2>4
<1>2. ASSUME Normal(s) = s
      PROVE  IsNormal(s)
  BY <1>2, NormalIsNormal
<1> QED
  BY <1>1, <1>2

LEMMA NormalTwice ==
    ASSUME NEW s \in Seq(Chars)
    PROVE  Normal(s) \in Seq(Chars) /\ Normal(Normal(s)) = Normal(s)
<1>1. Normal(s) \in Seq(Chars) /\ IsNormal(Normal(s))
  BY NormalKeeps, NormalIsNormal
<1> QED
  BY <1>1, NormalForm

-----------------------------------------------------------------------------
(* The paths the server makes *)

LEMMA LastPlace ==
    ASSUME NEW n \in Nat, NEW S \in SUBSET (1 .. n), S # {}
    PROVE  \E i \in S : \A j \in S : j <= i
<1>1. /\ IsFiniteSet(S) /\ Cardinality(S) \in 0 .. n
      /\ \A i \in S : Rank(S, i) \in 1 .. Cardinality(S)
      /\ \A i, j \in S : i < j => Rank(S, i) < Rank(S, j)
      /\ \A k \in 1 .. Cardinality(S) : \E i \in S : Rank(S, i) = k
  BY Ranks
<1>2. Cardinality(S) \in 1 .. Cardinality(S)
  BY <1>1, FS_EmptySet
<1>3. PICK i \in S : Rank(S, i) = Cardinality(S)
  BY <1>1, <1>2
<1>4. ASSUME NEW j \in S, ~(j <= i)
      PROVE  FALSE
  <2>1. i < j
    BY <1>4
  <2> QED
    BY <1>1, <1>3, <2>1
<1> QED
  BY <1>4

\* A path that starts with a slash, as long as anything is left of it.
IsAbsolute(s) == s \in Seq(Chars) /\ (s # <<>> => s[1] = Slash)

LEMMA Removed ==
    ASSUME NEW s, IsAbsolute(s), NEW k \in Nat
    PROVE  /\ IsAbsolute(remove(s, k))
           /\ Len(remove(s, k)) = IF k >= Len(s) THEN Len(s) ELSE k
           /\ \A i \in 1 .. Len(remove(s, k)) : remove(s, k)[i] = s[i]
<1>1. CASE k >= Len(s)
  BY <1>1 DEF remove, IsAbsolute
<1>2. CASE ~(k >= Len(s))
  <2>1. s \in Seq(Chars) /\ Len(s) \in Nat /\ k < Len(s) /\ s # <<>> /\ s[1] = Slash
    BY <1>2 DEF IsAbsolute
  <2>2. remove(s, k) = SubSeq(s, 1, k)
    BY <1>2 DEF remove
  <2>3. /\ SubSeq(s, 1, k) \in Seq(Chars) /\ Len(SubSeq(s, 1, k)) = k
        /\ \A i \in 1 .. k : SubSeq(s, 1, k)[i] = s[i]
    BY <2>1
  <2> QED
    BY <1>2, <2>1, <2>2, <2>3 DEF IsAbsolute
<1> QED
  BY <1>1, <1>2

\* To rest a path off at its last slash leaves less of it, up to before a slash.
LEMMA Stripped ==
    ASSUME NEW s, IsAbsolute(s), s # <<>>
    PROVE  /\ IsAbsolute(stripped(s)) /\ Len(stripped(s)) < Len(s)
           /\ \A i \in 1 .. Len(stripped(s)) : stripped(s)[i] = s[i]
           /\ s[Len(stripped(s)) + 1] = Slash
           /\ \A j \in Len(stripped(s)) + 2 .. Len(s) : s[j] # Slash
<1> DEFINE slashes == {i \in DOMAIN s : s[i] = Slash}
           last == CHOOSE i \in slashes : \A j \in slashes : j <= i
<1>1. s \in Seq(Chars) /\ Len(s) \in Nat /\ s[1] = Slash /\ 1 \in DOMAIN s /\ DOMAIN s = 1 .. Len(s)
  BY DEF IsAbsolute
<1>2. slashes # {} /\ slashes \in SUBSET (1 .. Len(s))
  BY <1>1
<1>3. last \in slashes /\ \A j \in slashes : j <= last
  <2> HIDE DEF slashes
  <2> QED
    BY <1>1, <1>2, LastPlace
<1>4. stripped(s) = remove(s, last - 1)
  BY <1>2 DEF stripped
<1>5. last \in 1 .. Len(s) /\ s[last] = Slash /\ \A j \in last + 1 .. Len(s) : s[j] # Slash
  <2>1. last \in 1 .. Len(s) /\ s[last] = Slash
    BY <1>1, <1>3
  <2>2. ASSUME NEW j \in last + 1 .. Len(s), s[j] = Slash
        PROVE  FALSE
    <3>1. j \in 1 .. Len(s) /\ ~(j <= last)
      BY <1>1, <2>1
    <3>2. j \in slashes
      BY <1>1, <2>2, <3>1
    <3> QED
      BY <1>3, <3>1, <3>2
  <2> QED
    BY <2>1, <2>2
<1> HIDE DEF last
<1>6. last - 1 \in Nat /\ ~(last - 1 >= Len(s)) /\ (last - 1) + 1 = last /\ last - 1 < Len(s)
  BY <1>1, <1>5
<1> DEFINE n == last - 1
<1>7. /\ n \in Nat /\ stripped(s) = remove(s, n) /\ ~(n >= Len(s)) /\ n + 1 = last /\ n < Len(s)
  BY <1>4, <1>6
<1> HIDE DEF n
<1>8. /\ IsAbsolute(remove(s, n)) /\ Len(remove(s, n)) = n
      /\ \A i \in 1 .. Len(remove(s, n)) : remove(s, n)[i] = s[i]
  BY <1>7, Removed
<1> QED
  BY <1>5, <1>7, <1>8

LEMMA EndsWith ==
    ASSUME NEW s \in Seq(Chars)
    PROVE  endsWithSlash(s) <=> s # <<>> /\ s[Len(s)] = Slash
BY DEF endsWithSlash, Last

LEMMA OnlySlash ==
    ASSUME NEW t \in Seq(Chars), t # <<>>, t[1] = Slash, Len(t) <= 1
    PROVE  t = <<Slash>>
<1>1. Len(t) \in Nat \ {0}
  BY EmptySeq
<1>2. Len(t) = 1
  BY <1>1
<1> QED
  BY <1>2

\* A path is made that is absolute and, unless the loop is without an end or it is
\* the root's, does not end with a slash.
LEMMA Sanetized ==
    ASSUME PathTypeOK, NEW s, IsAbsolute(s)
    PROVE  /\ IsAbsolute(sanetized(s)) /\ sanetized(s) # <<>>
           /\ sanetized(s) = <<Slash>> \/ Len(sanetized(s)) <= Len(s)
           /\ ~Endless(s) /\ endsWithSlash(sanetized(s)) => sanetized(s) = <<Slash>>
<1> DEFINE rest == remove(s, Len(cwd) - 1)
           once == IF Len(s) > 1 /\ endsWithSlash(s) THEN rest ELSE s
<1>1. s \in Seq(Chars) /\ Len(s) \in Nat
  BY DEF IsAbsolute
<1>2. Len(cwd) - 1 \in Nat
  <2>1. cwd \in Seq(Chars) /\ cwd # <<>>
    BY LengthAssumption, StringsAre DEF PathTypeOK
  <2> QED
    BY <2>1
<1>3. /\ IsAbsolute(rest) /\ Len(rest) <= Len(s)
  <2>1. IsAbsolute(rest) /\ Len(rest) = IF Len(cwd) - 1 >= Len(s) THEN Len(s) ELSE Len(cwd) - 1
    BY <1>2, Removed
  <2> QED
    BY <1>1, <1>2, <2>1
<1> HIDE DEF rest
<1>4. IsAbsolute(once) /\ Len(once) <= Len(s)
  BY <1>1, <1>3
<1>5. sanetized(s) = IF once = <<>> THEN <<Slash>> ELSE once
  BY DEF sanetized, rest
<1>6. IsAbsolute(<<Slash>>) /\ <<Slash>> # <<>>
  BY DEF IsAbsolute, Chars
<1>7. once = IF Len(s) > 1 /\ endsWithSlash(s) THEN rest ELSE s
  OBVIOUS
<1> HIDE DEF once
<1>8. ASSUME ~Endless(s), endsWithSlash(once)
      PROVE  once = <<Slash>>
  <2>1. Len(once) <= 1
    <3>1. CASE Len(s) > 1 /\ endsWithSlash(s)
      <4>1. once = rest /\ ~(Len(rest) > 1 /\ endsWithSlash(rest)) /\ Len(rest) \in Nat
        BY <1>3, <1>7, <1>8, <3>1 DEF Endless, rest, IsAbsolute
      <4> QED
        BY <1>8, <4>1
    <3>2. CASE ~(Len(s) > 1 /\ endsWithSlash(s))
      BY <1>1, <1>7, <1>8, <3>2
    <3> QED
      BY <3>1, <3>2
  <2>2. once \in Seq(Chars) /\ once # <<>> /\ once[1] = Slash
    BY <1>4, <1>8 DEF IsAbsolute, endsWithSlash
  <2> QED
    BY <2>1, <2>2, OnlySlash
<1> QED
  BY <1>4, <1>5, <1>6, <1>8

\* What a parameter is joined to is absolute.
LEMMA Joined ==
    ASSUME PathTypeOK, NEW param \in Seq(Chars)
    PROVE  IsAbsolute(joined(param)) /\ joined(param) # <<>>
<1>1. cwd \in Seq(Chars) /\ cwd # <<>> /\ cwd[1] = Slash
  BY LengthAssumption, StringsAre DEF PathTypeOK
<1>2. CASE param # <<>> /\ param[1] = Slash
  BY <1>2 DEF joined, IsAbsolute
<1>3. CASE param = <<>>
  BY <1>1, <1>3 DEF joined, IsAbsolute
<1>4. CASE param # <<>> /\ param[1] # Slash
  <2> DEFINE front == IF endsWithSlash(cwd) THEN cwd ELSE Append(cwd, Slash)
  <2>1. Slash \in Chars
    BY DEF Chars
  <2>2. front \in Seq(Chars) /\ front # <<>> /\ front[1] = Slash
    BY <1>1, <2>1
  <2>3. joined(param) = front \o param
    BY <1>4 DEF joined
  <2> HIDE DEF front
  <2>4. Len(front) \in Nat /\ Len(front) > 0
    BY <2>2
  <2>5. /\ front \o param \in Seq(Chars) /\ front \o param # <<>> /\ (front \o param)[1] = front[1]
    BY <2>2, <2>4
  <2> QED
    BY <2>2, <2>3, <2>5 DEF IsAbsolute
<1> QED
  BY <1>2, <1>3, <1>4

-----------------------------------------------------------------------------
(* Whatever clients send *)

LEMMA CwdFacts ==
    ASSUME PathTypeOK
    PROVE  /\ cwd \in Seq(Chars) /\ cwd # <<>> /\ cwd[1] = Slash /\ Len(cwd) <= MaxCwd
           /\ IsAbsolute(cwd) /\ MaxCwd \in Nat \ {0}
BY LengthAssumption, StringsAre DEF PathTypeOK, IsAbsolute

LEMMA Root == <<Slash>> \in Strings(MaxCwd) /\ <<>> \in Strings(MaxCwd)
<1>1. <<Slash>> \in Seq(Chars) /\ Len(<<Slash>>) = 1 /\ <<>> \in Seq(Chars) /\ Len(<<>>) = 0
  BY DEF Chars
<1>2. MaxCwd \in Nat /\ 1 <= MaxCwd /\ 0 <= MaxCwd
  BY LengthAssumption
<1> QED
  BY <1>1, <1>2, StringsAre

\* The path of a command's parameter.
LEMMA FullPath ==
    ASSUME PathTypeOK, NEW param \in Parameters
    PROVE  /\ IsAbsolute(getPathName(param, TRUE)) /\ getPathName(param, TRUE) # <<>>
           /\ getPathName(param, TRUE) \in Seq(Chars)
           /\ ~getPathNameHangs(param, TRUE) /\ endsWithSlash(getPathName(param, TRUE)) =>
                  getPathName(param, TRUE) = <<Slash>>
<1>1. param \in Seq(Chars)
  BY LengthAssumption, StringsAre DEF Parameters
<1>2. IsAbsolute(joined(param))
  BY <1>1, Joined
<1>3. /\ getPathName(param, TRUE) = sanetized(joined(param))
      /\ getPathNameHangs(param, TRUE) = Endless(joined(param))
  BY DEF getPathName, getPathNameHangs
<1> QED
  BY <1>2, <1>3, Sanetized DEF IsAbsolute

\* The paths, in the invariant that the properties rest on.
LEMMA PathStep ==
    ASSUME PathTypeOK, [PathNext]_pathVars
    PROVE  PathTypeOK'
<1>1. CASE UNCHANGED pathVars
  BY <1>1 DEF PathTypeOK, pathVars, Normal, Kept, Rank, endsWithSlash
<1>2. ASSUME NEW param, NEW fullname, Hang(param, fullname)
      PROVE  PathTypeOK'
  BY <1>2 DEF Hang, PathTypeOK
<1>3. ASSUME NEW param \in Parameters, CWD(param)
      PROVE  PathTypeOK'
  <2>1. CASE Hang(param, TRUE)
    BY <1>2, <2>1
  <2>2. CASE ~Hang(param, TRUE)
    <3> DEFINE path == getPathName(param, TRUE)
    <3>1. /\ ~getPathNameHangs(param, TRUE) /\ Len(path) <= MaxCwd
          /\ cwd' = IF Normal(path) \in dirs THEN path ELSE cwd
          /\ dirs' = dirs /\ hung' = hung
      BY <1>3, <2>2 DEF CWD
    <3>2. /\ path \in Seq(Chars) /\ path # <<>> /\ path[1] = Slash
          /\ endsWithSlash(path) => path = <<Slash>>
      BY <3>1, FullPath DEF IsAbsolute
    <3> HIDE DEF path
    <3>3. path \in Strings(MaxCwd)
      BY <3>1, <3>2, LengthAssumption, StringsAre
    <3>4. CASE cwd' = path
      BY <3>1, <3>2, <3>3, <3>4 DEF PathTypeOK, endsWithSlash
    <3>5. CASE cwd' = cwd
      BY <3>1, <3>5 DEF PathTypeOK, endsWithSlash
    <3> QED
      BY <3>1, <3>4, <3>5
  <2> QED
    BY <2>1, <2>2
<1>4. ASSUME CDUP
      PROVE  PathTypeOK'
  <2>1. CASE Hang(<<>>, FALSE)
    BY <1>2, <2>1
  <2>2. CASE ~Hang(<<>>, FALSE)
    <3> DEFINE up == stripped(cwd)
               path == sanetized(up)
    <3>1. /\ ~getPathNameHangs(<<>>, FALSE) /\ cwd' = getPathName(<<>>, FALSE)
          /\ dirs' = dirs /\ hung' = hung
      BY <1>4, <2>2 DEF CDUP
    <3>2. joined(<<>>) = cwd
      BY DEF joined
    <3>3. ~Endless(up) /\ cwd' = path
      BY <3>1, <3>2 DEF getPathName, getPathNameHangs
    <3>4. /\ IsAbsolute(up) /\ Len(up) < Len(cwd) /\ Len(cwd) <= MaxCwd
          /\ Len(cwd) \in Nat /\ MaxCwd \in Nat
      BY CwdFacts, Stripped
    <3> HIDE DEF up
    <3>5. /\ path \in Seq(Chars) /\ path # <<>> /\ path[1] = Slash
          /\ path = <<Slash>> \/ Len(path) <= Len(up)
          /\ endsWithSlash(path) => path = <<Slash>>
      BY <3>3, <3>4, Sanetized DEF IsAbsolute
    <3> HIDE DEF path
    <3>6. path \in Strings(MaxCwd)
      <4>1. CASE path = <<Slash>>
        BY <4>1, Root
      <4>2. CASE path # <<Slash>>
        <5>1. Len(path) <= MaxCwd
          <6>1. Len(up) \in Nat /\ Len(path) \in Nat /\ Len(path) <= Len(up)
            BY <3>4, <3>5, <4>2 DEF IsAbsolute
          <6> QED
            BY <3>4, <6>1
        <5> QED
          BY <3>4, <3>5, <5>1, StringsAre
      <4> QED
        BY <4>1, <4>2
    <3> QED
      BY <3>1, <3>3, <3>5, <3>6 DEF PathTypeOK, endsWithSlash
  <2> QED
    BY <2>1, <2>2
<1>5. ASSUME NEW param \in Parameters, MKD(param)
      PROVE  PathTypeOK'
  <2> DEFINE path == getPathName(param, TRUE)
             d == Normal(path)
  <2>1. Len(d) <= MaxCwd /\ dirs' = dirs \cup {d} /\ cwd' = cwd /\ hung' = hung
    BY <1>5 DEF MKD
  <2>2. path \in Seq(Chars)
    BY FullPath
  <2>3. d \in Seq(Chars) /\ Normal(d) = d
    <3> HIDE DEF path
    <3> QED
      BY <2>2, NormalTwice
  <2> HIDE DEF d
  <2>4. d \in Strings(MaxCwd)
    BY <2>1, <2>3, LengthAssumption, StringsAre
  <2> QED
    BY <2>1, <2>3, <2>4 DEF PathTypeOK, endsWithSlash
<1>6. ASSUME NEW param \in Parameters, RMD(param)
      PROVE  PathTypeOK'
  <2>1. dirs' \subseteq dirs /\ <<>> \in dirs' /\ cwd' = cwd /\ hung' = hung
    BY <1>6 DEF RMD, PathTypeOK
  <2> QED
    BY <2>1 DEF PathTypeOK, endsWithSlash
<1>7. ASSUME NewSession
      PROVE  PathTypeOK'
  BY <1>7, Root DEF NewSession, PathTypeOK, endsWithSlash
<1> QED
  BY <1>1, <1>3, <1>4, <1>5, <1>6, <1>7 DEF PathNext

\* PathTypeOK: whatever is sent, the working directory is an absolute path that
\* joined() can rely on (FTPServer.cpp:1016-1067), and the directories are in
\* their normal form.
THEOREM PathsKeepTheirForm == PathSpec => []PathTypeOK
<1>1. PathInit => PathTypeOK
  <2> SUFFICES ASSUME PathInit
               PROVE  PathTypeOK
    OBVIOUS
  <2>1. Normal(<<>>) = <<>>
    <3>1. <<>> \in Seq(Chars) /\ IsNormal(<<>>)
      BY DEF IsNormal
    <3> QED
      BY <3>1, NormalForm
  <2> QED
    BY <2>1, Root DEF PathInit, PathTypeOK
<1> QED
  BY <1>1, PathStep, PTL DEF PathSpec

-----------------------------------------------------------------------------
(* Tidy names *)

LEMMA NormalOfRoot == Normal(<<Slash>>) = <<>> /\ Normal(<<>>) = <<>>
<1>1. <<Slash>> \in Seq(Chars) /\ Kept(<<Slash>>) = {}
  BY DEF Kept, Chars
<1>2. Len(Normal(<<Slash>>)) = 0 /\ Normal(<<Slash>>) \in Seq(Chars)
  BY <1>1, NormalKeeps, FS_EmptySet
<1>3. <<>> \in Seq(Chars) /\ IsNormal(<<>>)
  BY DEF IsNormal
<1>4. Normal(<<Slash>>) = <<>>
  BY <1>2, EmptySeq
<1> QED
  BY <1>3, <1>4, NormalForm

\* A normal name follows a slash, and a normal path another.
LEMMA NormalBehindSlash ==
    ASSUME NEW p \in Seq(Chars), p # <<>>, p[1] # Slash, IsNormal(p)
    PROVE  <<Slash>> \o p \in Seq(Chars) /\ IsNormal(<<Slash>> \o p)
<1> DEFINE t == <<Slash>> \o p
<1>1. /\ t \in Seq(Chars) /\ Len(p) \in Nat /\ Len(p) > 0 /\ Len(t) = Len(p) + 1
      /\ t[1] = Slash /\ \A i \in 1 .. Len(p) : t[i + 1] = p[i]
  BY DEF Chars
<1> HIDE DEF t
<1>2. ASSUME NEW i \in DOMAIN t, t[i] = Slash
      PROVE  i # Len(t) /\ t[i + 1] # Slash
  <2>1. CASE i = 1
    BY <1>1, <2>1
  <2>2. CASE i # 1
    <3> DEFINE j == i - 1
    <3>1. j \in 1 .. Len(p) /\ j + 1 = i
      BY <1>1, <2>2
    <3> HIDE DEF j
    <3>2. p[j] = Slash /\ j # Len(p) /\ p[j + 1] # Slash
      BY <1>1, <1>2, <3>1 DEF IsNormal
    <3>3. j + 1 \in 1 .. Len(p) /\ t[(j + 1) + 1] = p[j + 1]
      BY <1>1, <3>1, <3>2
    <3> QED
      BY <1>1, <3>1, <3>2, <3>3
  <2> QED
    BY <2>1, <2>2
<1>3. IsNormal(t)
  BY <1>2 DEF IsNormal
<1> QED
  BY <1>1, <1>3 DEF t

\* Where the parent's path would end in a slash, the one that was rest off had
\* another behind it, and nothing is removed: the path is shorter than cwd.
LEMMA ParentHangs ==
    ASSUME PathTypeOK
    PROVE  Endless(stripped(cwd)) <=> DoubledLast
<1> DEFINE up == stripped(cwd)
           slashes == {i \in DOMAIN cwd : cwd[i] = Slash}
<1>1. /\ cwd \in Seq(Chars) /\ cwd # <<>> /\ cwd[1] = Slash /\ IsAbsolute(cwd)
  BY CwdFacts
<1>2. /\ IsAbsolute(up) /\ Len(up) < Len(cwd)
      /\ \A i \in 1 .. Len(up) : up[i] = cwd[i]
      /\ cwd[Len(up) + 1] = Slash
      /\ \A j \in Len(up) + 2 .. Len(cwd) : cwd[j] # Slash
  BY <1>1, Stripped
<1> HIDE DEF up
<1>3. up \in Seq(Chars) /\ Len(up) \in Nat /\ Len(cwd) \in Nat
  BY <1>1, <1>2 DEF IsAbsolute
<1>4. remove(up, Len(cwd) - 1) = up
  BY <1>2, <1>3 DEF remove
<1>5. Endless(up) <=> Len(up) > 1 /\ endsWithSlash(up)
  BY <1>4 DEF Endless
<1>6. Endless(up) <=> Len(up) > 1 /\ cwd[Len(up)] = Slash
  BY <1>2, <1>3, <1>5, EndsWith
<1>7. ASSUME Len(up) > 1, cwd[Len(up)] = Slash
      PROVE  DoubledLast
  <2> DEFINE k == Len(up) + 1
  <2>1. k \in 3 .. Len(cwd) /\ k - 1 = Len(up)
    BY <1>2, <1>3, <1>7
  <2>2. cwd[k] = Slash /\ cwd[k - 1] = Slash /\ \A j \in k + 1 .. Len(cwd) : cwd[j] # Slash
    BY <1>2, <1>3, <1>7, <2>1
  <2> QED
    BY <2>1, <2>2 DEF DoubledLast
<1>8. ASSUME DoubledLast
      PROVE  Len(up) > 1 /\ cwd[Len(up)] = Slash
  <2>1. PICK k \in 3 .. Len(cwd) : /\ cwd[k] = Slash /\ cwd[k - 1] = Slash
                                   /\ \A j \in k + 1 .. Len(cwd) : cwd[j] # Slash
    BY <1>8 DEF DoubledLast
  <2>2. ~(k < Len(up) + 1) /\ ~(Len(up) + 1 < k)
    BY <1>2, <1>3, <2>1
  <2>3. k = Len(up) + 1
    BY <1>3, <2>1, <2>2
  <2> QED
    BY <1>3, <2>1, <2>3
<1> QED
  BY <1>6, <1>7, <1>8 DEF up

\* A normal path behind one that does not end with a slash: what is kept of the
\* first is kept, and all of the second.
LEMMA NormalOfJoined ==
    ASSUME NEW s \in Seq(Chars), s # <<>>, s[Len(s)] # Slash,
           NEW t \in Seq(Chars), t # <<>>, IsNormal(t)
    PROVE  s \o t \in Seq(Chars) /\ Normal(s \o t) = Normal(s) \o t
<1> DEFINE u == s \o t
           K == Kept(s)
           L == Kept(u)
           m == Len(s)
           n == Len(t)
<1>1. /\ m \in Nat /\ n \in Nat /\ m > 0 /\ n > 0
      /\ u \in Seq(Chars) /\ Len(u) = m + n /\ DOMAIN u = 1 .. m + n /\ DOMAIN s = 1 .. m
      /\ \A i \in 1 .. m : u[i] = s[i]
      /\ \A i \in 1 .. n : u[m + i] = t[i]
      /\ m = Len(s) /\ n = Len(t) /\ DOMAIN t = 1 .. n /\ s[m] # Slash
  OBVIOUS
<1> HIDE DEF u, m, n
<1>2. \A i \in 1 .. m : i \in L <=> i \in K
  <2> SUFFICES ASSUME NEW i \in 1 .. m
               PROVE  i \in L <=> i \in K
    OBVIOUS
  <2>1. CASE i = m
    <3>1. i \in 1 .. m + n /\ u[i] # Slash /\ s[i] # Slash
      BY <1>1, <2>1
    <3> QED
      BY <1>1, <3>1 DEF Kept
  <2>2. CASE i # m
    <3>1. i \in 1 .. m + n /\ i # m + n /\ i + 1 \in 1 .. m /\ u[i] = s[i] /\ u[i + 1] = s[i + 1]
      <4>1. m \in Nat /\ n \in Nat /\ n > 0 /\ i \in Nat /\ 1 <= i /\ i <= m
        BY <1>1
      <4>2. i + 1 \in 1 .. m /\ i \in 1 .. m + n /\ i # m + n
        BY <2>2, <4>1
      <4> QED
        BY <1>1, <4>2
    <3> QED
      BY <1>1, <2>2, <3>1 DEF Kept
  <2> QED
    BY <2>1, <2>2
<1>3. \A i \in m + 1 .. m + n : i \in L
  <2> SUFFICES ASSUME NEW i \in m + 1 .. m + n
               PROVE  i \in L
    OBVIOUS
  <2> DEFINE j == i - m
  <2>1. j \in 1 .. n /\ i = m + j /\ DOMAIN t = 1 .. n
    BY <1>1
  <2> HIDE DEF j
  <2>2. t[j] = Slash => j # n /\ t[j + 1] # Slash
    BY <2>1 DEF IsNormal
  <2>3. u[i] = t[j] /\ i \in 1 .. m + n
    BY <1>1, <2>1
  <2>4. ASSUME j # n PROVE u[i + 1] = t[j + 1]
    <3>1. j + 1 \in 1 .. n /\ i + 1 = m + (j + 1)
      BY <1>1, <2>1, <2>4
    <3> QED
      BY <1>1, <3>1
  <2>5. u[i] = Slash => i # Len(u) /\ u[i + 1] # Slash
    <3>1. j # n => i # m + n
      BY <1>1, <2>1
    <3> QED
      BY <1>1, <2>2, <2>3, <2>4, <3>1
  <2> QED
    BY <1>1, <2>3, <2>5 DEF Kept
<1>4. K \in SUBSET (1 .. m) /\ L \in SUBSET (1 .. m + n) /\ \A j \in K \cup L : j \in Int
  <2>1. K \in SUBSET (1 .. m) /\ L \in SUBSET (1 .. m + n)
    BY <1>1 DEF Kept
  <2> HIDE DEF K, L
  <2>2. 1 .. m \subseteq Int /\ 1 .. m + n \subseteq Int
    BY <1>1
  <2> QED
    BY <2>1, <2>2
<1> HIDE DEF K, L
<1>5. ASSUME NEW i \in 1 .. m
      PROVE  Rank(L, i) = Rank(K, i)
  <2>1. \A j \in Int : j <= i => (j \in L <=> j \in K)
    <3> SUFFICES ASSUME NEW j \in Int, j <= i
                 PROVE  j \in L <=> j \in K
      OBVIOUS
    <3>1. j \in L \/ j \in K => j \in 1 .. m
      BY <1>1, <1>4
    <3> QED
      BY <1>2, <3>1
  <2>2. {j \in L : j <= i} = {j \in K : j <= i}
    BY <1>4, <2>1
  <2> QED
    BY <2>2 DEF Rank
<1>6. ASSUME NEW i \in 0 .. n
      PROVE  Rank(L, m + i) = Cardinality(K) + i
  <2> DEFINE R == m + 1 .. m + i
  <2>1. {j \in L : j <= m + i} = K \cup R
    <3>1. \A j \in L : j <= m + i => j \in K \/ j \in R
      BY <1>1, <1>2, <1>4
    <3>2. \A j \in K : j \in L /\ j <= m + i
      BY <1>1, <1>2, <1>4
    <3>3. \A j \in R : j \in L /\ j <= m + i
      BY <1>1, <1>3
    <3> HIDE DEF R
    <3> QED
      BY <3>1, <3>2, <3>3
  <2>2. K \cap R = {}
    BY <1>1, <1>4
  <2>3. IsFiniteSet(R) /\ Cardinality(R) = i
    <3>1. m + 1 \in Int /\ m + i \in Int
      BY <1>1
    <3>2. IsFiniteSet(R) /\ Cardinality(R) = IF m + 1 > m + i THEN 0 ELSE (m + i) - (m + 1) + 1
      BY <3>1, FS_Interval
    <3> QED
      BY <1>1, <3>2
  <2>4. IsFiniteSet(K) /\ Cardinality(K) \in Nat
    BY <1>1, <1>4, Ranks
  <2> HIDE DEF R
  <2>5. Cardinality(K \cup R) = Cardinality(K) + Cardinality(R) - Cardinality(K \cap R)
    BY <2>3, <2>4, FS_Union
  <2>6. Cardinality(K \cap R) = 0
    BY <2>2, FS_EmptySet
  <2>7. Cardinality(K \cup R) = Cardinality(K) + i
    BY <2>3, <2>4, <2>5, <2>6
  <2> QED
    BY <2>1, <2>7 DEF Rank
<1>7. /\ Normal(s) \in Seq(Chars) /\ Len(Normal(s)) = Cardinality(K) /\ Cardinality(K) \in Nat
      /\ \A i \in K : /\ Rank(K, i) \in 1 .. Cardinality(K)
                     /\ Normal(s)[Rank(K, i)] = s[i]
      /\ \A k \in 1 .. Cardinality(K) : \E i \in K : Rank(K, i) = k
  <2>1. Cardinality(K) \in 0 .. m
    BY <1>1, <1>4, Ranks
  <2>2. Len(Normal(s)) = Cardinality(K) /\ Normal(s) \in Seq(Chars)
    BY NormalKeeps DEF K
  <2>3. /\ \A i \in K : /\ Rank(K, i) \in 1 .. Len(Normal(s))
                       /\ Normal(s)[Rank(K, i)] = s[i]
        /\ \A k \in 1 .. Len(Normal(s)) : \E i \in K : Rank(K, i) = k
    BY NormalKeeps DEF K
  <2>4. Cardinality(K) \in Nat
    BY <1>1, <2>1
  <2> QED
    BY <2>2, <2>3, <2>4
<1>8. /\ Normal(u) \in Seq(Chars) /\ Len(Normal(u)) = Cardinality(L)
      /\ \A i \in L : Normal(u)[Rank(L, i)] = u[i]
  BY <1>1, NormalKeeps DEF L
<1>9. Cardinality(L) = Cardinality(K) + n
  <2>1. {j \in L : j <= m + n} = L
    <3>1. \A j \in L : j <= m + n
      BY <1>1, <1>4
    <3> QED
      BY <3>1
  <2>2. Rank(L, m + n) = Cardinality(L)
    BY <2>1 DEF Rank
  <2>3. n \in 0 .. n
    BY <1>1
  <2> QED
    BY <1>6, <2>2, <2>3
<1> DEFINE w == Normal(s) \o t
           c == Cardinality(K)
<1>10. /\ w \in Seq(Chars) /\ Len(w) = c + n
       /\ \A k \in 1 .. c : w[k] = Normal(s)[k]
       /\ \A k \in 1 .. n : w[c + k] = t[k]
  <2> DEFINE v == Normal(s)
  <2>1. v \in Seq(Chars) /\ Len(v) = c /\ c \in Nat /\ w = v \o t
    BY <1>7
  <2>2. n = Len(t)
    BY <1>1
  <2> HIDE DEF v, w, c
  <2>3. w \in Seq(Chars)
    BY <2>1
  <2>4. Len(v \o t) = Len(v) + Len(t)
    BY <2>1, ConcatProperties
  <2>5. Len(w) = c + n
    BY <2>1, <2>2, <2>4
  <2>6. \A k \in 1 .. c : w[k] = v[k]
    BY <2>1
  <2>7. \A k \in 1 .. n : w[c + k] = t[k]
    BY <2>1, <2>2
  <2> QED
    BY <2>3, <2>5, <2>6, <2>7 DEF v
<1> HIDE DEF w
<1>11. ASSUME NEW k \in 1 .. c + n
       PROVE  Normal(u)[k] = w[k]
  <2>1. CASE k <= c
    <3>1. k \in 1 .. c
      BY <1>7, <2>1
    <3>2. PICK i \in K : Rank(K, i) = k
      BY <1>7, <3>1
    <3>3. i \in 1 .. m /\ i \in L /\ Rank(L, i) = k
      BY <1>2, <1>4, <1>5, <3>2
    <3>4. Normal(u)[k] = u[i] /\ Normal(s)[k] = s[i] /\ u[i] = s[i]
      BY <1>1, <1>7, <1>8, <3>2, <3>3
    <3> QED
      BY <1>10, <3>1, <3>4
  <2>2. CASE ~(k <= c)
    <3> DEFINE j == k - c
    <3>1. j \in 1 .. n /\ k = c + j
      BY <1>1, <1>7, <2>2
    <3> HIDE DEF j
    <3>2. j \in 0 .. n /\ m + j \in m + 1 .. m + n
      BY <1>1, <3>1
    <3>3. m + j \in L /\ Rank(L, m + j) = k
      BY <1>3, <1>6, <3>1, <3>2
    <3>4. Normal(u)[k] = u[m + j] /\ u[m + j] = t[j]
      BY <1>1, <1>8, <3>1, <3>3
    <3> QED
      BY <1>10, <3>1, <3>4
  <2> QED
    BY <2>1, <2>2
<1>12. Normal(u) = w
  <2>1. Len(Normal(u)) = Len(w) /\ Len(w) = c + n
    BY <1>8, <1>9, <1>10
  <2> HIDE DEF c
  <2> QED
    BY <1>8, <1>10, <1>11, <2>1
<1> QED
  BY <1>1, <1>12 DEF u, w

LEMMA TidyNameJoined ==
    ASSUME PathTypeOK, NEW p \in Seq(Chars), Tidy(p)
    PROVE  /\ ~getPathNameHangs(p, TRUE)
           /\ Normal(getPathName(p, TRUE)) =
                 IF p # <<>> /\ p[1] = Slash THEN Normal(p)
                 ELSE Normal(cwd) \o Normal(<<Slash>> \o p)
<1> DEFINE path == joined(p)
<1>1. /\ cwd \in Seq(Chars) /\ cwd # <<>> /\ cwd[1] = Slash /\ IsAbsolute(cwd)
      /\ endsWithSlash(cwd) => cwd = <<Slash>>
  BY CwdFacts DEF PathTypeOK
<1>2. p = <<Slash>> \/ IsNormal(p)
  BY NormalForm DEF Tidy
<1>3. IsAbsolute(path) /\ path # <<>>
  BY Joined
<1>4. ASSUME path = <<Slash>> \/ ~endsWithSlash(path)
      PROVE  ~getPathNameHangs(p, TRUE) /\ getPathName(p, TRUE) = path
  <2>0. path = <<Slash>> \/ ~endsWithSlash(path)
    BY <1>4
  <2> HIDE DEF path
  <2>1. ~(Len(path) > 1 /\ endsWithSlash(path))
    <3>1. CASE path = <<Slash>>
      BY <3>1
    <3>2. CASE ~endsWithSlash(path)
      BY <3>2
    <3> QED
      BY <2>0, <3>1, <3>2
  <2>2. ~Endless(path) /\ sanetized(path) = path
    BY <1>3, <2>1 DEF Endless, sanetized
  <2> QED
    BY <2>2 DEF getPathName, getPathNameHangs, path
<1>5. CASE p # <<>> /\ p[1] = Slash
  <2>1. path = p
    BY <1>5 DEF joined
  <2>2. path = <<Slash>> \/ ~endsWithSlash(path)
    BY <1>2, <2>1, EndsWith DEF IsNormal
  <2> QED
    BY <1>4, <1>5, <2>1, <2>2
<1>6. CASE p = <<>>
  <2>1. path = cwd
    BY <1>6 DEF joined
  <2>2. <<Slash>> \o p = <<Slash>>
    BY <1>6, ConcatEmptySeq DEF Chars
  <2>3. Normal(cwd) \in Seq(Chars)
    BY <1>1, NormalTwice
  <2>4. Normal(cwd) \o <<>> = Normal(cwd)
    BY <2>3, ConcatEmptySeq
  <2> QED
    BY <1>1, <1>4, <1>6, <2>1, <2>2, <2>4, NormalOfRoot
<1>7. CASE p # <<>> /\ p[1] # Slash
  <2> DEFINE name == <<Slash>> \o p
  <2>1. IsNormal(p)
    BY <1>2, <1>7
  <2>2. name \in Seq(Chars) /\ IsNormal(name) /\ name # <<>>
    BY <1>7, <2>1, NormalBehindSlash
  <2>3. Normal(name) = name
    BY <2>2, NormalForm
  <2>4. CASE endsWithSlash(cwd)
    <3>1. cwd = <<Slash>> /\ path = name
      BY <1>1, <1>7, <2>4 DEF joined
    <3>2. Normal(cwd) \o name = name
      BY <2>2, <3>1, NormalOfRoot, ConcatEmptySeq
    <3>3. ~endsWithSlash(name)
      <4> HIDE DEF name
      <4> QED
        BY <2>2, EndsWith DEF IsNormal
    <3> QED
      BY <1>4, <1>7, <2>3, <3>1, <3>2, <3>3
  <2>5. CASE ~endsWithSlash(cwd)
    <3>1. path = Append(cwd, Slash) \o p
      BY <1>7, <2>5 DEF joined
    <3>2. path = cwd \o name
      BY <1>1, <3>1 DEF Chars
    <3>3. cwd[Len(cwd)] # Slash
      BY <1>1, <2>5, EndsWith
    <3> HIDE DEF name, path
    <3>4. cwd \o name \in Seq(Chars) /\ Normal(cwd \o name) = Normal(cwd) \o name
      BY <1>1, <2>2, <3>3, NormalOfJoined
    <3>5. ~endsWithSlash(path)
      <4>1. name[Len(name)] # Slash /\ Len(name) \in Nat /\ Len(name) > 0
        BY <2>2 DEF IsNormal
      <4>2. path[Len(path)] = name[Len(name)]
        BY <1>1, <2>2, <3>2, <4>1
      <4> QED
        BY <3>2, <3>4, <4>1, <4>2, EndsWith
    <3>6. ~getPathNameHangs(p, TRUE) /\ getPathName(p, TRUE) = path
      BY <1>4, <3>5 DEF path
    <3> QED
      BY <1>7, <2>3, <3>2, <3>4, <3>6 DEF name
  <2> QED
    BY <2>4, <2>5
<1> QED
  BY <1>5, <1>6, <1>7

\* TidyNamesResolve: from every directory a client can get to, a tidy name means
\* what it says, and a CDUP ends unless the last name of the directory's path
\* follows doubled slashes; for names and directories of every length.
THEOREM TidyNamesMeanWhatTheySay == PathSpec => []TidyNamesResolve
<1>1. PathTypeOK => TidyNamesResolve
  <2> SUFFICES ASSUME PathTypeOK
               PROVE  TidyNamesResolve
    OBVIOUS
  <2>1. ASSUME NEW p \in TidyNames
        PROVE  /\ ~getPathNameHangs(p, TRUE)
               /\ Normal(getPathName(p, TRUE)) =
                     IF p # <<>> /\ p[1] = Slash THEN Normal(p)
                     ELSE Normal(cwd) \o Normal(<<Slash>> \o p)
    <3>1. p \in Seq(Chars) /\ Tidy(p)
      BY LengthAssumption, StringsAre DEF TidyNames, Parameters
    <3> QED
      BY <3>1, TidyNameJoined
  <2>2. getPathNameHangs(<<>>, FALSE) = Endless(stripped(cwd))
    BY DEF getPathNameHangs, joined
  <2>3. getPathNameHangs(<<>>, FALSE) <=> DoubledLast
    BY <2>2, ParentHangs
  <2> QED
    BY <2>1, <2>3 DEF TidyNamesResolve
<1> QED
  BY <1>1, PathsKeepTheirForm, PTL

-----------------------------------------------------------------------------
(* The instance *)

\* Whichever component a behaviour of the instance is one of, it is one of every
\* component's specification.
LEMMA PartsAreComponents ==
    PartsSpec => RtcSpec /\ ButtonSpec /\ UpdateSpec /\ PathSpec /\ ClientSpec /\ CalendarSpec
<1>1. PartsInit => RtcInit /\ ButtonInit /\ UpdateInit /\ PathInit /\ ClientInit /\ CalendarInit
  BY DEF PartsInit
<1>2. [PartsNext]_partsVars =>
         /\ [RtcNext]_rvars /\ [ButtonNext]_bvars /\ [UpdateNext]_uvars
         /\ [PathNext]_pathVars /\ [ClientNext]_cvars /\ [CalendarNext]_dvars
  <2> SUFFICES ASSUME [PartsNext]_partsVars
               PROVE  /\ [RtcNext]_rvars /\ [ButtonNext]_bvars /\ [UpdateNext]_uvars
                      /\ [PathNext]_pathVars /\ [ClientNext]_cvars /\ [CalendarNext]_dvars
    OBVIOUS
  <2>1. CASE UNCHANGED partsVars
    BY <2>1 DEF partsVars
  <2>2. CASE RtcNext /\ Rest("rtcMemory")
    BY <2>2 DEF Rest
  <2>3. CASE ButtonNext /\ Rest("button")
    BY <2>3 DEF Rest
  <2>4. CASE UpdateNext /\ Rest("update")
    BY <2>4 DEF Rest
  <2>5. CASE PathNext /\ Rest("ftpPath")
    BY <2>5 DEF Rest
  <2>6. CASE ClientNext /\ Rest("ftpClient")
    BY <2>6 DEF Rest
  <2>7. CASE CalendarNext /\ Rest("calendar")
    BY <2>7 DEF Rest
  <2> QED
    BY <2>1, <2>2, <2>3, <2>4, <2>5, <2>6, <2>7 DEF PartsNext
<1> QED
  BY <1>1, <1>2, PTL
  DEF PartsSpec, RtcSpec, ButtonSpec, UpdateSpec, PathSpec, ClientSpec, CalendarSpec

\* Every component has the values of its types; the other properties of the run
\* follow in the same way from the theorems about each.
THEOREM PartsTypes == PartsSpec => []PartsTypeOK
<1>1. Histories /\ ButtonTypeOK /\ UpdateTypeOK /\ ClientTypeOK => PartsTypeOK
  BY DEF PartsTypeOK, Histories
<1> QED
  BY <1>1, PartsAreComponents, HistoriesHold, ButtonTypes, UpdateTypes, ClientTypes, PTL
=============================================================================

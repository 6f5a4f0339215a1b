--------------------------- MODULE SettingsProofs ---------------------------
(***************************************************************************)
(* Theorems about module Settings, for all passwords, networks and texts:  *)
(* what forms, torn saves and restarts leave in the files.                 *)
(***************************************************************************)
EXTENDS Settings, TLAPS

Values == Passwords \cup Texts \cup Foreign \cup {On, Empty}

Fields ==
    [ssid : Networks \cup Foreign \cup {Empty}, wifiPassword : {Key, Mask, Empty},
     portalPassword : Passwords \cup Foreign \cup {Empty}, box : {On, Empty},
     text : Texts \cup Foreign \cup {Empty}]

Forms == [fields : Fields, current : BOOLEAN]

Typed ==
    /\ SettingsTypeOK
    /\ value \in [Params -> Values]
    /\ form # Empty => form \in Forms
    /\ pos # 0 => pc = "up" /\ post \in Fields
    /\ inForce \in Passwords \cup Foreign \cup {Empty}

\* The password comes from its file or gets there, and from then on RAM and files
\* agree.
InStep ==
    /\ pc = "store" => /\ files.portalPassword = Empty /\ password \in Passwords
                       /\ value["portalPassword"] = password
    /\ pc = "params" => /\ files.portalPassword = password
                        /\ value["portalPassword"] = password
    /\ pc = "up" => /\ value["portalPassword"] = files.portalPassword
                    /\ value["box"] = files.box /\ value["text"] = files.text

Lasting == inForce # Empty => files.portalPassword = inForce

\* What a save has written so far, and what a whole one left.
Written ==
    /\ pos # 0 => posted = Empty
    /\ pos > 4 => files.box = post.box
    /\ pos > 5 => files.text = post.text
    /\ posted # Empty => files.box = posted.box /\ files.text = posted.text

\* A form that nobody edited, and what comes back with it.
Matches(f) ==
    /\ f.portalPassword \in Returned(files.portalPassword)
    /\ f.box = files.box /\ f.text \in Returned(files.text)
    /\ f.wifiPassword = IF files.wifiPassword = Empty THEN Empty ELSE Mask
    /\ files.ssid # Empty => f.ssid \in Returned(files.ssid)

Stands(f) ==
    /\ f.portalPassword \in Returned(unedited.portalPassword)
    /\ f.box = unedited.box /\ f.text \in Returned(unedited.text)
    /\ f.wifiPassword = IF unedited.wifiPassword = Empty THEN Empty ELSE Mask
    /\ unedited.ssid # Empty => f.ssid \in Returned(unedited.ssid)

Fresh ==
    /\ pages > 0 => pc = "up"
    /\ pages > 0 /\ form # Empty /\ form.current => pos = 0 /\ Matches(form.fields)

AsBefore ==
    unedited # Empty =>
        /\ pos # 0 /\ unedited \in Contents /\ Stands(post)
        /\ files.portalPassword = IF pos > 3 THEN post.portalPassword
                                  ELSE unedited.portalPassword
        /\ files.box = unedited.box
        /\ files.text = IF pos > 5 THEN post.text ELSE unedited.text
        /\ files.wifiPassword = unedited.wifiPassword
        /\ unedited.ssid # Empty =>
              files.ssid = IF pos > 1 THEN post.ssid ELSE unedited.ssid

Inv == Typed /\ InStep /\ Lasting /\ Written /\ Fresh /\ AsBefore

-----------------------------------------------------------------------------
\* What comes back is what went out or, of Foreign, another of its kind.
LEMMA ReturnedIsOfItsKind ==
    ASSUME NEW v
    PROVE  Returned(v) \subseteq Foreign \cup {v}
BY DEF Returned

LEMMA BoxComesBack ==
    ASSUME NEW v \in {On, Empty}
    PROVE  Returned(v) = {v}
BY TypedAssumption, ForeignAssumption DEF Returned

LEMMA OptionsAreNetworks == Options \subseteq Networks \cup Foreign
BY ReturnedIsOfItsKind DEF Options

LEMMA NamesInOrder ==
    /\ Len(Names) = 5
    /\ Names[1] = "ssid" /\ Names[2] = "wifiPassword" /\ Names[3] = "portalPassword"
    /\ Names[4] = "box" /\ Names[5] = "text"
BY DEF Names

\* The start-up: the password is read or stored, then the other settings.
LEMMA StartKeeps ==
    ASSUME Inv, Begin \/ StorePassword \/ ReadParams
    PROVE  Inv'
<1> USE MarksAssumption, TypedAssumption DEF Inv, Typed, SettingsTypeOK, Contents, Values,
        Params, ram, saveVars, history
<1>1. CASE Begin
  <2>1. /\ password' \in Passwords \cup Foreign
        /\ files.portalPassword = Empty => password' \in Passwords
        /\ files.portalPassword # Empty => password' = files.portalPassword
    BY <1>1 DEF Begin
  <2>2. Typed'
    BY <1>1, <2>1 DEF Begin
  <2>3. InStep' /\ Lasting' /\ Written'
    BY <1>1, <2>1 DEF Begin, InStep, Lasting, Written
  <2>4. Fresh' /\ AsBefore'
    BY <1>1 DEF Begin, Fresh, AsBefore, Stands, Matches
  <2>5. QED
    BY <2>2, <2>3, <2>4
<1>2. CASE StorePassword
  <2>1. password \in Passwords /\ files' = [files EXCEPT !.portalPassword = password]
    BY <1>2 DEF StorePassword, InStep
  <2>2. Typed'
    BY <1>2, <2>1 DEF StorePassword
  <2>3. InStep' /\ Lasting' /\ Written'
    BY <1>2, <2>1 DEF StorePassword, InStep, Lasting, Written
  <2>4. Fresh' /\ AsBefore'
    BY <1>2 DEF StorePassword, Fresh, AsBefore, Stands, Matches
  <2>5. QED
    BY <2>2, <2>3, <2>4
<1>3. CASE ReadParams
  <2>1. value' = [value EXCEPT !["box"] = files.box, !["text"] = files.text]
    BY <1>3 DEF ReadParams
  <2>2. conf' \in [text : Texts \cup Foreign \cup {Default}, box : BOOLEAN]
    BY <1>3 DEF ReadParams, Effective
  <2>3. Typed'
    BY <1>3, <2>1, <2>2 DEF ReadParams
  <2>4. InStep' /\ Lasting' /\ Written'
    BY <1>3, <2>1 DEF ReadParams, InStep, Lasting, Written
  <2>5. Fresh' /\ AsBefore'
    BY <1>3 DEF ReadParams, Fresh, AsBefore, Stands, Matches
  <2>6. QED
    BY <2>3, <2>4, <2>5
<1>4. QED
  BY <1>1, <1>2, <1>3

\* A page is served with what RAM holds, which is what is stored.
LEMMA PageKeeps ==
    ASSUME Inv, GetPortal \/ PostUnknown
    PROVE  Inv'
<1> USE MarksAssumption, TypedAssumption, PagesAssumption DEF Inv, Typed, SettingsTypeOK,
        Contents, Params, ram, saveVars, history
<1>1. CASE GetPortal
  <2>1. PICK f \in Shown : form' = [fields |-> f, current |-> TRUE]
    BY <1>1 DEF GetPortal
  <2>2. f \in Fields /\ Matches(f)
    <3>1. /\ f.ssid \in IF files.ssid = Empty THEN Options \cup {Empty} ELSE Returned(files.ssid)
          /\ f.wifiPassword = IF files.wifiPassword = Empty THEN Empty ELSE Mask
          /\ f.portalPassword \in Returned(value["portalPassword"])
          /\ f.box = value["box"] /\ f.text \in Returned(value["text"])
          /\ f = [ssid |-> f.ssid, wifiPassword |-> f.wifiPassword,
                  portalPassword |-> f.portalPassword, box |-> f.box, text |-> f.text]
      BY DEF Shown
    <3>2. Matches(f)
      BY <1>1, <3>1 DEF GetPortal, Idle, Matches, InStep
    <3>3. f.ssid \in Networks \cup Foreign \cup {Empty}
      BY <3>1, OptionsAreNetworks, ReturnedIsOfItsKind
    <3>4. /\ f.portalPassword \in Passwords \cup Foreign \cup {Empty}
          /\ f.text \in Texts \cup Foreign \cup {Empty} /\ f.box \in {On, Empty}
      BY <3>1, ReturnedIsOfItsKind
    <3> QED
      BY <3>1, <3>2, <3>3, <3>4 DEF Fields
  <2>3. form' \in Forms /\ form'.fields = f
    BY <2>1, <2>2 DEF Forms
  <2>4. Typed'
    BY <1>1, <2>3 DEF GetPortal, Idle
  <2>5. InStep' /\ Lasting' /\ Written' /\ AsBefore'
    BY <1>1 DEF GetPortal, InStep, Lasting, Written, AsBefore, Stands
  <2>6. Fresh'
    BY <1>1, <2>2, <2>3 DEF GetPortal, Idle, Fresh, Matches
  <2>7. QED
    BY <2>4, <2>5, <2>6
<1>2. CASE PostUnknown
  BY <1>2 DEF PostUnknown, Idle, InStep, Lasting, Written, AsBefore, Stands, Fresh, Matches
<1>3. QED
  BY <1>1, <1>2

\* A form with one of its fields edited is a form.
LEMMA EditsAreForms ==
    ASSUME NEW g \in Fields, NEW e \in Edited(g)
    PROVE  e \in Fields
<1> DEFINE Chosen == {[g EXCEPT !.ssid = s, !.wifiPassword = Empty] : s \in Options}
                     \cup {[g EXCEPT !.ssid = s, !.wifiPassword = Key] : s \in Options}
           Keyed == {[g EXCEPT !.wifiPassword = k] : k \in {Key, Empty}}
           Renamed == {[g EXCEPT !.portalPassword = p] : p \in Passwords \cup Foreign \cup {Empty}}
           Checked == {[g EXCEPT !.box = b] : b \in {On, Empty}}
           Retyped == {[g EXCEPT !.text = t] : t \in Texts \cup Foreign \cup {Empty}}
<1>1. CASE e \in Chosen
  BY <1>1, OptionsAreNetworks DEF Fields
<1>2. CASE e \in Keyed
  BY <1>2 DEF Fields
<1>3. CASE e \in Renamed
  BY <1>3 DEF Fields
<1>4. CASE e \in Checked
  BY <1>4 DEF Fields
<1>5. CASE e \in Retyped
  BY <1>5 DEF Fields
<1>6. Edited(g) = Chosen \cup Keyed \cup Renamed \cup Checked \cup Retyped
  BY Zenon DEF Edited
<1> HIDE DEF Chosen, Keyed, Renamed, Checked, Retyped
<1> QED
  BY <1>1, <1>2, <1>3, <1>4, <1>5, <1>6

\* A form comes back: the one that is up to date and not edited matches the files.
LEMMA PostBeginKeeps ==
    ASSUME Inv, PostBegin
    PROVE  Inv'
<1> USE MarksAssumption, TypedAssumption DEF Inv, Typed, SettingsTypeOK, ram
<1>1. pc = "up" /\ pos = 0 /\ pages > 0 /\ form \in Forms /\ form # Empty
  BY DEF PostBegin, Idle
<1>2. PICK f \in {form.fields} \cup Edited(form.fields) :
          /\ post' = f
          /\ unedited' = IF f = form.fields /\ form.current THEN files ELSE Empty
  BY DEF PostBegin
<1>3. form.fields \in Fields
  BY <1>1 DEF Forms
<1>4. f \in Fields
  BY <1>2, <1>3, EditsAreForms
<1>5. form' # Empty => form' \in Forms /\ form'.current = FALSE
  BY <1>1 DEF PostBegin, Forms
<1>6. Typed'
  BY <1>1, <1>2, <1>4, <1>5 DEF PostBegin
<1>7. InStep' /\ Lasting' /\ Written'
  BY <1>1 DEF PostBegin, InStep, Lasting, Written
<1>8. Fresh'
  BY <1>1, <1>5 DEF PostBegin, Fresh
<1>9. AsBefore'
  <2>1. CASE f = form.fields /\ form.current
    BY <1>1, <1>2, <2>1 DEF PostBegin, AsBefore, Stands, Fresh, Matches
  <2>2. CASE ~(f = form.fields /\ form.current)
    BY <1>2, <2>2 DEF AsBefore
  <2>3. QED
    BY <2>1, <2>2
<1>10. QED
  BY <1>6, <1>7, <1>8, <1>9

-----------------------------------------------------------------------------
\* One file of a save: which one, and what becomes of RAM and files.
LEMMA PostStoreKeeps ==
    ASSUME Inv, PostStore
    PROVE  Inv'
<1> USE MarksAssumption, TypedAssumption, NamesInOrder
<1>1. pc = "up" /\ pos \in 1 .. 5 /\ pos' = pos + 1 /\ post \in Fields
  BY DEF PostStore, Inv, Typed
<1>2. UNCHANGED <<pc, password, conf, pages, form, post, posted, unedited>>
  BY DEF PostStore
<1>3. files \in Contents /\ value \in [Params -> Values]
  BY DEF Inv, Typed, SettingsTypeOK
<1>4. CASE pos \in {1, 2}
  <2>1. /\ value' = value /\ inForce' = inForce
        /\ files' \in {files, [files EXCEPT !.ssid = post.ssid],
                       [files EXCEPT !.wifiPassword = post.wifiPassword]}
        /\ pos = 1 => files' = [files EXCEPT !.ssid = post.ssid]
        /\ pos = 2 => files' = IF post.wifiPassword = Mask THEN files
                               ELSE [files EXCEPT !.wifiPassword = post.wifiPassword]
    BY <1>1, <1>4 DEF PostStore, Kept, Params
  <2>2. Typed'
    BY <1>1, <1>2, <1>3, <1>4, <2>1 DEF Inv, Typed, SettingsTypeOK, Contents, Fields
  <2>3. UNCHANGED <<files.portalPassword, files.box, files.text>>
    BY <1>3, <2>1 DEF Contents
  <2>4. InStep' /\ Lasting' /\ Written' /\ Fresh'
    BY <1>1, <1>2, <1>4, <2>1, <2>3 DEF Inv, InStep, Lasting, Written, Fresh
  <2>5. AsBefore'
    BY <1>1, <1>2, <1>3, <1>4, <2>1, <2>3 DEF Inv, AsBefore, Stands, Contents
  <2>6. QED
    BY <2>2, <2>4, <2>5 DEF Inv
<1>5. CASE pos = 3
  <2>1. /\ files' = [files EXCEPT !.portalPassword = post.portalPassword]
        /\ value' = [value EXCEPT !["portalPassword"] = post.portalPassword]
        /\ inForce' = IF post.portalPassword # inForce THEN Empty ELSE inForce
    BY <1>1, <1>5 DEF PostStore, Kept, Params
  <2>2. Typed'
    BY <1>1, <1>2, <1>3, <1>5, <2>1 DEF Inv, Typed, SettingsTypeOK, Contents, Fields, Params, Values
  <2>3. InStep' /\ Lasting'
    BY <1>1, <1>2, <1>3, <1>5, <2>1 DEF Inv, InStep, Lasting, Contents, Params
  <2>4. Written' /\ Fresh'
    BY <1>1, <1>2, <1>3, <1>5, <2>1 DEF Inv, Written, Fresh, Contents
  <2>5. AsBefore'
    BY <1>1, <1>2, <1>3, <1>5, <2>1 DEF Inv, AsBefore, Stands, Contents
  <2>6. QED
    BY <2>2, <2>3, <2>4, <2>5 DEF Inv
<1>6. CASE pos = 4
  <2>1. /\ files' = [files EXCEPT !.box = post.box]
        /\ value' = [value EXCEPT !["box"] = post.box] /\ inForce' = inForce
    BY <1>1, <1>6 DEF PostStore, Kept, Params
  <2>2. Typed'
    BY <1>1, <1>2, <1>3, <1>6, <2>1 DEF Inv, Typed, SettingsTypeOK, Contents, Fields, Params, Values
  <2>3. InStep' /\ Lasting'
    BY <1>1, <1>2, <1>3, <1>6, <2>1 DEF Inv, InStep, Lasting, Contents, Params
  <2>4. Written' /\ Fresh'
    BY <1>1, <1>2, <1>3, <1>6, <2>1 DEF Inv, Written, Fresh, Contents
  <2>5. AsBefore'
    BY <1>1, <1>2, <1>3, <1>6, <2>1 DEF Inv, AsBefore, Stands, Contents
  <2>6. QED
    BY <2>2, <2>3, <2>4, <2>5 DEF Inv
<1>7. CASE pos = 5
  <2>1. /\ files' = [files EXCEPT !.text = post.text]
        /\ value' = [value EXCEPT !["text"] = post.text] /\ inForce' = inForce
    BY <1>1, <1>7 DEF PostStore, Kept, Params
  <2>2. Typed'
    BY <1>1, <1>2, <1>3, <1>7, <2>1 DEF Inv, Typed, SettingsTypeOK, Contents, Fields, Params, Values
  <2>3. InStep' /\ Lasting'
    BY <1>1, <1>2, <1>3, <1>7, <2>1 DEF Inv, InStep, Lasting, Contents, Params
  <2>4. Written' /\ Fresh'
    BY <1>1, <1>2, <1>3, <1>7, <2>1 DEF Inv, Written, Fresh, Contents
  <2>5. AsBefore'
    BY <1>1, <1>2, <1>3, <1>7, <2>1 DEF Inv, AsBefore, Stands, Contents
  <2>6. QED
    BY <2>2, <2>3, <2>4, <2>5 DEF Inv
<1>8. QED
  BY <1>1, <1>4, <1>5, <1>6, <1>7

LEMMA EndKeeps ==
    ASSUME Inv, PostEnd \/ Reboot
    PROVE  Inv'
<1> USE MarksAssumption, TypedAssumption, PagesAssumption, NamesInOrder
        DEF Inv, Typed, SettingsTypeOK, Contents, ram
<1>1. CASE PostEnd
  BY <1>1 DEF PostEnd, InStep, Lasting, Written, Fresh, Matches, AsBefore
<1>2. CASE Reboot
  <2>1. value' \in [Params -> Values] /\ value'["portalPassword"] = Empty
        /\ value'["box"] = Empty /\ value'["text"] = Empty
    BY <1>2 DEF Reboot, NoValue, Params, Values
  <2>2. Typed'
    BY <1>2, <2>1 DEF Reboot
  <2>3. QED
    BY <1>2, <2>2 DEF Reboot, InStep, Lasting, Written, Fresh, AsBefore
<1>3. QED
  BY <1>1, <1>2

-----------------------------------------------------------------------------
LEMMA InvInductive == SettingsSpec => []Inv
<1>1. ASSUME SettingsInit
      PROVE  Inv
  <2> USE <1>1, MarksAssumption, TypedAssumption, PagesAssumption DEF SettingsInit
  <2>1. /\ value \in [Params -> Values] /\ value["portalPassword"] = Empty
        /\ value["box"] = Empty /\ value["text"] = Empty
    BY DEF NoValue, Params, Values
  <2>2. SettingsTypeOK
    BY <2>1, NamesInOrder DEF SettingsTypeOK
  <2>3. Typed
    BY <2>1, <2>2 DEF Typed
  <2>4. QED
    BY <2>3 DEF Inv, InStep, Lasting, Written, Fresh, AsBefore
<1>2. Inv /\ [SettingsNext]_svars => Inv'
  <2> SUFFICES ASSUME Inv, [SettingsNext]_svars
               PROVE  Inv'
    OBVIOUS
  <2>1. CASE SettingsNext
    BY <2>1, StartKeeps, PageKeeps, PostBeginKeeps, PostStoreKeeps, EndKeeps DEF SettingsNext
  <2>2. CASE UNCHANGED svars
    BY <2>2 DEF svars, ram, saveVars, history, Inv, Typed, SettingsTypeOK, InStep, Lasting,
       Written, Fresh, Matches, AsBefore, Stands
  <2>3. QED
    BY <2>1, <2>2
<1>3. QED
  BY <1>1, <1>2, PTL DEF SettingsSpec

\* The values of the settings, in RAM and in the files (WiFiSettings.cpp:49-166).
THEOREM SettingsTypes == SettingsSpec => []SettingsTypeOK
<1>1. Inv => SettingsTypeOK
  BY DEF Inv, Typed
<1>2. QED
  BY <1>1, InvInductive, PTL

\* A form shows what is stored: RAM and files agree whenever a page can be served.
THEOREM FormsShowFiles == SettingsSpec => []ShowsWhatIsStored
<1>1. Inv => ShowsWhatIsStored
  BY DEF Inv, InStep, ShowsWhatIsStored, Idle, Params
<1>2. QED
  BY <1>1, InvInductive, PTL

\* A form that is up to date and not edited comes back as it went out but for a
\* network nobody had chosen and what has characters outside ASCII: the mask and the
\* defaults change no file.
THEOREM UneditedIsHarmless == SettingsSpec => []UneditedComesBack
<1>1. ASSUME Inv, unedited # Empty, NEW i \in DOMAIN Names
      PROVE  \/ Names[i] = "ssid" /\ unedited.ssid = Empty
             \/ files[Names[i]] \in IF i < pos /\ Names[i] # "wifiPassword"
                                    THEN Returned(unedited[Names[i]])
                                    ELSE {unedited[Names[i]]}
  <2>1. i \in 1 .. 5 /\ pos \in 0 .. 6
    BY <1>1, NamesInOrder DEF Inv, Typed, SettingsTypeOK
  <2>2. CASE i = 1
    BY <1>1, <2>1, <2>2, NamesInOrder DEF Inv, AsBefore, Stands
  <2>3. CASE i = 2
    BY <1>1, <2>3, NamesInOrder DEF Inv, AsBefore
  <2>4. CASE i = 3
    BY <1>1, <2>1, <2>4, NamesInOrder DEF Inv, AsBefore, Stands
  <2>5. CASE i = 4
    BY <1>1, <2>5, BoxComesBack, NamesInOrder DEF Inv, AsBefore, Contents
  <2>6. CASE i = 5
    BY <1>1, <2>1, <2>6, NamesInOrder DEF Inv, AsBefore, Stands
  <2> QED
    BY <2>1, <2>2, <2>3, <2>4, <2>5, <2>6
<1>2. Inv => UneditedComesBack
  BY <1>1 DEF UneditedComesBack
<1>3. QED
  BY <1>2, InvInductive, PTL

\* The password in force changes between two starts only if a form asked for it,
\* wherever a restart fell.
THEOREM PasswordLasts == SettingsSpec => PasswordKept
<1>1. Inv /\ [SettingsNext]_svars
        => [pc = "params" /\ pc' = "up" /\ inForce # Empty => password = inForce]_svars
  BY DEF Inv, InStep, Lasting
<1>2. QED
  BY <1>1, InvInductive, PTL DEF SettingsSpec, PasswordKept

\* A form that was saved whole is what the next start works with.
THEOREM SavedFormsAct == SettingsSpec => SavedIsInForce
<1>1. ASSUME Inv, [SettingsNext]_svars, pc = "params", pc' = "up", posted # Empty
      PROVE  conf' = Effective(posted)
  <2>1. conf' = Effective(files)
    BY <1>1 DEF SettingsNext, Begin, StorePassword, ReadParams, GetPortal, PostUnknown,
       PostBegin, PostStore, PostEnd, Reboot, Idle, svars
  <2>2. QED
    BY <1>1, <2>1 DEF Inv, Written, Effective
<1>2. QED
  BY <1>1, InvInductive, PTL DEF SettingsSpec, SavedIsInForce
=============================================================================

------------------------------ MODULE Settings ------------------------------
(***************************************************************************)
(* WiFiSettings: one file per setting, a form that shows them, and globals *)
(* that only a restart reads again.  Three parameters stand for all: the   *)
(* portal's own password, a text (or number) and a checkbox; beside them   *)
(* are the name and the password of the network.                           *)
(***************************************************************************)
EXTENDS Naturals, Sequences

CONSTANTS
    Passwords,  \* what the portal's password may be
    Networks,   \* the networks a scan may find
    Key,        \* a password of a network
    Texts,      \* what may be typed into the text
    Foreign,    \* names and values with characters outside ASCII, of any of the three
    Default,    \* the text when nothing is stored
    Mask,       \* "##**##**##**", shown instead of the network's password
    On,         \* the value of a checked box
    Empty,      \* the empty string: also what a missing file reads as
    MaxPages    \* bound: pages served in one boot

ASSUME MarksAssumption == Mask # Key /\ Mask # Empty /\ Key # Empty /\ On # Empty
ASSUME TypedAssumption ==
    Empty \notin Passwords \cup Networks \cup Texts \cup Foreign \cup {Default}
ASSUME ForeignAssumption == {Mask, On} \cap Foreign = {} /\ \A v \in Foreign : Foreign \ {v} # {}
ASSUME PagesAssumption == MaxPages \in Nat \ {0}

\* The files a save writes, in its order: begin() registers the portal's
\* password and its checkbox before the parameters of setup().
Names == <<"ssid", "wifiPassword", "portalPassword", "box", "text">>
Params == {"portalPassword", "box", "text"}

Contents ==
    [ssid : Networks \cup Foreign \cup {Empty}, wifiPassword : {Key, Empty},
     portalPassword : Passwords \cup Foreign \cup {Empty}, box : {On, Empty},
     text : Texts \cup Foreign \cup {Empty}]

VARIABLES
    pc,        \* where the start-up is; "up" when pages are served
    files,     \* the content of the files
    value,     \* params: the value of each parameter in RAM
    password,  \* WiFiSettings.password
    conf,      \* what the program works with: box and text
    pages,     \* POST handlers of /portal registered in this boot
    form,      \* the form in the browser, or Empty; is it still up to date?
    post, pos, \* the form being saved and the next file; pos = 0: none is
    inForce,   \* history: the password of the last start, unless posted anew
    posted,    \* history: what was posted, once it is saved whole; or Empty
    unedited   \* history: files at the begin of the save of an unedited form

ram     == <<value, password, conf, pages>>
saveVars == <<post, pos>>
history == <<inForce, posted, unedited>>
svars   == <<pc, files, ram, form, saveVars, history>>

\* string(), integer() and checkbox(): what is stored, else the default.
Effective(f) == [text |-> IF f.text = Empty THEN Default ELSE f.text, box |-> f.box = On]

\* A box shows its default, unchecked, for what is not stored.
NoValue == [p \in Params |-> Empty]

SettingsInit ==
    /\ pc = "begin" /\ files \in Contents
    /\ value = NoValue /\ password = Empty /\ conf = Empty /\ pages = 0
    /\ form = Empty /\ post = Empty /\ pos = 0
    /\ inForce = Empty /\ posted = Empty /\ unedited = Empty

-----------------------------------------------------------------------------
(* Start-up *)

\* begin(): the stored password, or a new one that is stored next.
Begin ==
    /\ pc = "begin"
    /\ password' \in IF files.portalPassword = Empty THEN Passwords ELSE {files.portalPassword}
    /\ value' = [value EXCEPT !.portalPassword = password']
    /\ pc' = IF files.portalPassword = Empty THEN "store" ELSE "params"
    /\ UNCHANGED <<files, conf, pages, form, saveVars, history>>

\* Mutant: the new password is not stored.
StorePassword_Not == pc = "store" /\ pc' = "params" /\ UNCHANGED <<files, ram, form, saveVars, history>>

StorePassword ==
    /\ pc = "store" /\ pc' = "params"
    /\ files' = [files EXCEPT !.portalPassword = password]
    /\ UNCHANGED <<ram, form, saveVars, history>>

\* The settings of setup(); portal() then serves the pages.
ReadParams ==
    /\ pc = "params" /\ pc' = "up"
    /\ value' = [value EXCEPT !.box = files.box, !.text = files.text]
    /\ conf' = Effective(files)
    /\ inForce' = password
    /\ UNCHANGED <<files, password, pages, form, saveVars, posted, unedited>>

-----------------------------------------------------------------------------
(* The pages *)

Idle == pc = "up" /\ pos = 0

\* html_entities() writes a reference for every byte that is not plain ASCII, and
\* the browser reads each as a character: what is Foreign comes back as another,
\* longer value, all else as it was.
Returned(v) == IF v \in Foreign THEN Foreign \ {v} ELSE {v}

\* The networks found, as their options come back.
Options == UNION {Returned(n) : n \in Networks \cup Foreign}

\* What a browser sends for a form nobody touched: without a stored network it
\* chooses the first of those found.
Shown ==
    [ssid : IF files.ssid = Empty THEN Options \cup {Empty} ELSE Returned(files.ssid),
     wifiPassword : {IF files.wifiPassword = Empty THEN Empty ELSE Mask},
     portalPassword : Returned(value.portalPassword), box : {value.box},
     text : Returned(value.text)]

\* GET /portal: every page registers the handler for its form anew.
GetPortal ==
    /\ Idle /\ pages < MaxPages /\ pages' = pages + 1
    /\ \E f \in Shown : form' = [fields |-> f, current |-> TRUE]
    /\ UNCHANGED <<pc, files, value, password, conf, saveVars, history>>

\* What may be edited: any one field.  A network that is chosen clears the field of
\* its password (onchange of the select), which may be typed then.
Edited(f) ==
    {[f EXCEPT !.ssid = s, !.wifiPassword = Empty] : s \in Options}
    \cup {[f EXCEPT !.ssid = s, !.wifiPassword = Key] : s \in Options}
    \cup {[f EXCEPT !.wifiPassword = k] : k \in {Key, Empty}}
    \cup {[f EXCEPT !.portalPassword = p] : p \in Passwords \cup Foreign \cup {Empty}}
    \cup {[f EXCEPT !.box = b] : b \in {On, Empty}}
    \cup {[f EXCEPT !.text = t] : t \in Texts \cup Foreign \cup {Empty}}

\* POST /portal with no page served in this boot finds no handler.
PostUnknown ==
    /\ Idle /\ pages = 0 /\ form # Empty /\ form' = Empty
    /\ UNCHANGED <<pc, files, ram, saveVars, history>>

\* POST /portal.  The browser may keep the form, which is then out of date.
PostBegin ==
    /\ Idle /\ pages > 0 /\ form # Empty
    /\ \E f \in {form.fields} \cup Edited(form.fields) :
          /\ post' = f
          /\ unedited' = IF f = form.fields /\ form.current THEN files ELSE Empty
    /\ pos' = 1 /\ posted' = Empty
    /\ form' \in {Empty, [form EXCEPT !.current = FALSE]}
    /\ UNCHANGED <<pc, files, ram, inForce>>

\* Mutant: the mask is taken for a password.
Kept_Never(n) == FALSE
\* Mutant: what is empty is not stored.
Kept_Empty(n) == post[n] \in {Mask, Empty}
Kept(n) == n = "wifiPassword" /\ post[n] = Mask

\* Mutant: the value in RAM stays.
PostStore_FileOnly ==
    /\ pc = "up" /\ pos \in 1 .. Len(Names)
    /\ LET n == Names[pos] IN
         /\ files' = IF Kept(n) THEN files ELSE [files EXCEPT ![n] = post[n]]
         /\ inForce' = IF n = "portalPassword" /\ post[n] # inForce THEN Empty ELSE inForce
    /\ pos' = pos + 1
    /\ UNCHANGED <<pc, ram, form, post, posted, unedited>>

\* The handler stores one file after the other.
PostStore ==
    /\ pc = "up" /\ pos \in 1 .. Len(Names)
    /\ LET n == Names[pos] IN
         /\ files' = IF Kept(n) THEN files ELSE [files EXCEPT ![n] = post[n]]
         /\ value' = IF n \in Params THEN [value EXCEPT ![n] = post[n]] ELSE value
         /\ inForce' = IF n = "portalPassword" /\ post[n] # inForce THEN Empty ELSE inForce
    /\ pos' = pos + 1
    /\ UNCHANGED <<pc, password, conf, pages, form, post, posted, unedited>>

PostEnd ==
    /\ pc = "up" /\ pos > Len(Names) /\ pos' = 0
    /\ posted' = post /\ post' = Empty /\ unedited' = Empty
    /\ UNCHANGED <<pc, files, ram, form, inForce>>

\* POST /restart, a long press, a crash or a loss of power, also within a save.
Reboot ==
    /\ pc' = "begin"
    /\ value' = NoValue /\ password' = Empty /\ conf' = Empty /\ pages' = 0
    /\ post' = Empty /\ pos' = 0 /\ unedited' = Empty
    /\ UNCHANGED <<files, form, inForce, posted>>

SettingsNext ==
    \/ Begin \/ StorePassword \/ ReadParams \/ GetPortal \/ PostUnknown
    \/ PostBegin \/ PostStore \/ PostEnd \/ Reboot

SettingsSpec == SettingsInit /\ [][SettingsNext]_svars

-----------------------------------------------------------------------------
\* What is stored and held in RAM are values of the form and of the code.
SettingsTypeOK ==
    /\ pc \in {"begin", "store", "params", "up"} /\ files \in Contents
    /\ password \in Passwords \cup Foreign \cup {Empty} /\ pages \in 0 .. MaxPages
    /\ value.portalPassword \in Passwords \cup Foreign \cup {Empty}
    /\ value.box \in {On, Empty} /\ value.text \in Texts \cup Foreign \cup {Empty}
    /\ conf = Empty \/ conf \in [text : Texts \cup Foreign \cup {Default}, box : BOOLEAN]
    /\ pos \in 0 .. Len(Names) + 1

\* The password that protects the pages and the FTP server changes between two
\* starts only if a form carried another one (WiFiSettings.cpp, of begin(): otherwise
\* "the password would be changed all the time"), wherever a crash falls.  A form
\* nobody edited carries another one when the password has characters outside ASCII.
PasswordKept == [][pc = "params" /\ pc' = "up" /\ inForce # Empty => password = inForce]_svars

\* A form that was saved whole is what the next start works with, the boxes
\* that were not checked included.
SavedIsInForce ==
    [][pc = "params" /\ pc' = "up" /\ posted # Empty => conf' = Effective(posted)]_svars

\* While a form is saved that is up to date and that nobody edited, each file is as
\* it was, until its turn comes and from then on: the mask leaves the password alone
\* and the defaults of empty fields come back as they were.  What changes is a name
\* that was not stored, and what has characters outside ASCII, which becomes another
\* value when its turn comes (WiFiSettings.cpp:43).
UneditedComesBack ==
    unedited # Empty =>
        \A i \in DOMAIN Names : LET n == Names[i] IN
            \/ n = "ssid" /\ unedited.ssid = Empty
            \/ files[n] \in IF i < pos /\ n # "wifiPassword" THEN Returned(unedited[n])
                            ELSE {unedited[n]}

\* While pages are served, a form is made from what is stored, after any number of
\* saves, torn saves and restarts: what RAM holds and the page is built of are the
\* contents of the files.
ShowsWhatIsStored ==
    Idle => \A p \in Params : value[p] = files[p]
=============================================================================

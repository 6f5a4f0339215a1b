------------------------------ MODULE FtpPath ------------------------------
(***************************************************************************)
(* How the FTP server makes a path of what a client names: FtpServer has   *)
(* names that are already resolved, here they are strings.  A string is a  *)
(* sequence of letters and slashes; LittleFS reads several slashes like    *)
(* one and does not mind one at the end.                                   *)
(***************************************************************************)
EXTENDS Naturals, SequencesExt

CONSTANTS
    Letters,    \* what names are made of
    Slash,
    MaxParam,   \* bound: the length of a parameter
    MaxCwd      \* bound: the length of the working directory's path

ASSUME LettersAssumption == Slash \notin Letters
ASSUME LengthAssumption == MaxParam \in Nat \ {0} /\ MaxCwd \in Nat \ {0}

VARIABLES
    cwd,    \* as in the code
    dirs,   \* the directories there are, in normal form
    hung    \* processCommand() is in a loop without an end

pathVars == <<cwd, dirs, hung>>

Strings(n) == UNION {[1 .. k -> Letters \cup {Slash}] : k \in 0 .. n}
Parameters == Strings(MaxParam)

endsWithSlash(s) == s # <<>> /\ Last(s) = Slash

\* String::remove(index) takes away everything from index on; beyond the end of
\* the string it does nothing.
remove(s, index) == IF index >= Len(s) THEN s ELSE SubSeq(s, 1, index)

\* How LittleFS reads a path: without the slashes that end it or that another one
\* follows, so the root is empty.
Kept(s) == {i \in DOMAIN s : ~(s[i] = Slash /\ (i = Len(s) \/ s[i + 1] = Slash))}

Rank(S, i) == Cardinality({j \in S : j <= i})

Normal(s) ==
    LET kept == Kept(s)
    IN  [k \in 1 .. Cardinality(kept) |-> s[CHOOSE i \in kept : Rank(kept, i) = k]]

Tidy(s) == s = <<Slash>> \/ Normal(s) = s

-----------------------------------------------------------------------------
\* Mutant: a parameter follows cwd without a slash.
joined_Bare(param) ==
    IF param # <<>> /\ param[1] = Slash THEN param ELSE cwd \o param

\* cwd [ + '/' + param ], or param alone if it is absolute.
joined(param) ==
    IF param # <<>> /\ param[1] = Slash THEN param
    ELSE IF param = <<>> THEN cwd
    ELSE (IF endsWithSlash(cwd) THEN cwd ELSE Append(cwd, Slash)) \o param

stripped(s) ==
    LET slashes == {i \in DOMAIN s : s[i] = Slash}
    IN  IF slashes = {} THEN s
        ELSE remove(s, (CHOOSE i \in slashes : \A j \in slashes : j <= i) - 1)

\* Mutant: the path is taken as it is.
sanetized_Not(s) == s

\* What is cut off depends on the length of cwd, not of the string.  After the
\* first turn of the loop the second has nothing to remove: the loop ends by then
\* or never does.
sanetized(s) ==
    LET once == IF Len(s) > 1 /\ endsWithSlash(s) THEN remove(s, Len(cwd) - 1) ELSE s
    IN  IF once = <<>> THEN <<Slash>> ELSE once

Endless(s) ==
    /\ Len(s) > 1 /\ endsWithSlash(s)
    /\ LET once == remove(s, Len(cwd) - 1) IN Len(once) > 1 /\ endsWithSlash(once)

getPathName(param, fullname) ==
    sanetized(IF fullname THEN joined(param) ELSE stripped(joined(param)))

getPathNameHangs(param, fullname) ==
    Endless(IF fullname THEN joined(param) ELSE stripped(joined(param)))

-----------------------------------------------------------------------------
\* Every command first makes a path of its parameter.
Hang(param, fullname) ==
    /\ getPathNameHangs(param, fullname)
    /\ hung' = TRUE
    /\ UNCHANGED <<cwd, dirs>>

CWD(param) ==
    \/ Hang(param, TRUE)
    \/ /\ ~getPathNameHangs(param, TRUE)
       /\ LET path == getPathName(param, TRUE) IN
             /\ Len(path) <= MaxCwd
             /\ cwd' = IF Normal(path) \in dirs THEN path ELSE cwd
       /\ UNCHANGED <<dirs, hung>>

\* Whether the directory is still there is not looked at.
CDUP ==
    \/ Hang(<<>>, FALSE)
    \/ /\ ~getPathNameHangs(<<>>, FALSE)
       /\ cwd' = getPathName(<<>>, FALSE)
       /\ UNCHANGED <<dirs, hung>>

Parent(d) == Normal(stripped(d))

Below(d) == {e \in dirs : e # d /\ IsPrefix(Append(d, Slash), e)}

MKD(param) ==
    /\ ~getPathNameHangs(param, TRUE)
    /\ LET d == Normal(getPathName(param, TRUE)) IN
          /\ d \notin dirs /\ Len(d) <= MaxCwd
          /\ Parent(d) \in dirs
          /\ dirs' = dirs \cup {d}
    /\ UNCHANGED <<cwd, hung>>

\* An empty directory goes, and with it those above it that are empty then.
RMD(param) ==
    /\ ~getPathNameHangs(param, TRUE)
    /\ LET d == Normal(getPathName(param, TRUE)) IN
          /\ d \in dirs \ {<<>>} /\ Below(d) = {}
          /\ dirs' = {e \in dirs \ {d} :
                         e = <<>> \/ \E f \in Below(e) \cup {e} : f # d /\ d \notin Below(f)}
    /\ UNCHANGED <<cwd, hung>>

\* A client that comes anew starts at the root; so does one after the watchdog
\* has ended the loop.
NewSession ==
    /\ cwd' = <<Slash>> /\ hung' = FALSE
    /\ UNCHANGED dirs

PathInit == cwd = <<Slash>> /\ dirs = {<<>>} /\ hung = FALSE

PathNext ==
    \/ ~hung /\ (CDUP \/ \E param \in Parameters : CWD(param) \/ MKD(param) \/ RMD(param))
    \/ NewSession

PathSpec == PathInit /\ [][PathNext]_pathVars

-----------------------------------------------------------------------------
\* Whatever clients send, the working directory is an absolute path that does
\* not end with a slash, unless it is the root: what joined() relies on.
PathTypeOK ==
    /\ cwd \in Strings(MaxCwd) /\ cwd # <<>> /\ cwd[1] = Slash
    /\ endsWithSlash(cwd) => cwd = <<Slash>>
    /\ dirs \subseteq Strings(MaxCwd) /\ <<>> \in dirs
    /\ \A d \in dirs : Normal(d) = d
    /\ hung \in BOOLEAN

TidyNames == {p \in Parameters : Tidy(p)}

\* The last name of the working directory has a slash before it that is not the
\* first of the path, and another before that one: after a CWD ///a or CWD a//b.
DoubledLast ==
    \E i \in 3 .. Len(cwd) :
        /\ cwd[i] = Slash /\ cwd[i - 1] = Slash
        /\ \A j \in i + 1 .. Len(cwd) : cwd[j] # Slash

\* From every directory a client can get to, also by a path with doubled slashes:
\* a tidy name means what it says, so the path the command works on is the name
\* below cwd, or the absolute name, and it is found; and the loop that removes
\* slashes (FTPServer.cpp:1060) ends for a tidy name always, but for a CDUP only
\* unless slashes are doubled before the last name of cwd.  There it never ends:
\* what it cuts off lies beyond the end of the string.
TidyNamesResolve ==
    /\ \A p \in TidyNames :
        /\ ~getPathNameHangs(p, TRUE)
        /\ Normal(getPathName(p, TRUE)) =
              IF p # <<>> /\ p[1] = Slash THEN Normal(p)
              ELSE Normal(cwd) \o Normal(<<Slash>> \o p)
    /\ getPathNameHangs(<<>>, FALSE) <=> DoubledLast
=============================================================================

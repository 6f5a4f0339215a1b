------------------------------- MODULE MCFtp --------------------------------
EXTENDS FtpProps, TLC

\* The root and one or two entries: enough for a file left open by another
\* command, a directory, a rename and the destination of a rename.
CONSTANTS root, a, b, none

OneName == {root, a}
TwoNames == {root, a, b}
Alike == Permutations({a, b})

\* Each instance sends the commands that meet in its question.
Login == {"USER", "PASS", "FEAT", "QUIT"}
TransferCommands == (Login \ {"FEAT"}) \cup
    {"NOOP", "TOOLONG", "RETR", "STOR", "PASV", "PORT", "ABOR", "SIZE", "LIST"}
NameCommands == Login \cup
    {"NOOP", "TOOLONG", "DELE", "MKD", "RMD", "RNFR", "RNTO", "CWD", "CDUP", "SIZE"}
=============================================================================

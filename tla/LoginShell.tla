----------------------------- MODULE LoginShell -----------------------------
(***************************************************************************)
(* setup_login_shell_command (src/src/server.c): when run_server is given *)
(* no application, the forked child picks $SHELL (default /bin/sh) and the *)
(* argv[0] to exec it with: "-" and the basename for a login shell, the    *)
(* full path otherwise. Strings are sequences over a small alphabet; the   *)
(* 256-byte buffers are the constant ShellBuf, and the code's limit 254 is *)
(* ShellBuf - 2, so the boundary cases keep their relation to the buffer.  *)
(***************************************************************************)
EXTENDS Naturals, Sequences, SequencesExt

CONSTANTS
  Chars,      \* the bytes a $SHELL value is made of; contains "/"
  ShellBuf,   \* sizeof(shell) = sizeof(shellname) (256 in the code)
  Unset       \* getenv("SHELL") returned NULL

ASSUME "/" \in Chars /\ ShellBuf \in Nat /\ ShellBuf > 2 /\ Unset \notin Seq(Chars)

Nul == "\\0"

\* strcpy(shellname, "-sh"); strcpy(shell, "/bin/sh");
DefaultShell     == <<"/", "b", "i", "n", "/", "s", "h">>
DefaultShellName == <<"-", "s", "h">>

\* Every $SHELL the model tries: unset, or any string up to the length
\* of the buffers (one byte more than they hold with the NUL).
EnvValues == {Unset} \cup SeqOf(Chars, ShellBuf)

\* Variant: the $SHELL length check is dropped.
EnvTooLongUnchecked(len) == FALSE

\* if (len >= 254): fall back to the defaults.
EnvTooLong(len) == len >= ShellBuf - 2

\* Variant: the scan stops on the slash without start++.
ScanBackNoSkip(s, start) ==
  LET RECURSIVE Scan(_)
      Scan(i) == IF i <= 0 THEN -1 ELSE IF s[i] = "/" THEN i ELSE Scan(i - 1)
  IN  Scan(start)

\* for (; start-- > 0;) if (shell[start] == '/') { start++; break; }
\* With 1-based indices: the index just after the last slash, or -1
\* (start = -1 in the code) when there is no slash.
ScanBack(s, start) ==
  LET RECURSIVE Scan(_)
      Scan(i) == IF i <= 0 THEN -1 ELSE IF s[i] = "/" THEN i + 1 ELSE Scan(i - 1)
  IN  Scan(start)

\* strcpy(shellname + 1, shell + start). With start = -1 it reads
\* shell[-1], the byte before the buffer: undefined, so any byte b, and a
\* NUL there ends the copy at once.
LoginNames(s) ==
  LET start == ScanBack(s, Len(s))
  IN  IF start = -1
        THEN {IF b = Nul THEN <<"-">> ELSE <<"-", b>> \o s : b \in Chars \cup {Nul}}
        ELSE {<<"-">> \o SubSeq(s, start, Len(s))}

VARIABLES
  env,        \* getenv("SHELL")
  login,      \* login_shell
  shell,      \* the shell buffer after the call
  shellname,  \* the shellname buffer after the call (argv[0])
  done        \* setup_login_shell_command has returned

vars == <<env, login, shell, shellname, done>>

Init ==
  /\ env \in EnvValues /\ login \in BOOLEAN
  /\ shell = <<>> /\ shellname = <<>> /\ done = FALSE

\* The whole call: defaults first, then the early returns on an unset or
\* over-long $SHELL, then the copy and argv[0].
SetupLoginShellCommand ==
  /\ ~done
  /\ done' = TRUE
  /\ IF env = Unset \/ EnvTooLong(Len(env))
       THEN shell' = DefaultShell /\ shellname' = DefaultShellName
       ELSE /\ shell' = env
            /\ IF login THEN shellname' \in LoginNames(env)
                        ELSE shellname' = env
  /\ UNCHANGED <<env, login>>

Next == SetupLoginShellCommand

Spec == Init /\ [][Next]_vars

-----------------------------------------------------------------------------
(* Properties.                                                             *)

\* The reference basename: what follows the last slash.
Basename(s) == SubSeq(s, SelectLastInSeq(s, LAMBDA ch : ch = "/") + 1, Len(s))

\* Both strings, with their terminating NUL, fit the 256-byte buffers
\* they are strcpy'd into, for every $SHELL length up to one past the
\* limit (the length check at "len >= 254" and the "-" prefix).
NamesFitBuffers ==
  done => Len(shell) + 1 <= ShellBuf /\ Len(shellname) + 1 <= ShellBuf

\* For a $SHELL that contains a slash, the backwards scan gives a login
\* shell the argv[0] "-" followed by the basename (spec 4.F, scenario S5:
\* /usr/bin/fish gives -fish).
LoginNameIsBasenameOfPath ==
  (done /\ login /\ env # Unset /\ ~EnvTooLong(Len(env)) /\ "/" \in Range(env))
    => shellname = <<"-">> \o Basename(env)

\* Spec 4.F and scenario S5: the shell exec'd is $SHELL, or /bin/sh when
\* it is unset, and its argv[0] is "-" and the basename for a login shell
\* and the full path otherwise.
ArgvZeroMatchesSpec ==
  LET path == IF env = Unset THEN DefaultShell ELSE env
  IN  (done /\ (env = Unset \/ ~EnvTooLong(Len(env)))) =>
        shellname = IF login THEN <<"-">> \o Basename(path) ELSE path
=============================================================================

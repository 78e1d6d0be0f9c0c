----------------------------- MODULE ScriptPatcher -----------------------------
(***************************************************************************)
(* patchShellScript (actions/patchInstallScript.go), and as much of bash   *)
(* as is needed to say what its two passes are for.                        *)
(*                                                                         *)
(* A script is a sequence of lines, and a line is one of the kinds that    *)
(* the patcher or bash tell apart.  The words of a command are left out:   *)
(* of a sudo line it is kept whether -A is absent, is the first argument,  *)
(* or stands somewhere else.  The three lines that are injected count as   *)
(* the one of them that is not a comment.                                  *)
(***************************************************************************)
EXTENDS Naturals, Sequences

\* "mention": a comment or a string that contains "set -e"; "errexit": the
\* command set -e; "strict": set -eo pipefail; "pipe": a pipeline; "sudo",
\* "sudoA" and "sudoLateA": sudo without -A, with -A first, with -A later.
Commands == {"command", "pipe", "sudo", "sudoA", "sudoLateA"}
Line == Commands \cup {"shebang", "comment", "mention", "errexit", "strict"}

-----------------------------------------------------------------------------

\* strings.Contains does not know what is a comment.
hasSetE(s) == \E i \in DOMAIN s : s[i] \in {"mention", "errexit", "strict"}

\* A variant that puts the flag at the end of the script.
InjectLast(s) == IF hasSetE(s) THEN s ELSE s \o <<"errexit">>

injectSafetyFlags(s) ==
    IF hasSetE(s) THEN s
    ELSE IF s # <<>> /\ Head(s) = "shebang" THEN <<"shebang", "errexit">> \o Tail(s)
    ELSE <<"errexit">> \o s

isSudoCommandLine(l) == l \in {"sudo", "sudoA", "sudoLateA"}

moveSudoAToFront(l) == IF isSudoCommandLine(l) THEN "sudoA" ELSE l

normalizeSudoAFlags(s) == [i \in DOMAIN s |-> moveSudoAToFront(s[i])]

\* For install.sh; run.sh has the second pass only.
patchShellScript(s) == normalizeSudoAFlags(injectSafetyFlags(s))

-----------------------------------------------------------------------------
(* What bash makes of a script                                             *)

\* set -e is in force when line i is reached.
InForce(s, i) == \E j \in 1 .. (i - 1) : s[j] \in {"errexit", "strict"}

\* When its first command fails, line i of a pipeline still succeeds.
HidesFailure(s, i) == s[i] = "pipe" /\ \A j \in 1 .. (i - 1) : s[j] # "strict"

\* Scripts as written whose failures the patcher does not bring to light: it
\* never sets pipefail, and leaves alone what contains "set -e" anywhere.
Lax(s) ==
    \/ \E i \in DOMAIN s : HidesFailure(s, i)
    \/ hasSetE(s) /\ \E i \in DOMAIN s : s[i] \in Commands /\ ~InForce(s, i)

=============================================================================

------------------------------ MODULE MCLauncher ------------------------------
(* Two shells, so that commands can overlap, and two writers, so that a start *)
(* can follow another's stop, crash, or failure to stop, and can race it.     *)
EXTENDS Launcher

CONSTANTS s1, s2

MCShells == {s1, s2}
MCOneShell == {s1}
MCMaxPids == 2

=============================================================================

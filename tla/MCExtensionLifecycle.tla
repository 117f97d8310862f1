------------------------ MODULE MCExtensionLifecycle ------------------------
(***************************************************************************)
(* Small instances of ExtensionLifecycle: two processes, the three owned   *)
(* files, and up to two writes of the registry by others.                  *)
(***************************************************************************)
EXTENDS ExtensionLifecycle, TLC

AllCommands == {"install", "enable", "disable", "uninstall"}

InstallAndSwitch == {"install", "enable", "disable"}

Symmetry == Permutations(Procs)
=============================================================================

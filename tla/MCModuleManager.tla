-------------------------- MODULE MCModuleManager --------------------------
(* Small instances of ModuleManager for TLC. *)
EXTENDS ModuleManager

CONSTANTS t1, t2, loop, http

MCThreads == {t1, t2}
MCModules == {loop, http}
MCResident == {loop}
NoMemory == {"list_add"}
LibraryMissing == {"dlopen"}
=============================================================================

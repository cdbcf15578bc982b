---------------------------- MODULE MCEspVarFile ----------------------------
(***************************************************************************)
(* Instances of EspVarFile for TLC, with the three directories of          *)
(* efivarfs.c:43.                                                          *)
(***************************************************************************)
EXTENDS EspVarFile, TLC

MCPaths == <<"/boot/efi/", "/boot/", "/efi/">>

MCWheres == {{}, {"/efi/"}, {"/boot/", "/efi/"}}

Symm == Permutations(Proc)
=============================================================================

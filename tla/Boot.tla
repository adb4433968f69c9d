-------------------------------- MODULE Boot --------------------------------
(***************************************************************************)
(* The storage part of _start (src/main.rs): the first disk is mounted and *)
(* listed, the mount is dropped at the end of its block, and the modules   *)
(* of the initrd are loaded.  Ext3 is used more freely than _start does,   *)
(* with every call at any time while it is mounted.                        *)
(***************************************************************************)
EXTENDS Ext3, Loader

bootVars == <<vars, loaderVars>>

BootInit == Init /\ LoaderInit

UseDisk == step = "find" /\ Next /\ UNCHANGED loaderVars

LoadModules == pc = "unmounted" /\ LoaderNext /\ UNCHANGED vars

(* hlt_loop(), a panic, or the scheduler has taken over. *)
Over == (step \in Ended \/ pc = "panic") /\ UNCHANGED bootVars

BootNext == UseDisk \/ LoadModules \/ Over

(* The boot thread runs on; nobody has to use the disk. *)
BootSpec ==
    /\ BootInit /\ [][BootNext]_bootVars
    /\ WF_bootVars(UseDisk /\ Step)
    /\ WF_bootVars(LoadModules /\ step # "find")
=============================================================================

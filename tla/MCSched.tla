------------------------------ MODULE MCSched ------------------------------
(* Instance of Sched for TLC: a module of the initrd, and a thread that     *)
(* spawns a second module next to it, and the shell, while tasks run and    *)
(* exit.                                                                    *)
EXTENDS Sched

Boot == <<"module", "spawner">>
Late == <<"module", "shell">>
=============================================================================

-------------------------- MODULE MCServiceProcess --------------------------
(* An instance of ServiceProcess for TLC.                                    *)
EXTENDS ServiceProcess
=============================================================================

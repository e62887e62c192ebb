-------------------------- MODULE MCInstallRelease --------------------------
(* Two installers, two versions, and possibly the lock of an earlier one. *)
EXTENDS InstallRelease
=============================================================================

------------------------- MODULE MCLiveSshService -------------------------
(* An instance of LiveSshService for TLC: the fair specification. *)
EXTENDS LiveSshService
===========================================================================

---------------------------- MODULE MCDashboard -----------------------------
(***************************************************************************)
(* A small instance of Dashboard.                                          *)
(***************************************************************************)
EXTENDS Dashboard

AllPanels == {"stats", "log", "rules", "dpi"}
=============================================================================

----------------------------- MODULE MCNavigation -----------------------------
(***************************************************************************)
(* Two pages, one form, three navigations over a history of three entries. *)
(***************************************************************************)
EXTENDS Navigation

CONSTANTS list, detail, form
=============================================================================

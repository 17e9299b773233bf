---------------------------- MODULE MCReleases ----------------------------
(* Two releases whose names have slugs of their own. *)
EXTENDS Releases
MCSlugify == <<1, 2>>
===========================================================================

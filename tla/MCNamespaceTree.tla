--------------------------- MODULE MCNamespaceTree ---------------------------
(***************************************************************************)
(* The instances of MCNamespace, for NamespaceTree and its listing.        *)
(***************************************************************************)
EXTENDS MCNamespace, NamespaceTree

\* Pages for one entry and for two.
SmallPages == {1, 2}
=============================================================================

---------------------------- MODULE PinnedSource ----------------------------
(***************************************************************************)
(* protocol-source.json: the commit of the Bridge that the generated       *)
(* models, the fixtures and the integration tests are pinned to.           *)
(***************************************************************************)

CONSTANT Revisions      \* commits of the Bridge

VARIABLE pin            \* "revision"
=============================================================================

------------------------------- MODULE MCRound -------------------------------
(***************************************************************************)
(* Small repositories: two or three pull requests, at most two commits      *)
(* each, gains of one or two units.  The bounds of every run are in its     *)
(* .cfg; nothing here but names for the sets they choose from.              *)
(***************************************************************************)
EXTENDS Round

RuleKinds == {"copycat", "reregistered", "no-candidate", "guard error", "scored", "review"}

=============================================================================

----------------------------- MODULE ConfigDoc -----------------------------
(***************************************************************************)
(* ListAllMember of src/config.cpp: a YAML document as the list of its     *)
(* members that Config::LoadFromYaml goes through.                         *)
(*                                                                         *)
(* A node is [val, kids]: its text (Scalar() or the printed subtree) and   *)
(* the <<key, node>> pairs of a map, in the document's order; other nodes  *)
(* have no kids.  A member's name is the sequence of the keys that lead to *)
(* it, which the code joins with dots.                                     *)
(***************************************************************************)
EXTENDS Sequences, SequencesExt

RECURSIVE ListAllMember(_, _)
\* Names with other characters than the allowed ones are only reported.
ListAllMember(prefix, node) ==
  << [key |-> prefix, val |-> node.val] >>
    \o FlattenSeq([k \in DOMAIN node.kids |->
         ListAllMember(Append(prefix, node.kids[k][1]), node.kids[k][2])])
============================================================================

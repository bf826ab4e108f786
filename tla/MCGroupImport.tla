--------------------------- MODULE MCGroupImport ---------------------------
(* The import for TLC: a group with a child group that owns a resource, a note, *)
(* and a second resource of the same hash whose bytes the archive lacks.        *)
EXTENDS GroupImport, TLC

ImportSymmetry == Permutations(Handlers)

MCOwner == [i \in {"parent", "child", "image", "copy", "note"} |->
              CASE i = "child" -> "parent" [] i = "image" -> "child"
                [] i = "note" -> "parent" [] OTHER -> "none"]

MCRefs == {<<"note", "image">>, <<"parent", "note">>}

MCHashOf == [x \in {"image", "copy"} |-> "new"]

MCItems == {"tag", "type", "parent", "child", "image", "copy", "note"}

MCArchives == {MCItems, MCItems \ {"note"}, MCItems \ {"type", "image"}}

MCPriors == {{}, {"parent"}, {"image", "note"}}

MCExclusions == {{}, {"parent"}}
=============================================================================

------------------------ MODULE MCConfigPropagation ------------------------
(***************************************************************************)
(* ConfigPropagation for TLC: an Application, a gated file, a values file  *)
(* with two bindings, an owned artifact and a JSON policy, in the order of *)
(* the paths of the canonical document; a document that binds everything,  *)
(* one that differs in every value and binds one key of the values file    *)
(* only, and an invalid one.                                               *)
(***************************************************************************)
EXTENDS ConfigPropagation

CONSTANTS v1, v2

MCStrategy == <<"sync-policy", "presence-gated", "yaml-line-patch",
                "owned-artifact", "json-path-patch">>

\* 1 auto-sync, 2 the gate, 3 and 4 two keys of the values file, 5 the owned
\* artifact, 6 the policy.
MCBindings == 1 .. 6

MCBoundIn == <<{1}, {2}, {3, 4}, {5}, {6}>>

MCValues == {v1, v2}

MCInvalid == {<<v2, v2, v2, v2, v2, v1>>}

MCDocs == {<<v1, v2, v2, v1, v1, v1>>, <<v2, v1, v1, None, v2, None>>} \cup MCInvalid

\* syncPolicy with automated first and more after it, as the repository has
\* it; automated further down, with comments after it and after syncPolicy;
\* automated last in the file; no syncPolicy, and nothing after spec.
Layout(block, place, gaps, suffix) ==
    [block |-> block, place |-> place, gaps |-> gaps, suffix |-> suffix,
     newline |-> "kept"]

MCLayouts == {Layout("fixed", "home", {}, {"home", "own"}),
              Layout("other", "own", {"home", "own"}, {"home", "own"}),
              Layout("other", "own", {}, {"home"}),
              Layout("none", "home", {}, {})}

============================================================================

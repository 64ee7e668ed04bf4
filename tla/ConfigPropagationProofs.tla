----------------------- MODULE ConfigPropagationProofs -----------------------
(***************************************************************************)
(* Proofs about ConfigPropagation, for any list of targets with any        *)
(* strategies and bindings, any documents and layouts of Applications, and *)
(* any number of commits and faults.                                       *)
(*                                                                         *)
(* The plan for a document is a function of the document, the tree and the *)
(* files beside the owned artifacts (PlanOver).  While a writer works, the *)
(* artifacts before its next one are in place and the others are still     *)
(* what the plan was made from (ProgressInv).  Rendering a rendered file   *)
(* again changes it only where apply_sync_policy does (RenderedAgain), and *)
(* of a target's content a plan keeps only what no render writes (Alike):  *)
(* that is why some rollbacks are provable.                                *)
(***************************************************************************)
EXTENDS ConfigPropagation, TLAPS

-----------------------------------------------------------------------------
(* The automated block. *)

LEMMA SyncType ==
    ASSUME NEW s \in Syncs, NEW on \in BOOLEAN
    PROVE  ApplySyncPolicy(s, on) \in Syncs
  BY DEF ApplySyncPolicy, Syncs, Places

LEMMA SameSync ==
    ASSUME NEW x \in Syncs, NEW y \in Syncs, x.block = y.block, x.place = y.place,
           x.gaps = y.gaps, x.suffix = y.suffix, x.newline = y.newline
    PROVE  x = y
  BY DEF Syncs

\* A patch that left nothing fragile is a fixed point.
LEMMA SyncAgain ==
    ASSUME NEW s \in Syncs, NEW on \in BOOLEAN, NEW g,
           g = ApplySyncPolicy(s, on), ~Fragile(g)
    PROVE  ApplySyncPolicy(g, on) = g
<1>1. g \in Syncs
  BY SyncType
<1>2. g.block = IF on THEN "fixed" ELSE "none"
  BY DEF ApplySyncPolicy, Syncs
<1>3. ApplySyncPolicy(g, on) \in Syncs
  BY <1>1, SyncType
<1>4. ApplySyncPolicy(g, on).block = g.block
  BY <1>1, <1>2 DEF ApplySyncPolicy, Syncs
<1>5. CASE g.block = "none"
  <2>1. /\ ApplySyncPolicy(g, on).place = g.place
        /\ ApplySyncPolicy(g, on).gaps = g.gaps
        /\ ApplySyncPolicy(g, on).suffix = g.suffix
        /\ ApplySyncPolicy(g, on).newline = g.newline
    BY <1>1, <1>5 DEF ApplySyncPolicy, Syncs
  <2> QED
    BY <1>1, <1>3, <1>4, <2>1, SameSync
<1>6. CASE g.block # "none"
  <2>1. g.place \notin g.gaps /\ g.place \in g.suffix /\ on
    BY <1>2, <1>6 DEF Fragile
  <2>2. g.gaps \ {g.place} = g.gaps
    BY <2>1
  <2>3. /\ ApplySyncPolicy(g, on).place = g.place
        /\ ApplySyncPolicy(g, on).gaps = g.gaps \ {g.place}
        /\ ApplySyncPolicy(g, on).suffix = g.suffix
        /\ ApplySyncPolicy(g, on).newline = g.newline
    BY <1>1, <1>6, <2>1 DEF ApplySyncPolicy, Syncs
  <2> QED
    BY <1>1, <1>3, <1>4, <2>2, <2>3, SameSync
<1> QED
  BY <1>5, <1>6

\* ... and a fixed point with a final newline is not fragile.
LEMMA FixedIsNotFragile ==
    ASSUME NEW s \in Syncs, NEW on \in BOOLEAN, s.newline = "kept",
           ApplySyncPolicy(s, on) = s
    PROVE  ~Fragile(s)
<1>1. CASE s.block = "none"
  BY <1>1 DEF Fragile
<1>2. CASE s.block # "none"
  <2>1. ApplySyncPolicy(s, on).gaps = s.gaps \ {s.place}
    BY <1>2 DEF ApplySyncPolicy, Syncs
  <2>2. s.place \notin s.suffix => ApplySyncPolicy(s, on).newline = "lost"
    BY <1>2 DEF ApplySyncPolicy, Syncs
  <2> QED
    BY <2>1, <2>2 DEF Fragile
<1> QED
  BY <1>1, <1>2

\* A block at home among content, and what patches make of it.
AtHome(s) ==
    /\ s \in Syncs /\ s.newline = "kept"
    /\ s.place = "home" /\ "home" \in s.suffix \ s.gaps

SyncAlike(s, r) == AtHome(r) /\ r.gaps = s.gaps /\ r.suffix = s.suffix

LEMMA SyncStaysHome ==
    ASSUME NEW s, NEW r, SyncAlike(s, r), NEW on \in BOOLEAN
    PROVE  SyncAlike(s, ApplySyncPolicy(r, on))
<1>1. ApplySyncPolicy(r, on) \in Syncs
  BY SyncType DEF SyncAlike, AtHome
<1>2. r.gaps \ {r.place} = r.gaps
  BY DEF SyncAlike, AtHome
<1>3. /\ ApplySyncPolicy(r, on).place = "home"
      /\ ApplySyncPolicy(r, on).gaps = r.gaps
      /\ ApplySyncPolicy(r, on).suffix = r.suffix
      /\ ApplySyncPolicy(r, on).newline = "kept"
  BY <1>2 DEF SyncAlike, AtHome, ApplySyncPolicy, Syncs
<1> QED
  BY <1>1, <1>3 DEF SyncAlike, AtHome

\* Patching either gives the same block.
LEMMA SyncComesBack ==
    ASSUME NEW s, AtHome(s), NEW r, SyncAlike(s, r), NEW on \in BOOLEAN
    PROVE  ApplySyncPolicy(r, on) = ApplySyncPolicy(s, on)
<1>1. SyncAlike(s, ApplySyncPolicy(r, on)) /\ SyncAlike(s, ApplySyncPolicy(s, on))
  BY SyncStaysHome DEF SyncAlike
<1>2. ApplySyncPolicy(r, on).block = ApplySyncPolicy(s, on).block
  BY DEF ApplySyncPolicy, Syncs, SyncAlike, AtHome
<1> QED
  BY <1>1, <1>2, SameSync DEF SyncAlike, AtHome

-----------------------------------------------------------------------------
(* Plans as functions of document, tree and bundles. *)

\* The bindings whose values a render writes.
Writes(doc, t) == IF Strategy[t] \in {"presence-gated", "sync-policy"} THEN {}
                  ELSE Patched(doc, t)

\* What the strategies have in common.
Rendered(t, doc, file, bu) ==
    [mark |-> TRUE,
     values |-> [b \in Bindings |-> IF b \in Writes(doc, t) THEN doc[b]
                                    ELSE IF t \in Owned THEN None
                                    ELSE file.values[b]],
     sync |-> IF t \in Owned THEN None
              ELSE IF Strategy[t] = "sync-policy"
                   THEN ApplySyncPolicy(file.sync, On(doc, t))
                   ELSE file.sync,
     rest |-> IF t \in Owned THEN bu[t] ELSE file.rest]

\* A file of target t that a plan can be made from.
Loaded(t, file) ==
    \/ t \in Owned
    \/ /\ file \in Content
       /\ Strategy[t] = "sync-policy" => file.sync \in Syncs /\ file.sync.newline = "kept"

ArtifactsOver(doc, tr) ==
    {t \in Bound(doc) \ Skipped(doc) :
        Strategy[t] = "sync-policy" => tr[t] # None}

RendersOver(doc, tr) ==
    /\ doc \in Docs \ Invalid
    /\ \A t \in ArtifactsOver(doc, tr) : Loaded(t, tr[t])
    /\ \A t \in Bound(doc) : Strategy[t] = "sync-policy" =>
          \E a \in ArtifactsOver(doc, tr) : BoundIn[a] = BoundIn[t]

TextsOver(doc, tr, bu) ==
    [t \in Targets |-> IF t \in ArtifactsOver(doc, tr)
                       THEN Rendered(t, doc, tr[t], bu) ELSE None]

RecordedOver(doc, tr, bu) ==
    [t \in Owned |-> IF t \in ArtifactsOver(doc, tr) THEN bu[t] ELSE None]

PlanOver(doc, tr, bu) ==
    [doc |-> doc, texts |-> TextsOver(doc, tr, bu), skipped |-> Skipped(doc),
     recorded |-> RecordedOver(doc, tr, bu)]

\* The tree of a loaded file system.
Files(tr, bu) == tr \in [Targets -> Contents] /\ bu \in [Owned -> Rests]

\* The strategy of a target is one of those of the renderer.
LEMMA StrategyOfTarget ==
    ASSUME NEW t \in Targets
    PROVE  Strategy[t] \in {"json-path-patch", "yaml-line-patch", "sync-policy",
                            "owned-artifact", "presence-gated"}
  BY StrategyAssumption DEF Targets

LEMMA OwnedAreTargets == Owned \subseteq Targets
  BY DEF Owned, OfStrategy

\* Whatever a document binds is a target.
LEMMA ArtifactsAreTargets ==
    ASSUME NEW doc, NEW tr
    PROVE  ArtifactsOver(doc, tr) \subseteq Targets /\ Skipped(doc) \subseteq Targets
  BY DEF ArtifactsOver, Skipped, Bound

LEMMA PatchedAreBindings ==
    ASSUME NEW doc \in Docs, NEW t \in Targets
    PROVE  /\ Patched(doc, t) \subseteq Bindings
           /\ Writes(doc, t) \subseteq Bindings
           /\ \A b \in Bindings : doc[b] \in Values \cup {None}
<1>1. BoundIn[t] \subseteq Bindings
  BY StrategyAssumption
<1>2. doc \in [Bindings -> Values \cup {None}]
  BY DocumentsAssumption
<1> QED
  BY <1>1, <1>2 DEF Patched, Writes

LEMMA OnIsBoolean == ASSUME NEW doc, NEW t PROVE On(doc, t) \in BOOLEAN
  BY DEF On

\* Renders and PlanRender of the specification are these functions of the
\* current tree (plan_render, strategies of render.py).
LEMMA ArtifactsIsOver == ASSUME NEW doc PROVE Artifacts(doc) = ArtifactsOver(doc, tree)
  BY DEF Artifacts, ArtifactsOver

LEMMA LoadableIsLoaded == ASSUME NEW t PROVE Loadable(t) <=> Loaded(t, tree[t])
  BY DEF Loadable, Loaded

LEMMA RendersIsOver ==
    ASSUME NEW doc
    PROVE  Renders(doc) <=> RendersOver(doc, tree)
  BY ArtifactsIsOver, LoadableIsLoaded DEF Renders, RendersOver

LEMMA TextIsRendered ==
    ASSUME NEW doc \in Docs, NEW t \in Targets, Loaded(t, tree[t])
    PROVE  Text(doc, t) = Rendered(t, doc, tree[t], bundles)
<1>1. CASE Strategy[t] = "owned-artifact"
  <2>1. t \in Owned /\ Writes(doc, t) = Patched(doc, t)
    BY <1>1 DEF Owned, OfStrategy, Writes
  <2> QED
    BY <1>1, <2>1 DEF Text, OwnedArtifact, Rendered
<1>2. CASE Strategy[t] # "owned-artifact"
  <2>1. t \notin Owned
    BY <1>2 DEF Owned, OfStrategy
  <2>2. PICK f : f = tree[t]
    OBVIOUS
  <2>3. f \in Content
    BY <2>1, <2>2 DEF Loaded
  <2>4. CASE Strategy[t] \in {"json-path-patch", "yaml-line-patch"}
    <3>1. Text(doc, t) = [[f EXCEPT !.mark = TRUE] EXCEPT !.values =
              [b \in Bindings |-> IF b \in Patched(doc, t) THEN doc[b] ELSE f.values[b]]]
      BY <2>2, <2>4 DEF Text, JsonPathPatch, YamlLinePatch, Adopted
    <3>2. Writes(doc, t) = Patched(doc, t) /\ Strategy[t] # "sync-policy"
      BY <2>4 DEF Writes
    <3>3. Text(doc, t) = [mark |-> TRUE,
              values |-> [b \in Bindings |-> IF b \in Patched(doc, t) THEN doc[b]
                                             ELSE f.values[b]],
              sync |-> f.sync, rest |-> f.rest]
      BY <2>3, <3>1 DEF Content
    <3> QED
      BY <2>1, <2>2, <3>2, <3>3 DEF Rendered
  <2>5. CASE Strategy[t] = "sync-policy"
    <3>1. Text(doc, t) = [[f EXCEPT !.mark = TRUE] EXCEPT !.sync =
                              ApplySyncPolicy(f.sync, On(doc, t))]
      BY <2>2, <2>3, <2>5 DEF Text, Adopted, Content
    <3>2. Writes(doc, t) = {}
      BY <2>5 DEF Writes
    <3>3. f.values = [b \in Bindings |-> f.values[b]]
      BY <2>3 DEF Content
    <3> QED
      BY <2>1, <2>2, <2>3, <2>5, <3>1, <3>2, <3>3 DEF Rendered, Content
  <2>6. CASE Strategy[t] = "presence-gated"
    <3>1. Text(doc, t) = [f EXCEPT !.mark = TRUE]
      BY <2>2, <2>6 DEF Text, Adopted
    <3>2. Writes(doc, t) = {}
      BY <2>6 DEF Writes
    <3>3. f.values = [b \in Bindings |-> f.values[b]]
      BY <2>3 DEF Content
    <3> QED
      BY <2>1, <2>2, <2>3, <2>6, <3>1, <3>2, <3>3 DEF Rendered, Content
  <2> QED
    BY <1>2, <2>4, <2>5, <2>6, StrategyOfTarget
<1> QED
  BY <1>1, <1>2

LEMMA PlanIsOver ==
    ASSUME NEW doc, Renders(doc)
    PROVE  PlanRender(doc) = PlanOver(doc, tree, bundles)
<1>1. doc \in Docs
  BY DEF Renders
<1>2. ASSUME NEW t \in Artifacts(doc)
      PROVE  Text(doc, t) = Rendered(t, doc, tree[t], bundles)
  <2>1. t \in Targets /\ Loaded(t, tree[t])
    BY ArtifactsIsOver, ArtifactsAreTargets, LoadableIsLoaded DEF Renders
  <2> QED
    BY <1>1, <2>1, TextIsRendered
<1>3. [t \in Targets |-> IF t \in Artifacts(doc) THEN Text(doc, t) ELSE None]
          = TextsOver(doc, tree, bundles)
  BY <1>2, ArtifactsIsOver DEF TextsOver
<1>4. RecordDirectory(doc) = RecordedOver(doc, tree, bundles)
  BY ArtifactsIsOver DEF RecordDirectory, RecordedOver
<1> QED
  BY <1>3, <1>4 DEF PlanRender, PlanOver

\* A planned text is the content of a file.
LEMMA RenderedType ==
    ASSUME NEW doc \in Docs, NEW bu \in [Owned -> Rests], NEW t \in Targets,
           NEW file, Loaded(t, file)
    PROVE  Rendered(t, doc, file, bu) \in Content
<1>1. CASE t \in Owned
  <2>1. [b \in Bindings |-> IF b \in Writes(doc, t) THEN doc[b]
                            ELSE IF t \in Owned THEN None ELSE file.values[b]]
            \in [Bindings -> Values \cup {None}]
    BY <1>1, PatchedAreBindings
  <2>2. bu[t] \in Rests
    BY <1>1
  <2> QED
    BY <1>1, <2>1, <2>2 DEF Rendered, Content
<1>2. CASE t \notin Owned
  <2>1. file \in Content
    BY <1>2 DEF Loaded
  <2>2. /\ file.values \in [Bindings -> Values \cup {None}]
        /\ file.sync \in Syncs \cup {None} /\ file.rest \in Rests
    BY <2>1 DEF Content
  <2>3. [b \in Bindings |-> IF b \in Writes(doc, t) THEN doc[b]
                            ELSE IF t \in Owned THEN None ELSE file.values[b]]
            \in [Bindings -> Values \cup {None}]
    BY <1>2, <2>2, PatchedAreBindings
  <2>4. Strategy[t] = "sync-policy" =>
            ApplySyncPolicy(file.sync, On(doc, t)) \in Syncs
    BY <1>2, SyncType, OnIsBoolean DEF Loaded
  <2> QED
    BY <1>2, <2>2, <2>3, <2>4 DEF Rendered, Content
<1> QED
  BY <1>1, <1>2

\* Plans that render an Application as one.
Sound == {plan \in Plans : \A t \in Planned(plan) :
             Strategy[t] = "sync-policy" => plan.texts[t].sync \in Syncs}

LEMMA PlanOverType ==
    ASSUME NEW doc, NEW tr, NEW bu, Files(tr, bu), RendersOver(doc, tr)
    PROVE  /\ PlanOver(doc, tr, bu) \in Sound
           /\ Planned(PlanOver(doc, tr, bu)) = ArtifactsOver(doc, tr)
<1>1. doc \in Docs
  BY DEF RendersOver
<1>2. ASSUME NEW t \in ArtifactsOver(doc, tr)
      PROVE  t \in Targets /\ Rendered(t, doc, tr[t], bu) \in Content
  BY <1>1, ArtifactsAreTargets, RenderedType DEF RendersOver, Files
<1>3. TextsOver(doc, tr, bu) \in [Targets -> Content \cup {None}]
  BY <1>2 DEF TextsOver
<1>4. RecordedOver(doc, tr, bu) \in [Owned -> Rests \cup {None}]
  BY DEF RecordedOver, Files
<1>5. Skipped(doc) \in SUBSET Targets
  BY ArtifactsAreTargets
<1>6. PlanOver(doc, tr, bu) \in Plans
  BY <1>1, <1>3, <1>4, <1>5 DEF PlanOver, Plans
<1>7. ASSUME NEW t \in Targets
      PROVE  PlanOver(doc, tr, bu).texts[t] # None <=> t \in ArtifactsOver(doc, tr)
  BY <1>2, NoneAssumption DEF PlanOver, TextsOver
<1>8. Planned(PlanOver(doc, tr, bu)) = ArtifactsOver(doc, tr)
  BY <1>7, ArtifactsAreTargets DEF Planned
<1>9. ASSUME NEW t \in ArtifactsOver(doc, tr), Strategy[t] = "sync-policy"
      PROVE  PlanOver(doc, tr, bu).texts[t].sync \in Syncs
  <2>1. Rendered(t, doc, tr[t], bu).sync = ApplySyncPolicy(tr[t].sync, On(doc, t))
    BY <1>9 DEF Rendered, Owned, OfStrategy
  <2>2. tr[t].sync \in Syncs
    BY <1>9 DEF RendersOver, Loaded, Owned, OfStrategy
  <2>3. ApplySyncPolicy(tr[t].sync, On(doc, t)) \in Syncs
    BY <2>2, SyncType, OnIsBoolean
  <2> QED
    BY <1>2, <2>1, <2>3 DEF PlanOver, TextsOver
<1> QED
  BY <1>6, <1>8, <1>9 DEF Sound

\* A rendered file, unless a fragile Application, renders to itself.
LEMMA RenderedAgain ==
    ASSUME NEW doc \in Docs, NEW bu \in [Owned -> Rests], NEW t \in Targets,
           NEW file, Loaded(t, file), NEW text,
           text = Rendered(t, doc, file, bu),
           Strategy[t] = "sync-policy" => ~Fragile(text.sync)
    PROVE  Loaded(t, text) /\ Rendered(t, doc, text, bu) = text
<1>1. text \in Content
  BY RenderedType
<1>2. Strategy[t] = "sync-policy" =>
          /\ t \notin Owned /\ file.sync \in Syncs
          /\ text.sync = ApplySyncPolicy(file.sync, On(doc, t))
  BY DEF Rendered, Owned, OfStrategy, Loaded
<1>3. Strategy[t] = "sync-policy" =>
          /\ text.sync \in Syncs /\ text.sync.newline = "kept"
          /\ ApplySyncPolicy(text.sync, On(doc, t)) = text.sync
  <2> SUFFICES ASSUME Strategy[t] = "sync-policy"
               PROVE  /\ text.sync \in Syncs /\ text.sync.newline = "kept"
                      /\ ApplySyncPolicy(text.sync, On(doc, t)) = text.sync
    OBVIOUS
  <2>1. PICK on \in BOOLEAN : on = On(doc, t)
    BY OnIsBoolean
  <2>2. text.sync \in Syncs /\ ~Fragile(text.sync)
    BY <1>2, <2>1, SyncType
  <2>3. text.sync.newline = "kept"
    BY <2>2 DEF Fragile, Syncs
  <2>4. ApplySyncPolicy(text.sync, on) = text.sync
    BY <1>2, <2>1, <2>2, SyncAgain
  <2> QED
    BY <2>1, <2>2, <2>3, <2>4
<1>4. Loaded(t, text)
  BY <1>1, <1>3 DEF Loaded
<1>5. \A b \in Bindings :
          text.values[b] = IF b \in Writes(doc, t) THEN doc[b]
                           ELSE IF t \in Owned THEN None ELSE file.values[b]
  BY DEF Rendered
<1>6. [b \in Bindings |-> IF b \in Writes(doc, t) THEN doc[b]
                          ELSE IF t \in Owned THEN None ELSE text.values[b]]
          = text.values
  BY <1>5 DEF Rendered
<1>7. /\ text.mark = TRUE
      /\ text.rest = IF t \in Owned THEN bu[t] ELSE file.rest
      /\ Strategy[t] # "sync-policy" =>
            text.sync = IF t \in Owned THEN None ELSE file.sync
  BY DEF Rendered
<1>8. /\ (IF t \in Owned THEN bu[t] ELSE text.rest) = text.rest
      /\ (IF t \in Owned THEN None
          ELSE IF Strategy[t] = "sync-policy"
               THEN ApplySyncPolicy(text.sync, On(doc, t))
               ELSE text.sync) = text.sync
  BY <1>2, <1>3, <1>7
<1>9. Rendered(t, doc, text, bu)
          = [mark |-> TRUE, values |-> text.values, sync |-> text.sync,
             rest |-> text.rest]
  BY <1>6, <1>8 DEF Rendered
<1>10. text = [mark |-> TRUE, values |-> text.values, sync |-> text.sync,
               rest |-> text.rest]
  BY DEF Rendered
<1> QED
  BY <1>4, <1>9, <1>10

\* A file that renders to itself is no fragile Application.
LEMMA StableIsNotFragile ==
    ASSUME NEW doc, NEW bu, NEW t \in Targets, NEW file, Loaded(t, file),
           file = Rendered(t, doc, file, bu), Strategy[t] = "sync-policy"
    PROVE  ~Fragile(file.sync)
<1>1. t \notin Owned
  BY DEF Owned, OfStrategy
<1>2. file.sync = ApplySyncPolicy(file.sync, On(doc, t))
  BY <1>1 DEF Rendered
<1>3. file.sync \in Syncs /\ file.sync.newline = "kept"
  BY <1>1 DEF Loaded
<1> QED
  BY <1>2, <1>3, FixedIsNotFragile, OnIsBoolean

\* Two contents of target t that differ in nothing but what renders write; a
\* block at home stays there.
Alike(t, file, other) ==
    /\ file.rest = other.rest
    /\ \A b \in Bindings \ Scalars(t) : file.values[b] = other.values[b]
    /\ Strategy[t] # "sync-policy" => file.sync = other.sync
    /\ Strategy[t] = "sync-policy" /\ AtHome(file.sync) =>
          SyncAlike(file.sync, other.sync)

LEMMA AlikeItself == ASSUME NEW t, NEW file PROVE Alike(t, file, file)
  BY DEF Alike, SyncAlike

\* What is alike stays so when it is rendered.
LEMMA AlikeRendered ==
    ASSUME NEW doc, NEW bu, NEW t \in Targets \ Owned, NEW file, NEW other,
           Alike(t, file, other)
    PROVE  Alike(t, file, Rendered(t, doc, other, bu))
<1> DEFINE text == Rendered(t, doc, other, bu)
<1>1. text.rest = other.rest
  BY DEF Rendered
<1>2. Strategy[t] # "owned-artifact"
  BY DEF Owned, OfStrategy
<1>3. Writes(doc, t) \subseteq Scalars(t)
  BY <1>2, StrategyOfTarget DEF Writes, Scalars, Patched
<1>4. \A b \in Bindings \ Scalars(t) : text.values[b] = other.values[b]
  BY <1>3 DEF Rendered
<1>5. Strategy[t] # "sync-policy" => text.sync = other.sync
  BY DEF Rendered
<1>6. Strategy[t] = "sync-policy" =>
          text.sync = ApplySyncPolicy(other.sync, On(doc, t))
  BY DEF Rendered
<1>7. Strategy[t] = "sync-policy" /\ AtHome(file.sync) =>
          SyncAlike(file.sync, text.sync)
  BY <1>6, SyncStaysHome, OnIsBoolean DEF Alike
<1> QED
  BY <1>1, <1>4, <1>5, <1>7 DEF Alike

\* What is alike renders to the same text where the document writes all that
\* renders write.
LEMMA RenderedOfAlike ==
    ASSUME NEW doc, NEW bu, NEW t \in Targets, NEW file, NEW other,
           t \notin Owned =>
               /\ Alike(t, file, other) /\ Scalars(t) \subseteq Patched(doc, t)
               /\ Strategy[t] = "sync-policy" => AtHome(file.sync)
    PROVE  Rendered(t, doc, file, bu) = Rendered(t, doc, other, bu)
<1>1. CASE t \in Owned
  BY <1>1 DEF Rendered
<1>2. CASE t \notin Owned
  <2>1. ASSUME NEW b \in Bindings, b \notin Writes(doc, t)
        PROVE  file.values[b] = other.values[b]
    <3>1. b \notin Scalars(t)
      BY <1>2, <2>1 DEF Writes, Scalars
    <3> QED
      BY <1>2, <3>1 DEF Alike
  <2>2. Strategy[t] = "sync-policy" =>
            ApplySyncPolicy(file.sync, On(doc, t))
                = ApplySyncPolicy(other.sync, On(doc, t))
    BY <1>2, SyncComesBack, OnIsBoolean DEF Alike
  <2>3. Strategy[t] # "sync-policy" => file.sync = other.sync
    BY <1>2 DEF Alike
  <2>4. file.rest = other.rest
    BY <1>2 DEF Alike
  <2> QED
    BY <1>2, <2>1, <2>2, <2>3, <2>4 DEF Rendered
<1> QED
  BY <1>1, <1>2

\* A check that lists nothing found the manifest and every artifact in place.
LEMMA NothingChanged ==
    ASSUME Files(tree, bundles), NEW plan
    PROVE  ChangedPaths(plan) = {} <=>
               /\ manifest = plan
               /\ \A t \in Planned(plan) : tree[t] = plan.texts[t]
  BY DEF ChangedPaths

-----------------------------------------------------------------------------
(* Types. *)

HasPlan == op.pc \in {"write", "verify", "done"}

\* A writer that goes to persist has a document, one that writes has a plan.
TypeInv ==
    /\ TypeOK
    /\ op.pc = "validated" => op.doc \in Docs
    /\ HasPlan => op.plan \in Sound

LEMMA TypeFiles == ASSUME TypeOK PROVE Files(tree, bundles)
  BY DEF TypeOK, Files

LEMMA PlanTexts ==
    ASSUME NEW plan \in Plans
    PROVE  /\ Planned(plan) \subseteq Targets
           /\ \A t \in Planned(plan) : plan.texts[t] \in Content
  BY DEF Plans, Planned

LEMMA NoOperationType == NoOperation \in Operations /\ NoOperation.pc = "idle"
<1>1. 1 \in 1 .. Len(Strategy) + 1 /\ 0 \in 0 .. MaxCommits
  BY StrategyAssumption, BoundsAssumption
<1> QED
  BY <1>1 DEF NoOperation, Operation, Operations

\* A run that begins has a plan to write, or fails.
LEMMA ExecuteType ==
    ASSUME TypeInv, NEW kind \in {"render", "rollback", "portal"},
           NEW expected \in 0 .. MaxCommits, NEW proved,
           Execute(kind, expected, proved)
    PROVE  TypeInv'
<1> USE DEF TypeInv
<1>1. 1 \in 1 .. Len(Strategy) + 1
  BY StrategyAssumption
<1>2. CASE Renders(document) /\ proved
  <2>1. PlanRender(document) \in Sound
    BY <1>2, TypeFiles, PlanIsOver, RendersIsOver, PlanOverType
  <2>2. op' = Operation(kind, "write", None, PlanRender(document), 1, expected)
    BY <1>2 DEF Execute
  <2>3. op' \in Operations /\ op'.pc = "write" /\ op'.plan \in Sound
    BY <1>1, <2>1, <2>2 DEF Operation, Operations, Sound
  <2> QED
    BY <2>3 DEF Execute, TypeOK, HasPlan
<1>3. CASE ~(Renders(document) /\ proved)
  <2>1. op' = Operation(kind, "failed", None, None, 1, expected)
    BY <1>3 DEF Execute
  <2>2. op' \in Operations /\ op'.pc = "failed"
    BY <1>1, <2>1 DEF Operation, Operations
  <2> QED
    BY <2>2 DEF Execute, TypeOK, HasPlan
<1> QED
  BY <1>2, <1>3

LEMMA CommitRenderType == ASSUME TypeInv, CommitRender PROVE TypeInv'
<1> USE DEF TypeInv
<1>1. document \in Docs
  BY DEF CommitRender, Renders
<1>2. manifest \in Plans
  BY TypeFiles, PlanIsOver, RendersIsOver, PlanOverType, NothingChanged
     DEF CommitRender, Sound
<1>3. [doc |-> document, tree |-> tree, bundles |-> bundles,
       manifest |-> manifest] \in Commit
  BY <1>1, <1>2 DEF TypeOK, Commit
<1>4. commits' \in Seq(Commit) /\ Len(commits') <= MaxCommits
  BY <1>3, BoundsAssumption DEF CommitRender, TypeOK
<1>5. op' \in Operations /\ op'.pc = "idle"
  BY NoOperationType DEF CommitRender
<1> QED
  BY <1>4, <1>5 DEF CommitRender, TypeOK, HasPlan

LEMMA OperatorType ==
    ASSUME TypeInv, EditDocument \/ CommitRender \/ Checkout
    PROVE  TypeInv'
<1> USE DEF TypeInv
<1>1. CASE EditDocument
  <2>1. op' \in Operations /\ op'.pc = "idle"
    BY <1>1, NoOperationType DEF EditDocument
  <2> QED
    BY <1>1, <2>1 DEF EditDocument, TypeOK, HasPlan
<1>2. CASE CommitRender
  BY <1>2, CommitRenderType
<1>3. CASE Checkout
  <2>1. op' \in Operations /\ op'.pc = "idle"
    BY <1>3, NoOperationType DEF Checkout
  <2>2. commits[Len(commits)] \in Commit
    BY <1>3 DEF Checkout, TypeOK
  <2>3. /\ document' \in Docs /\ tree' \in [Targets -> Contents]
        /\ bundles' \in [Owned -> Rests] /\ manifest' \in Plans
    BY <1>3, <2>2 DEF Checkout, Commit
  <2> QED
    BY <1>3, <2>1, <2>3 DEF Checkout, TypeOK, HasPlan
<1> QED
  BY <1>1, <1>2, <1>3

LEMMA StartType ==
    ASSUME TypeInv,
           RenderRun \/ RollbackRender \/ (\E doc \in Docs : Submit(doc)) \/ Replan
    PROVE  TypeInv'
<1> USE DEF TypeInv
<1>1. 0 \in 0 .. MaxCommits
  BY BoundsAssumption
<1>2. CASE RenderRun
  BY <1>1, <1>2, ExecuteType DEF RenderRun
<1>3. CASE RollbackRender
  <2>1. CASE Execute("rollback", 0, TRUE)
    BY <1>1, <2>1, ExecuteType
  <2>2. CASE \E c \in DOMAIN commits :
                Execute("rollback", c, Renders(document) /\ DeterministicProof(c))
    <3>1. PICK c \in DOMAIN commits :
              Execute("rollback", c, Renders(document) /\ DeterministicProof(c))
      BY <2>2
    <3>2. c \in 0 .. MaxCommits
      BY <3>1, BoundsAssumption DEF TypeOK
    <3> QED
      BY <3>1, <3>2, ExecuteType
  <2> QED
    BY <1>3, <2>1, <2>2 DEF RollbackRender
<1>4. CASE \E doc \in Docs : Submit(doc)
  <2>1. PICK doc \in Docs : Submit(doc)
    BY <1>4
  <2>2. 1 \in 1 .. Len(Strategy) + 1
    BY StrategyAssumption
  <2>3. \/ op' = Operation("portal", "validated", doc, None, 1, 0)
        \/ op' = Operation("portal", "failed", None, None, 1, 0)
    BY <2>1 DEF Submit
  <2>4. /\ op' \in Operations /\ op'.pc \in {"validated", "failed"}
        /\ op'.pc = "validated" => op'.doc \in Docs
    BY <1>1, <2>2, <2>3 DEF Operation, Operations
  <2> QED
    BY <2>1, <2>4 DEF Submit, TypeOK, HasPlan
<1>5. CASE Replan
  BY <1>1, <1>5, ExecuteType DEF Replan
<1> QED
  BY <1>2, <1>3, <1>4, <1>5

LEMMA WriteArtifactType == ASSUME TypeInv, WriteArtifact PROVE TypeInv'
<1> USE DEF TypeInv
<1>1. op.at + 1 \in 1 .. Len(Strategy) + 1
  BY StrategyAssumption DEF WriteArtifact, Targets
<1>2. op' \in Operations /\ op'.pc = "write" /\ op'.plan = op.plan
  BY <1>1 DEF WriteArtifact, TypeOK, Operations
<1>3. op.plan \in Plans /\ op.plan \in Sound
  BY DEF WriteArtifact, HasPlan, Sound
<1>4. tree' \in [Targets -> Contents]
  BY <1>3, PlanTexts DEF WriteArtifact, TypeOK, Contents
<1> QED
  BY <1>2, <1>3, <1>4 DEF WriteArtifact, TypeOK, HasPlan

LEMMA WriterStepType ==
    ASSUME TypeInv, Persist \/ WriteArtifact \/ WriteManifest \/ VerifyRollback
    PROVE  TypeInv'
<1> USE DEF TypeInv
<1>1. CASE Persist
  <2>1. op' \in Operations /\ op'.pc = "replan"
    BY <1>1 DEF Persist, TypeOK, Operations
  <2> QED
    BY <1>1, <2>1 DEF Persist, TypeOK, HasPlan
<1>2. CASE WriteArtifact
  BY <1>2, WriteArtifactType
<1>3. CASE WriteManifest
  <2>1. op.plan \in Sound
    BY <1>3 DEF WriteManifest, HasPlan
  <2>2. /\ op' \in Operations /\ op'.pc \in {"verify", "done"}
        /\ op'.plan = op.plan
    BY <1>3 DEF WriteManifest, TypeOK, Operations
  <2> QED
    BY <1>3, <2>1, <2>2 DEF WriteManifest, TypeOK, Sound
<1>4. CASE VerifyRollback
  <2>1. /\ op' \in Operations /\ op'.pc \in {"failed", "done"}
        /\ op'.plan = op.plan
    BY <1>4 DEF VerifyRollback, TypeOK, Operations
  <2>2. op.plan \in Sound
    BY <1>4 DEF VerifyRollback, HasPlan
  <2> QED
    BY <1>4, <2>1, <2>2 DEF VerifyRollback, TypeOK
<1> QED
  BY <1>1, <1>2, <1>3, <1>4

\* What is left of an Application has a layout.
LEMMA HalfSyncType ==
    ASSUME NEW s \in Syncs
    PROVE  HalfSync(s) \subseteq Syncs
<1>1. [s EXCEPT !.newline = "kept"] \in Syncs
  BY DEF Syncs
<1>2. ASSUME NEW b \in {"none", "fixed", "other"}, NEW p \in Places
      PROVE  [block |-> b, place |-> p, gaps |-> {}, suffix |-> {},
              newline |-> "kept"] \in Syncs
  BY <1>2 DEF Syncs
<1>3. s.block \in {"none", "fixed", "other"} /\ s.place \in Places
  BY DEF Syncs
<1> QED
  BY <1>1, <1>2, <1>3 DEF HalfSync, Places

\* Files with one field changed.
LEMMA FieldType ==
    ASSUME NEW f \in Content
    PROVE  /\ \A s \in Syncs \cup {None} : [f EXCEPT !.sync = s] \in Content
           /\ \A r \in Rests : [f EXCEPT !.rest = r] \in Content
           /\ \A r \in Rests, s \in Syncs \cup {None} :
                 [f EXCEPT !.rest = r, !.sync = s] \in Content
           /\ \A b \in Bindings, v \in Values : [f EXCEPT !.values[b] = v] \in Content
<1>1. ASSUME NEW s \in Syncs \cup {None} PROVE [f EXCEPT !.sync = s] \in Content
  BY DEF Content
<1>2. ASSUME NEW r \in Rests PROVE [f EXCEPT !.rest = r] \in Content
  BY DEF Content
<1>4. ASSUME NEW r \in Rests, NEW s \in Syncs \cup {None}
      PROVE  [f EXCEPT !.rest = r, !.sync = s] \in Content
  BY DEF Content
<1>3. ASSUME NEW b \in Bindings, NEW v \in Values
      PROVE  [f EXCEPT !.values[b] = v] \in Content
  <2>1. [f.values EXCEPT ![b] = v] \in [Bindings -> Values \cup {None}]
    BY DEF Content
  <2>2. [f EXCEPT !.values = [f.values EXCEPT ![b] = v]] \in Content
    BY <2>1 DEF Content
  <2>3. [f EXCEPT !.values[b] = v] = [f EXCEPT !.values = [f.values EXCEPT ![b] = v]]
    OBVIOUS
  <2> QED
    BY <2>2, <2>3
<1> QED
  BY <1>1, <1>2, <1>3, <1>4

\* The hand can make files of files.
LEMMA HandEditsType ==
    ASSUME NEW t \in Targets, tree[t] \in Content
    PROVE  HandEdits(t) \subseteq Contents
<1>1. Scalars(t) \subseteq Bindings
  BY StrategyAssumption DEF Scalars
<1>2. Layouts \subseteq Syncs
  BY DocumentsAssumption
<1>3. PICK f \in Content : f = tree[t]
  OBVIOUS
<1>4. /\ \A b \in Scalars(t), v \in Values : [f EXCEPT !.values[b] = v] \in Contents
      /\ \A r \in Rests : [f EXCEPT !.rest = r] \in Contents
      /\ \A s \in Layouts : [f EXCEPT !.sync = s] \in Contents
      /\ None \in Contents
  BY <1>1, <1>2, FieldType DEF Contents
<1> QED
  BY <1>3, <1>4 DEF HandEdits

LEMMA FaultType ==
    ASSUME TypeInv, Crash \/ CrashInWrite \/ EditTree
    PROVE  TypeInv'
<1> USE DEF TypeInv
<1>0. faults' \in 0 .. MaxFaults
  BY BoundsAssumption DEF Crash, CrashInWrite, EditTree, Fault, TypeOK
<1>1. CASE Crash
  <2>1. op' \in Operations /\ op'.pc = "idle"
    BY <1>1, NoOperationType DEF Crash
  <2> QED
    BY <1>0, <1>1, <2>1 DEF Crash, TypeOK, HasPlan
<1>2. CASE CrashInWrite
  <2>1. op' \in Operations /\ op'.pc = "idle"
    BY <1>2, NoOperationType DEF CrashInWrite
  <2>2. tree' \in [Targets -> Contents]
    <3>1. CASE op.pc = "write" /\ op.at \in Planned(op.plan)
      <4>1. op.plan.texts[op.at] \in Content
        BY <3>1, PlanTexts DEF HasPlan, Sound
      <4>2. ASSUME NEW f \in Content
            PROVE  /\ [f EXCEPT !.rest = Cut] \in Content
                   /\ \A s \in Syncs \cup {None} :
                         [f EXCEPT !.rest = Cut, !.sync = s] \in Content
        <5>1. Cut \in Rests
          BY DocumentsAssumption
        <5> QED
          BY <5>1, FieldType
      <4>3. Halves(op.at) \subseteq Contents
        <5>1. CASE Strategy[op.at] = "sync-policy"
          <6>1. PICK text \in Content : text = op.plan.texts[op.at]
            BY <4>1
          <6>2. PICK S : S = HalfSync(text.sync)
            OBVIOUS
          <6>3. S \subseteq Syncs
            BY <3>1, <5>1, <6>1, <6>2, HalfSyncType DEF HasPlan, Sound
          <6>4. \A s \in S : [text EXCEPT !.rest = Cut, !.sync = s] \in Content
            BY <4>2, <6>3
          <6>5. Halves(op.at) = {Torn} \cup
                    {[text EXCEPT !.rest = Cut, !.sync = s] : s \in S}
            BY <5>1, <6>1, <6>2 DEF Halves
          <6> QED
            BY <6>4, <6>5 DEF Contents
        <5>2. CASE Strategy[op.at] # "sync-policy"
          BY <4>1, <4>2, <5>2 DEF Halves, Contents
        <5> QED
          BY <5>1, <5>2
      <4> QED
        BY <1>2, <4>3 DEF CrashInWrite, TypeOK
    <3>2. CASE ~(op.pc = "write" /\ op.at \in Planned(op.plan))
      BY <1>2, <3>2 DEF CrashInWrite, TypeOK
    <3> QED
      BY <3>1, <3>2
  <2>3. document' \in Docs \cup {Torn} /\ manifest' \in Plans \cup {None, Torn}
    BY <1>2 DEF CrashInWrite, TypeOK
  <2> QED
    BY <1>0, <1>2, <2>1, <2>2, <2>3 DEF CrashInWrite, TypeOK, HasPlan
<1>3. CASE EditTree
  <2>1. tree' \in [Targets -> Contents]
    <3>1. CASE UNCHANGED tree
      BY <3>1 DEF TypeOK
    <3>2. CASE \E t \in Targets :
                 /\ tree[t] \in Content
                 /\ \E file \in HandEdits(t) : tree' = [tree EXCEPT ![t] = file]
      <4>1. PICK t \in Targets :
                 /\ tree[t] \in Content
                 /\ \E file \in HandEdits(t) : tree' = [tree EXCEPT ![t] = file]
        BY <3>2
      <4>2. PICK file \in Contents : tree' = [tree EXCEPT ![t] = file]
        BY <4>1, HandEditsType
      <4> QED
        BY <4>2 DEF TypeOK
    <3> QED
      BY <1>3, <3>1, <3>2 DEF EditTree
  <2>2. bundles' \in [Owned -> Rests] /\ manifest' \in Plans \cup {None, Torn}
    BY <1>3 DEF EditTree, TypeOK
  <2> QED
    BY <1>0, <1>3, <2>1, <2>2 DEF EditTree, TypeOK, HasPlan
<1> QED
  BY <1>1, <1>2, <1>3

LEMMA FreshType ==
    ASSUME NEW t, NEW v \in Values, NEW s \in Layouts, NEW r \in Rests
    PROVE  Fresh(t, v, s, r) \in Content
<1>1. [b \in Bindings |-> IF b \in Scalars(t) THEN v ELSE None]
          \in [Bindings -> Values \cup {None}]
  OBVIOUS
<1>2. s \in Syncs
  BY DocumentsAssumption
<1> QED
  BY <1>1, <1>2 DEF Fresh, Content

LEMMA InitType == Init => TypeInv
<1> SUFFICES ASSUME Init PROVE TypeInv
  OBVIOUS
<1>1. op \in Operations /\ op.pc = "idle"
  BY NoOperationType DEF Init
<1>2. tree \in [Targets -> Contents] /\ bundles \in [Owned -> Rests]
  <2>1. PICK v \in Values, s \in Layouts, r \in Rests \ {Cut} :
          /\ tree = [t \in Targets |-> IF t \in Owned THEN None
                                       ELSE Fresh(t, v, s, r)]
          /\ bundles = [t \in Owned |-> r]
    BY DEF Init
  <2>2. \A t \in Targets : Fresh(t, v, s, r) \in Content
    BY <2>1, FreshType
  <2> QED
    BY <2>1, <2>2 DEF Contents
<1> QED
  <2>1. commits \in Seq(Commit) /\ Len(commits) <= MaxCommits
        /\ faults \in 0 .. MaxFaults
    BY BoundsAssumption DEF Init
  <2> QED
    BY <1>1, <1>2, <2>1 DEF Init, TypeInv, TypeOK, HasPlan

LEMMA NextType == TypeInv /\ [Next]_vars => TypeInv'
<1> SUFFICES ASSUME TypeInv, [Next]_vars PROVE TypeInv'
  OBVIOUS
<1>1. CASE Next
  BY <1>1, OperatorType, StartType, WriterStepType, FaultType DEF Next
<1>2. CASE UNCHANGED vars
  BY <1>2 DEF vars, TypeInv, TypeOK, HasPlan
<1> QED
  BY <1>1, <1>2

\* The writers, the operator and the faults keep the working tree, the
\* manifest and the history well formed (configrender, configflow.py).
THEOREM PropagationTypeCorrect == Spec => []TypeOK
<1>1. Spec => []TypeInv
  BY InitType, NextType, PTL DEF Spec
<1> QED
  BY <1>1, PTL DEF TypeInv


-----------------------------------------------------------------------------
(* What a commit holds. *)

\* A commit is the result of a render of its own document over its own tree.
IsRender(k) ==
    /\ RendersOver(k.doc, k.tree)
    /\ k.manifest = PlanOver(k.doc, k.tree, k.bundles)
    /\ Planned(k.manifest) = ArtifactsOver(k.doc, k.tree)
    /\ \A t \in Planned(k.manifest) : k.tree[t] = k.manifest.texts[t]

CommitInv == \A c \in DOMAIN commits : IsRender(commits[c])

LEMMA NextCommit ==
    ASSUME TypeInv, CommitInv, [Next]_vars
    PROVE  CommitInv'
<1>1. CASE CommitRender
  <2> DEFINE k == [doc |-> document, tree |-> tree, bundles |-> bundles,
                   manifest |-> manifest]
  <2>1. Files(tree, bundles)
    BY TypeFiles DEF TypeInv
  <2>2. RendersOver(document, tree)
    BY <1>1, RendersIsOver DEF CommitRender
  <2>3. /\ manifest = PlanOver(document, tree, bundles)
        /\ \A t \in Planned(manifest) : tree[t] = manifest.texts[t]
    BY <1>1, <2>1, PlanIsOver, NothingChanged DEF CommitRender
  <2>4. Planned(manifest) = ArtifactsOver(document, tree)
    BY <2>1, <2>2, <2>3, PlanOverType
  <2>5. IsRender(k)
    BY <2>2, <2>3, <2>4 DEF IsRender
  <2>6. commits \in Seq(Commit)
    BY DEF TypeInv, TypeOK
  <2>7. commits' = Append(commits, k)
    BY <1>1 DEF CommitRender
  <2> HIDE DEF k
  <2> QED
    BY <2>5, <2>6, <2>7 DEF CommitInv
<1>2. CASE UNCHANGED commits
  BY <1>2 DEF CommitInv
<1> QED
  BY <1>1, <1>2 DEF Next, vars, EditDocument, Checkout, RenderRun,
     RollbackRender, Execute, Submit, Persist, Replan, WriteArtifact,
     WriteManifest, VerifyRollback, Crash, CrashInWrite, EditTree

-----------------------------------------------------------------------------
(* What a writer at work holds. *)

\* The manifest a proof was given is that of a commit, and the plan passed it.
ProofInv ==
    (HasPlan /\ op.expected > 0) =>
        /\ op.expected \in DOMAIN commits
        /\ op.plan = commits[op.expected].manifest

\* A plan rendered target t from a file that the tree holds until the writer
\* comes to it, and from then on the text.
InPlace(t, plan, at, doc, tr, bu) ==
    \E file \in Contents :
        /\ Loaded(t, file)
        /\ plan.texts[t] = Rendered(t, doc, file, bu)
        /\ tr[t] = IF t < at THEN plan.texts[t] ELSE file

\* A directory that the document binds has an Application.
Listed(doc, tr) ==
    \A t \in Bound(doc) : Strategy[t] = "sync-policy" =>
        \E a \in ArtifactsOver(doc, tr) : BoundIn[a] = BoundIn[t]

\* While nobody edits the tree, the plan at work renders the document over
\* the tree that the writer found.
ProgressInv ==
    (HasPlan /\ ~edited) =>
        /\ document \in Docs \ Invalid
        /\ op.plan.doc = document
        /\ op.plan.skipped = Skipped(document)
        /\ op.plan.recorded = RecordedOver(document, tree, bundles)
        /\ Planned(op.plan) = ArtifactsOver(document, tree)
        /\ Listed(document, tree)
        /\ \A t \in Planned(op.plan) :
              InPlace(t, op.plan, op.at, document, tree, bundles)
        /\ op.pc # "write" => op.at \notin Targets /\ manifest = op.plan

WriterInv == ProofInv /\ ProgressInv

\* The steps after which no writer has a plan.
LEMMA WriterGone == ASSUME ~HasPlan' PROVE WriterInv'
  BY DEF WriterInv, ProofInv, ProgressInv

LEMMA ExecuteWriter ==
    ASSUME TypeInv, NEW kind, NEW expected, NEW proved,
           Execute(kind, expected, proved),
           (expected > 0 /\ proved /\ Renders(document)) =>
               /\ expected \in DOMAIN commits
               /\ PlanRender(document) = commits[expected].manifest
    PROVE  WriterInv'
<1>1. CASE Renders(document) /\ proved
  <2>1. Files(tree, bundles) /\ RendersOver(document, tree)
    BY <1>1, TypeFiles, RendersIsOver DEF TypeInv
  <2>2. PICK plan : plan = PlanOver(document, tree, bundles)
    OBVIOUS
  <2>3. PlanRender(document) = plan
    BY <1>1, <2>2, PlanIsOver
  <2>4. op' = Operation(kind, "write", None, plan, 1, expected)
    BY <1>1, <2>3 DEF Execute
  <2>5. /\ op'.pc = "write" /\ op'.plan = plan
        /\ op'.at = 1 /\ op'.expected = expected
    BY <2>4 DEF Operation
  <2>6. UNCHANGED <<document, tree, bundles, commits>>
    BY DEF Execute
  <2>7. ProofInv'
    BY <1>1, <2>3, <2>5, <2>6 DEF ProofInv
  <2>8. /\ plan.doc = document /\ plan.skipped = Skipped(document)
        /\ plan.recorded = RecordedOver(document, tree, bundles)
        /\ Planned(plan) = ArtifactsOver(document, tree)
    BY <2>1, <2>2, PlanOverType DEF PlanOver
  <2>9. document \in Docs \ Invalid /\ Listed(document, tree)
    BY <2>1 DEF RendersOver, Listed
  <2>10. ASSUME NEW t \in Planned(plan)
         PROVE  InPlace(t, plan, 1, document, tree, bundles)
    <3>1. t \in Targets /\ t \in ArtifactsOver(document, tree)
      BY <2>8, <2>10, ArtifactsAreTargets
    <3>2. Loaded(t, tree[t]) /\ tree[t] \in Contents
      BY <2>1, <3>1 DEF RendersOver, Files
    <3>3. plan.texts[t] = Rendered(t, document, tree[t], bundles)
      BY <2>2, <3>1 DEF PlanOver, TextsOver
    <3>4. ~(t < 1)
      BY <3>1 DEF Targets
    <3> QED
      BY <3>2, <3>3, <3>4 DEF InPlace
  <2>11. ProgressInv'
    BY <2>5, <2>6, <2>8, <2>9, <2>10 DEF ProgressInv
  <2> QED
    BY <2>7, <2>11 DEF WriterInv
<1>2. CASE ~(Renders(document) /\ proved)
  <2>1. op'.pc = "failed"
    BY <1>2 DEF Execute, Operation
  <2> QED
    BY <2>1, WriterGone DEF HasPlan
<1> QED
  BY <1>1, <1>2

LEMMA StartWriter ==
    ASSUME TypeInv, RenderRun \/ RollbackRender \/ Replan
    PROVE  WriterInv'
<1>1. CASE RenderRun \/ Replan \/ Execute("rollback", 0, TRUE)
  <2>1. PICK kind : Execute(kind, 0, TRUE)
    BY <1>1 DEF RenderRun, Replan
  <2>2. ~(0 > 0)
    OBVIOUS
  <2> QED
    BY <2>1, <2>2, ExecuteWriter
<1>2. CASE \E c \in DOMAIN commits :
              Execute("rollback", c, Renders(document) /\ DeterministicProof(c))
  BY <1>2, ExecuteWriter DEF DeterministicProof
<1> QED
  BY <1>1, <1>2 DEF RollbackRender

\* A write moves the boundary and keeps the set of artifacts.
LEMMA WriteInPlace ==
    ASSUME TypeInv, ProgressInv, WriteArtifact, ~edited
    PROVE  /\ ArtifactsOver(document, tree') = ArtifactsOver(document, tree)
           /\ \A t \in Planned(op.plan) :
                 InPlace(t, op.plan, op.at + 1, document, tree', bundles)
<1>1. /\ op.plan \in Plans /\ op.at \in Targets
      /\ Planned(op.plan) = ArtifactsOver(document, tree)
      /\ \A t \in Planned(op.plan) :
            InPlace(t, op.plan, op.at, document, tree, bundles)
  BY DEF WriteArtifact, TypeInv, ProgressInv, HasPlan, Sound
<1>2. tree \in [Targets -> Contents] /\ Targets \subseteq Nat
  BY DEF TypeInv, TypeOK, Targets
<1>3. ASSUME NEW t \in Targets
      PROVE  tree'[t] = IF t = op.at /\ t \in Planned(op.plan)
                        THEN op.plan.texts[t] ELSE tree[t]
  BY <1>1, <1>2 DEF WriteArtifact
<1>4. ASSUME NEW t \in Targets
      PROVE  t \in ArtifactsOver(document, tree')
                 <=> t \in ArtifactsOver(document, tree)
  <2>1. CASE t = op.at /\ t \in Planned(op.plan)
    <3>1. tree'[t] # None
      BY <1>1, <1>3, <2>1, PlanTexts, NoneAssumption
    <3> QED
      BY <1>1, <2>1, <3>1 DEF ArtifactsOver
  <2>2. CASE ~(t = op.at /\ t \in Planned(op.plan))
    BY <1>3, <2>2 DEF ArtifactsOver
  <2> QED
    BY <2>1, <2>2
<1>5. ArtifactsOver(document, tree') = ArtifactsOver(document, tree)
  BY <1>4, ArtifactsAreTargets
<1>6. ASSUME NEW t \in Planned(op.plan)
      PROVE  InPlace(t, op.plan, op.at + 1, document, tree', bundles)
  <2>1. PICK file \in Contents :
            /\ Loaded(t, file)
            /\ op.plan.texts[t] = Rendered(t, document, file, bundles)
            /\ tree[t] = IF t < op.at THEN op.plan.texts[t] ELSE file
    BY <1>1 DEF InPlace
  <2>2. t \in Targets /\ t \in Nat /\ op.at \in Nat
    BY <1>1, <1>2, PlanTexts
  <2>3. t < op.at + 1 <=> t < op.at \/ t = op.at
    BY <2>2
  <2>4. tree'[t] = IF t < op.at + 1 THEN op.plan.texts[t] ELSE file
    BY <1>3, <1>6, <2>1, <2>2, <2>3
  <2> QED
    BY <2>1, <2>4 DEF InPlace
<1> QED
  BY <1>5, <1>6

LEMMA WriteArtifactWriter ==
    ASSUME TypeInv, WriterInv, WriteArtifact
    PROVE  WriterInv'
<1>1. /\ op'.pc = "write" /\ op.pc = "write" /\ op'.plan = op.plan
      /\ op'.at = op.at + 1 /\ op'.expected = op.expected
  BY DEF WriteArtifact, TypeInv, TypeOK, Operations
<1>2. UNCHANGED <<document, bundles, manifest, commits, edited>>
  BY DEF WriteArtifact
<1>3. ProofInv'
  BY <1>1, <1>2 DEF WriterInv, ProofInv, HasPlan
<1>4. ASSUME ~edited
      PROVE  /\ ArtifactsOver(document, tree') = ArtifactsOver(document, tree)
             /\ \A t \in Planned(op.plan) :
                   InPlace(t, op.plan, op.at + 1, document, tree', bundles)
  BY <1>4, WriteInPlace DEF WriterInv
<1>5. ~edited => /\ RecordedOver(document, tree', bundles)
                        = RecordedOver(document, tree, bundles)
                 /\ Listed(document, tree) => Listed(document, tree')
  BY <1>4 DEF RecordedOver, Listed
<1>6. ProgressInv'
  BY <1>1, <1>2, <1>4, <1>5 DEF WriterInv, ProgressInv, HasPlan
<1> QED
  BY <1>3, <1>6 DEF WriterInv

LEMMA WriterStepWriter ==
    ASSUME TypeInv, WriterInv, WriteManifest \/ VerifyRollback
    PROVE  WriterInv'
<1>1. /\ HasPlan /\ op'.plan = op.plan /\ op'.expected = op.expected
      /\ op'.at = op.at /\ op'.pc # "write"
  BY DEF WriteManifest, VerifyRollback, TypeInv, TypeOK, Operations, HasPlan
<1>2. UNCHANGED <<document, tree, bundles, commits, edited>>
  BY DEF WriteManifest, VerifyRollback
<1>3. ~edited => op.at \notin Targets /\ manifest' = op.plan
  BY <1>1 DEF WriteManifest, VerifyRollback, WriterInv, ProgressInv
<1>4. ProofInv'
  BY <1>1, <1>2 DEF WriterInv, ProofInv
<1>5. ProgressInv'
  BY <1>1, <1>2, <1>3 DEF WriterInv, ProgressInv
<1> QED
  BY <1>4, <1>5 DEF WriterInv

LEMMA NextWriter ==
    ASSUME TypeInv, WriterInv, [Next]_vars
    PROVE  WriterInv'
<1>1. CASE RenderRun \/ RollbackRender \/ Replan
  BY <1>1, StartWriter
<1>2. CASE WriteArtifact
  BY <1>2, WriteArtifactWriter
<1>3. CASE WriteManifest \/ VerifyRollback
  BY <1>3, WriterStepWriter
<1>4. CASE \/ EditDocument \/ CommitRender \/ Checkout \/ Crash \/ CrashInWrite
  <2>1. op'.pc = "idle"
    BY <1>4, NoOperationType
       DEF EditDocument, CommitRender, Checkout, Crash, CrashInWrite
  <2> QED
    BY <2>1, WriterGone DEF HasPlan
<1>5. CASE Persist \/ \E doc \in Docs : Submit(doc)
  <2>1. op'.pc \in {"replan", "validated", "failed"}
    BY <1>5 DEF Persist, Submit, Operation, TypeInv, TypeOK, Operations
  <2> QED
    BY <2>1, WriterGone DEF HasPlan
<1>6. CASE EditTree
  BY <1>6 DEF EditTree, WriterInv, ProofInv, ProgressInv, HasPlan
<1>7. CASE UNCHANGED vars
  BY <1>7 DEF vars, WriterInv, ProofInv, ProgressInv, HasPlan
<1> QED
  BY <1>1, <1>2, <1>3, <1>4, <1>5, <1>6, <1>7 DEF Next


-----------------------------------------------------------------------------
(* What no render writes. *)

\* A readable file that is laid out as what it is.
Whole(t, file) ==
    file \in Content /\ (Strategy[t] = "sync-policy" => file.sync \in Syncs)

\* Without hand edits and files cut short, the commits and the tree differ in
\* nothing but what renders write, and no target but an owned one is missing.
UntouchedInv ==
    /\ edited => touched
    /\ ~touched =>
         /\ \A t \in Targets \ Owned : Whole(t, tree[t])
         /\ \A c \in DOMAIN commits :
               /\ commits[c].bundles = bundles
               /\ \A t \in Targets \ Owned :
                     /\ Whole(t, commits[c].tree[t])
                     /\ Alike(t, commits[c].tree[t], tree[t])
                     /\ \A d \in DOMAIN commits : c <= d =>
                           Alike(t, commits[c].tree[t], commits[d].tree[t])

LEMMA InitUntouched == Init => UntouchedInv
<1> SUFFICES ASSUME Init PROVE UntouchedInv
  OBVIOUS
<1>1. PICK v \in Values, s \in Layouts, r \in Rests \ {Cut} :
          tree = [t \in Targets |-> IF t \in Owned THEN None
                                    ELSE Fresh(t, v, s, r)]
  BY DEF Init
<1>2. s \in Syncs
  BY <1>1, DocumentsAssumption
<1>3. ASSUME NEW t \in Targets \ Owned PROVE Whole(t, tree[t])
  <2>1. tree[t] = Fresh(t, v, s, r)
    BY <1>1
  <2>2. tree[t] \in Content
    BY <1>1, <2>1, FreshType
  <2>3. Strategy[t] = "sync-policy" => tree[t].sync = s
    BY <2>1 DEF Fresh
  <2> QED
    BY <1>2, <2>2, <2>3 DEF Whole
<1>4. DOMAIN commits = {}
  BY DEF Init
<1> QED
  BY <1>3, <1>4 DEF Init, UntouchedInv

LEMMA CommitUntouched ==
    ASSUME TypeInv, UntouchedInv, CommitRender
    PROVE  UntouchedInv'
<1> DEFINE k == [doc |-> document, tree |-> tree, bundles |-> bundles,
                 manifest |-> manifest]
<1>1. commits \in Seq(Commit) /\ commits' = Append(commits, k)
  BY DEF TypeInv, TypeOK, CommitRender
<1>2. UNCHANGED <<tree, bundles, edited, touched>>
  BY DEF CommitRender
<1>3. k.tree = tree /\ k.bundles = bundles
  OBVIOUS
<1> HIDE DEF k
<1>4. \A c \in DOMAIN commits' :
          \/ commits'[c] = k /\ c = Len(commits) + 1
          \/ c \in DOMAIN commits /\ commits'[c] = commits[c]
  BY <1>1
<1>5. Len(commits) \in Nat /\ \A c \in DOMAIN commits : c \in 1 .. Len(commits)
  BY <1>1
<1>6. SUFFICES ASSUME ~touched
               PROVE  \A c \in DOMAIN commits' :
                        /\ commits'[c].bundles = bundles
                        /\ \A t \in Targets \ Owned :
                              /\ Whole(t, commits'[c].tree[t])
                              /\ Alike(t, commits'[c].tree[t], tree[t])
                              /\ \A d \in DOMAIN commits' : c <= d =>
                                    Alike(t, commits'[c].tree[t], commits'[d].tree[t])
  BY <1>2 DEF UntouchedInv
<1>7. ASSUME NEW c \in DOMAIN commits', NEW t \in Targets \ Owned
      PROVE  /\ Whole(t, commits'[c].tree[t])
             /\ Alike(t, commits'[c].tree[t], tree[t])
  BY <1>3, <1>4, <1>6, AlikeItself DEF UntouchedInv
<1>8. ASSUME NEW c \in DOMAIN commits', NEW d \in DOMAIN commits', c <= d,
             NEW t \in Targets \ Owned
      PROVE  Alike(t, commits'[c].tree[t], commits'[d].tree[t])
  <2>1. CASE commits'[d] = k
    BY <1>3, <1>7, <2>1
  <2>2. CASE d \in DOMAIN commits /\ commits'[d] = commits[d]
    <3>1. c \in DOMAIN commits /\ commits'[c] = commits[c]
      BY <1>4, <1>5, <1>8, <2>2
    <3> QED
      BY <1>6, <1>8, <2>2, <3>1 DEF UntouchedInv
  <2> QED
    BY <1>4, <2>1, <2>2
<1>9. \A c \in DOMAIN commits' : commits'[c].bundles = bundles
  BY <1>3, <1>4, <1>6 DEF UntouchedInv
<1> QED
  BY <1>7, <1>8, <1>9

LEMMA CheckoutUntouched ==
    ASSUME TypeInv, UntouchedInv, Checkout
    PROVE  UntouchedInv'
<1>1. /\ Len(commits) \in DOMAIN commits
      /\ \A c \in DOMAIN commits : c <= Len(commits)
  BY DEF TypeInv, TypeOK, Checkout
<1>2. /\ tree' = commits[Len(commits)].tree
      /\ bundles' = commits[Len(commits)].bundles
      /\ UNCHANGED <<commits, edited, touched>>
  BY DEF Checkout
<1>3. ASSUME ~touched, NEW t \in Targets \ Owned
      PROVE  /\ Whole(t, tree'[t])
             /\ \A c \in DOMAIN commits : Alike(t, commits[c].tree[t], tree'[t])
  BY <1>1, <1>2, <1>3 DEF UntouchedInv
<1> QED
  BY <1>1, <1>2, <1>3 DEF UntouchedInv

\* A write makes of a file what a render makes of it.
LEMMA WriteAlike ==
    ASSUME TypeInv, WriterInv, WriteArtifact, ~edited,
           NEW t \in Targets \ Owned, Whole(t, tree[t])
    PROVE  /\ Whole(t, tree'[t])
           /\ \A file : Alike(t, file, tree[t]) => Alike(t, file, tree'[t])
<1>1. tree \in [Targets -> Contents] /\ op.plan \in Sound /\ op.plan \in Plans
  BY DEF TypeInv, TypeOK, WriteArtifact, HasPlan, Sound
<1>2. CASE op.at \in Planned(op.plan) /\ t = op.at
  <2>1. tree'[t] = op.plan.texts[t]
    BY <1>1, <1>2 DEF WriteArtifact
  <2>2. tree'[t] \in Content
    BY <1>1, <1>2, <2>1, PlanTexts
  <2>3. Strategy[t] = "sync-policy" => tree'[t].sync \in Syncs
    BY <1>1, <1>2, <2>1 DEF Sound
  <2>4. PICK f \in Contents :
            /\ op.plan.texts[t] = Rendered(t, document, f, bundles)
            /\ tree[t] = IF t < op.at THEN op.plan.texts[t] ELSE f
    BY <1>2 DEF WriterInv, ProgressInv, InPlace, WriteArtifact, HasPlan
  <2>5. ~(t < op.at)
    BY <1>2 DEF Targets
  <2>6. tree'[t] = Rendered(t, document, tree[t], bundles)
    BY <2>1, <2>4, <2>5
  <2>7. ASSUME NEW file, Alike(t, file, tree[t]) PROVE Alike(t, file, tree'[t])
    BY <2>6, <2>7, AlikeRendered
  <2> QED
    BY <2>2, <2>3, <2>7 DEF Whole
<1>3. CASE ~(op.at \in Planned(op.plan) /\ t = op.at)
  <2>1. tree'[t] = tree[t]
    BY <1>1, <1>3 DEF WriteArtifact
  <2> QED
    BY <2>1
<1> QED
  BY <1>2, <1>3

LEMMA WriteUntouched ==
    ASSUME TypeInv, WriterInv, UntouchedInv, WriteArtifact
    PROVE  UntouchedInv'
<1>1. UNCHANGED <<bundles, commits, edited, touched>>
  BY DEF WriteArtifact
<1>2. ASSUME ~touched, NEW t \in Targets \ Owned
      PROVE  /\ Whole(t, tree'[t])
             /\ \A c \in DOMAIN commits : Alike(t, commits[c].tree[t], tree'[t])
  <2>1. ~edited /\ Whole(t, tree[t])
    BY <1>2 DEF UntouchedInv
  <2>2. \A c \in DOMAIN commits : Alike(t, commits[c].tree[t], tree[t])
    BY <1>2 DEF UntouchedInv
  <2> QED
    BY <1>2, <2>1, <2>2, WriteAlike
<1> QED
  BY <1>1, <1>2 DEF UntouchedInv

LEMMA NextUntouched ==
    ASSUME TypeInv, WriterInv, UntouchedInv, [Next]_vars
    PROVE  UntouchedInv'
<1>1. CASE CommitRender
  BY <1>1, CommitUntouched
<1>2. CASE Checkout
  BY <1>2, CheckoutUntouched
<1>3. CASE WriteArtifact
  BY <1>3, WriteUntouched
<1>4. CASE CrashInWrite \/ EditTree
  BY <1>4 DEF CrashInWrite, EditTree, UntouchedInv
<1>5. CASE /\ UNCHANGED <<tree, bundles, commits, touched>>
           /\ edited' = FALSE \/ UNCHANGED edited
  BY <1>5 DEF UntouchedInv
<1> QED
  BY <1>1, <1>2, <1>3, <1>4, <1>5 DEF Next, vars, EditDocument, RenderRun,
     RollbackRender, Execute, Submit, Persist, Replan, WriteManifest,
     VerifyRollback, Crash

-----------------------------------------------------------------------------
(* The theorems. *)

PropagationInv == TypeInv /\ CommitInv /\ WriterInv /\ UntouchedInv

\* The invariant behind the theorems below: commits are renders, a writer's
\* plan fits the tree it writes, and renders touch nothing else.
LEMMA PropagationInvHolds == Spec => []PropagationInv
<1>1. Init => PropagationInv
  <2> SUFFICES ASSUME Init PROVE PropagationInv
    OBVIOUS
  <2>1. DOMAIN commits = {} /\ op.pc = "idle"
    BY NoOperationType DEF Init
  <2> QED
    BY <2>1, InitType, InitUntouched
       DEF PropagationInv, CommitInv, WriterInv, ProofInv, ProgressInv, HasPlan
<1>2. PropagationInv /\ [Next]_vars => PropagationInv'
  BY NextType, NextCommit, NextWriter, NextUntouched DEF PropagationInv
<1> QED
  BY <1>1, <1>2, PTL DEF Spec

\* A finished writer left the plan in place.
LEMMA DoneIsInPlace ==
    ASSUME PropagationInv, op.pc = "done", ~edited
    PROVE  /\ op.plan \in Plans /\ manifest = op.plan
           /\ op.plan.doc = document /\ document \in Docs \ Invalid
           /\ op.plan.skipped = Skipped(document)
           /\ op.plan.recorded = RecordedOver(document, tree, bundles)
           /\ Planned(op.plan) = ArtifactsOver(document, tree)
           /\ Listed(document, tree)
           /\ \A t \in Planned(op.plan) :
                 /\ t \in Targets /\ tree[t] = op.plan.texts[t]
                 /\ \E file : /\ Loaded(t, file)
                              /\ tree[t] = Rendered(t, document, file, bundles)
<1>1. /\ op.plan \in Plans /\ op.plan.doc = document
      /\ document \in Docs \ Invalid
      /\ op.plan.skipped = Skipped(document)
      /\ op.plan.recorded = RecordedOver(document, tree, bundles)
      /\ Planned(op.plan) = ArtifactsOver(document, tree)
      /\ Listed(document, tree)
      /\ op.at \notin Targets /\ manifest = op.plan
      /\ \A t \in Planned(op.plan) :
            InPlace(t, op.plan, op.at, document, tree, bundles)
  BY DEF PropagationInv, TypeInv, WriterInv, ProgressInv, HasPlan, Sound
<1>2. ASSUME NEW t \in Planned(op.plan)
      PROVE  t \in Targets /\ t < op.at
  <2>1. t \in Targets /\ op.at \in 1 .. Len(Strategy) + 1
    BY <1>1, PlanTexts DEF PropagationInv, TypeInv, TypeOK, Operations
  <2>2. t \in 1 .. Len(Strategy) /\ op.at \notin 1 .. Len(Strategy)
    BY <1>1, <2>1 DEF Targets
  <2>3. Len(Strategy) \in Nat
    BY StrategyAssumption
  <2> QED
    BY <2>1, <2>2, <2>3
<1> QED
  BY <1>1, <1>2 DEF InPlace

\* A plan with the fields of a plan over the tree is that plan.
LEMMA SamePlan ==
    ASSUME NEW plan \in Plans, NEW doc, NEW tr, NEW bu,
           plan.doc = doc, plan.skipped = Skipped(doc),
           plan.recorded = RecordedOver(doc, tr, bu),
           Planned(plan) = ArtifactsOver(doc, tr),
           \A t \in Planned(plan) : plan.texts[t] = Rendered(t, doc, tr[t], bu)
    PROVE  plan = PlanOver(doc, tr, bu)
<1>1. \A t \in Targets \ Planned(plan) : plan.texts[t] = None
  BY DEF Planned
<1>2. plan.texts = [t \in Targets |-> plan.texts[t]]
  BY DEF Plans
<1>3. plan.texts = TextsOver(doc, tr, bu)
  BY <1>1, <1>2 DEF TextsOver
<1>4. plan = [doc |-> plan.doc, texts |-> plan.texts, skipped |-> plan.skipped,
              recorded |-> plan.recorded]
  BY DEF Plans
<1> QED
  BY <1>3, <1>4 DEF PlanOver

\* After a finished render, rollback or portal commit that nobody edited
\* into, the plan for the document over the tree it left changes nothing, if
\* and only if no Application is left in a state that apply_sync_policy
\* changes again (execute_plan, changed_paths, patch.py).
THEOREM IdempotentExactly == Spec => []IdempotentUnlessFragile
<1>1. PropagationInv => IdempotentUnlessFragile
  <2> SUFFICES ASSUME PropagationInv, op.pc = "done", ~edited
               PROVE  (/\ Renders(document)
                       /\ ChangedPaths(PlanRender(document)) = {})
                      <=> \A t \in Artifacts(document) :
                              Strategy[t] = "sync-policy" => ~Fragile(tree[t].sync)
    BY DEF IdempotentUnlessFragile
  <2>1. Files(tree, bundles)
    BY TypeFiles DEF PropagationInv, TypeInv
  <2>2. Artifacts(document) = ArtifactsOver(document, tree)
    BY ArtifactsIsOver
  <2>3. ASSUME \A t \in ArtifactsOver(document, tree) :
                   Strategy[t] = "sync-policy" => ~Fragile(tree[t].sync)
        PROVE  Renders(document) /\ ChangedPaths(PlanRender(document)) = {}
    <3>1. ASSUME NEW t \in Planned(op.plan)
          PROVE  /\ Loaded(t, tree[t])
                 /\ op.plan.texts[t] = Rendered(t, document, tree[t], bundles)
      <4>1. PICK file : /\ Loaded(t, file)
                        /\ tree[t] = Rendered(t, document, file, bundles)
        BY DoneIsInPlace
      <4>2. /\ document \in Docs /\ t \in Targets
            /\ tree[t] = op.plan.texts[t]
            /\ t \in ArtifactsOver(document, tree)
        BY DoneIsInPlace
      <4>3. bundles \in [Owned -> Rests]
        BY <2>1 DEF Files
      <4>4. PICK text : text = tree[t]
        OBVIOUS
      <4>5. /\ text = Rendered(t, document, file, bundles)
            /\ Strategy[t] = "sync-policy" => ~Fragile(text.sync)
        BY <2>3, <4>1, <4>2, <4>4
      <4>6. Loaded(t, text) /\ Rendered(t, document, text, bundles) = text
        BY <4>1, <4>2, <4>3, <4>5, RenderedAgain
      <4> QED
        BY <4>2, <4>4, <4>6
    <3>2. RendersOver(document, tree)
      BY <3>1, DoneIsInPlace DEF RendersOver, Listed
    <3>3. Renders(document)
      BY <3>2, RendersIsOver
    <3>4. op.plan = PlanOver(document, tree, bundles)
      BY <3>1, DoneIsInPlace, SamePlan
    <3>5. PlanRender(document) = op.plan
      BY <3>3, <3>4, PlanIsOver
    <3>6. manifest = op.plan /\ \A t \in Planned(op.plan) : tree[t] = op.plan.texts[t]
      BY DoneIsInPlace
    <3> QED
      BY <2>1, <3>3, <3>5, <3>6, NothingChanged
  <2>4. ASSUME Renders(document), ChangedPaths(PlanRender(document)) = {},
               NEW t \in ArtifactsOver(document, tree), Strategy[t] = "sync-policy"
        PROVE  ~Fragile(tree[t].sync)
    <3>1. RendersOver(document, tree)
      BY <2>4, RendersIsOver
    <3>2. t \in Targets /\ Loaded(t, tree[t])
      BY <2>4, <3>1, ArtifactsAreTargets DEF RendersOver
    <3>3. PICK plan : plan = PlanOver(document, tree, bundles)
      OBVIOUS
    <3>4. Planned(plan) = ArtifactsOver(document, tree)
      BY <2>1, <3>1, <3>3, PlanOverType
    <3>5. tree[t] = plan.texts[t]
      BY <2>1, <2>4, <3>3, <3>4, PlanIsOver, NothingChanged
    <3>6. tree[t] = Rendered(t, document, tree[t], bundles)
      BY <2>4, <3>2, <3>3, <3>5 DEF PlanOver, TextsOver
    <3> QED
      BY <2>4, <3>2, <3>6, StableIsNotFragile
  <2> QED
    BY <2>2, <2>3, <2>4
<1> QED
  BY <1>1, PropagationInvHolds, PTL

\* An earlier commit whose files are reversible renders to what it did.
LEMMA ReversibleRenders ==
    ASSUME PropagationInv, ~touched, NEW c \in DOMAIN commits,
           \A t \in Planned(commits[c].manifest) : Reversible(commits[c], t)
    PROVE  /\ Renders(commits[c].doc)
           /\ PlanRender(commits[c].doc) = commits[c].manifest
<1>1. PICK k : k = commits[c]
  OBVIOUS
<1>2. /\ RendersOver(k.doc, k.tree) /\ k.doc \in Docs \ Invalid
      /\ k.manifest = PlanOver(k.doc, k.tree, bundles)
      /\ Planned(k.manifest) = ArtifactsOver(k.doc, k.tree)
  BY <1>1 DEF PropagationInv, CommitInv, UntouchedInv, IsRender, RendersOver
<1>3. ASSUME NEW t \in Targets \ Owned
      PROVE  /\ Whole(t, k.tree[t]) /\ Whole(t, tree[t])
             /\ Alike(t, k.tree[t], tree[t])
  BY <1>1, <1>3 DEF PropagationInv, UntouchedInv
<1>4. ASSUME NEW t \in Targets
      PROVE  t \in ArtifactsOver(k.doc, tree) <=> t \in ArtifactsOver(k.doc, k.tree)
  <2>1. Strategy[t] = "sync-policy" => tree[t] # None /\ k.tree[t] # None
    BY <1>3, NoneAssumption DEF Whole, Owned, OfStrategy
  <2> QED
    BY <2>1 DEF ArtifactsOver
<1>5. ArtifactsOver(k.doc, tree) = ArtifactsOver(k.doc, k.tree)
  BY <1>4, ArtifactsAreTargets
<1>6. ASSUME NEW t \in ArtifactsOver(k.doc, k.tree)
      PROVE  /\ Loaded(t, tree[t])
             /\ Rendered(t, k.doc, k.tree[t], bundles)
                    = Rendered(t, k.doc, tree[t], bundles)
  <2>1. t \in Targets /\ Loaded(t, k.tree[t]) /\ Reversible(k, t)
    BY <1>1, <1>2, ArtifactsAreTargets DEF RendersOver
  <2>2. CASE t \in Owned
    BY <2>1, <2>2, RenderedOfAlike DEF Loaded
  <2>3. CASE t \notin Owned
    <3>1. Strategy[t] = "sync-policy" => AtHome(k.tree[t].sync)
      BY <2>1, <2>3 DEF Loaded, Reversible, AtHome
    <3>2. Strategy[t] = "sync-policy" => AtHome(tree[t].sync)
      BY <1>3, <2>1, <2>3, <3>1 DEF Alike, SyncAlike
    <3>3. Loaded(t, tree[t])
      BY <1>3, <2>1, <2>3, <3>2 DEF Whole, Loaded, AtHome
    <3>4. Alike(t, k.tree[t], tree[t]) /\ Scalars(t) \subseteq Patched(k.doc, t)
      BY <1>3, <2>1, <2>3 DEF Reversible
    <3> QED
      BY <2>1, <3>1, <3>3, <3>4, RenderedOfAlike
  <2> QED
    BY <2>2, <2>3
<1>7. RendersOver(k.doc, tree)
  BY <1>2, <1>5, <1>6 DEF RendersOver
<1>8. PlanOver(k.doc, tree, bundles) = PlanOver(k.doc, k.tree, bundles)
  <2>1. TextsOver(k.doc, tree, bundles) = TextsOver(k.doc, k.tree, bundles)
    BY <1>5, <1>6 DEF TextsOver
  <2>2. RecordedOver(k.doc, tree, bundles) = RecordedOver(k.doc, k.tree, bundles)
    BY <1>5 DEF RecordedOver
  <2> QED
    BY <2>1, <2>2 DEF PlanOver
<1> QED
  BY <1>1, <1>2, <1>7, <1>8, RendersIsOver, PlanIsOver

\* Unless a file was edited or cut short, the plan for the document of an
\* earlier commit is the manifest of that commit over whatever tree later or
\* interrupted renders left, if that document binds every value of the files
\* it renders that any document binds, and the automated blocks of its
\* Applications stood first in syncPolicy, among content
\* (_assert_deterministic_proof).
THEOREM RollbacksAreProvable == Spec => []RollbackIsProvable
<1>1. PropagationInv => RollbackIsProvable
  BY ReversibleRenders DEF RollbackIsProvable
<1> QED
  BY <1>1, PropagationInvHolds, PTL

\* A rollback that passed the deterministic proof and the residual check has
\* brought every file its manifest names back to the committed bytes.
THEOREM ProvenRollbacksRestore == Spec => []ProofMeansBytes
<1>1. PropagationInv => ProofMeansBytes
  <2> SUFFICES ASSUME PropagationInv, op.pc = "done", op.expected > 0, ~edited
               PROVE  /\ manifest = commits[op.expected].manifest
                      /\ \A t \in Planned(manifest) :
                            /\ tree[t] = commits[op.expected].tree[t]
                            /\ t \in Owned =>
                                 bundles[t] = commits[op.expected].bundles[t]
    BY DEF ProofMeansBytes
  <2>1. PICK k : k = commits[op.expected]
    OBVIOUS
  <2>2. op.plan = k.manifest /\ IsRender(k)
    BY <2>1 DEF PropagationInv, WriterInv, ProofInv, CommitInv, HasPlan
  <2>3. /\ manifest = op.plan /\ Planned(op.plan) = ArtifactsOver(document, tree)
        /\ op.plan.recorded = RecordedOver(document, tree, bundles)
        /\ \A t \in Planned(op.plan) : tree[t] = op.plan.texts[t]
    BY DoneIsInPlace
  <2>4. /\ Planned(op.plan) = ArtifactsOver(k.doc, k.tree)
        /\ op.plan.recorded = RecordedOver(k.doc, k.tree, k.bundles)
        /\ \A t \in Planned(op.plan) : k.tree[t] = op.plan.texts[t]
    BY <2>2 DEF IsRender, PlanOver
  <2>5. \A t \in Planned(op.plan) : t \in Owned => bundles[t] = k.bundles[t]
    BY <2>3, <2>4 DEF RecordedOver
  <2> QED
    BY <2>1, <2>2, <2>3, <2>4, <2>5
<1> QED
  BY <1>1, PropagationInvHolds, PTL

\* obskit drift answers clean on a commit's document and manifest only if
\* every file the manifest names holds the committed bytes, whatever was
\* edited and although every plan starts from the edited files.
THEOREM DriftIsComplete == Spec => []DriftSeesEveryEdit
<1>1. PropagationInv => DriftSeesEveryEdit
  <2> SUFFICES ASSUME PropagationInv, NEW c \in DOMAIN commits,
                      document = commits[c].doc, manifest = commits[c].manifest,
                      ~Drift(document)
               PROVE  \A t \in Planned(manifest) :
                         /\ tree[t] = commits[c].tree[t]
                         /\ t \in Owned => bundles[t] = commits[c].bundles[t]
    BY DEF DriftSeesEveryEdit
  <2>1. Files(tree, bundles)
    BY TypeFiles DEF PropagationInv, TypeInv
  <2>2. PICK k : k = commits[c]
    OBVIOUS
  <2>3. IsRender(k) /\ manifest = k.manifest
    BY <2>2 DEF PropagationInv, CommitInv
  <2>4. /\ RendersOver(document, tree)
        /\ manifest = PlanOver(document, tree, bundles)
        /\ \A t \in Planned(manifest) : tree[t] = manifest.texts[t]
    BY <2>1, PlanIsOver, RendersIsOver, NothingChanged DEF Drift
  <2>5. /\ Planned(manifest) = ArtifactsOver(document, tree)
        /\ manifest.recorded = RecordedOver(document, tree, bundles)
    BY <2>1, <2>4, PlanOverType DEF PlanOver
  <2>6. /\ Planned(manifest) = ArtifactsOver(k.doc, k.tree)
        /\ manifest.recorded = RecordedOver(k.doc, k.tree, k.bundles)
        /\ \A t \in Planned(manifest) : k.tree[t] = manifest.texts[t]
    BY <2>3 DEF IsRender, PlanOver
  <2>7. \A t \in Planned(manifest) : t \in Owned => bundles[t] = k.bundles[t]
    BY <2>5, <2>6 DEF RecordedOver
  <2> QED
    BY <2>2, <2>4, <2>6, <2>7
<1> QED
  BY <1>1, PropagationInvHolds, PTL

=============================================================================

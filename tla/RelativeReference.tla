--------------------------- MODULE RelativeReference ---------------------------
(***************************************************************************)
(* src/services/relative-reference-resolver.ts: what 前条, 次項, 前二項,   *)
(* 同条 and the like mean in a context of article, paragraph and item.     *)
(* Article numbers are strings in the code and parsed where they are used; *)
(* the number parsed from an empty string is NaN, and so is every number   *)
(* computed from it.                                                       *)
(***************************************************************************)
EXTENDS Integers

CONSTANTS NaN,         \* parseInt of a string without digits
          Unresolved   \* null

(* A relative word: a unit with a direction.  n = 0 is the plain form      *)
(* (前条), n > 0 the counted one (前二項), "all" is 前各項, "each" 各項,   *)
(* and para is the paragraph of 前条第二項.                                *)
Word == [unit : {"article", "paragraph", "item"},
         dir  : {"prev", "next", "all", "same", "each"},
         n    : Nat, para : Nat]

At(ctx, article, paragraph, sure) ==
  [lawId |-> ctx.lawId, article |-> article, paragraph |-> paragraph, sure |-> sure]

AtLeastOne(n) == IF n < 1 THEN 1 ELSE n

resolveArticleRelative(w, ctx) ==
  LET a == ctx.article
  IN  IF a = NaN THEN At(ctx, NaN, 0, TRUE)
      ELSE CASE w.dir = "prev" /\ w.n = 0 -> IF a <= 1 THEN At(ctx, a, 0, FALSE) ELSE At(ctx, a - 1, 0, TRUE)
             [] w.dir = "prev" /\ w.n > 0 -> At(ctx, AtLeastOne(a - w.n), 0, TRUE)
             [] w.dir = "next"            -> At(ctx, a + AtLeastOne(w.n), 0, TRUE)

resolveParagraphRelative(w, ctx) ==
  LET p == AtLeastOne(ctx.paragraph)
  IN  CASE w.dir = "prev" /\ w.n = 0 -> IF p <= 1 THEN At(ctx, ctx.article, 1, FALSE)
                                                  ELSE At(ctx, ctx.article, p - 1, TRUE)
        [] w.dir = "prev" /\ w.n > 0 -> At(ctx, ctx.article, AtLeastOne(p - w.n), TRUE)
        [] w.dir = "next"            -> At(ctx, ctx.article, p + AtLeastOne(w.n), TRUE)
        [] w.dir = "all"             -> At(ctx, ctx.article, p - 1, TRUE)

(* 前条第二項: no article before the first.                                *)
resolveComplexRelative(w, ctx) ==
  IF w.dir = "prev" /\ ctx.article # NaN /\ ctx.article <= 1 THEN Unresolved
  ELSE At(ctx, resolveArticleRelative([w EXCEPT !.n = 0], ctx).article, w.para, TRUE)

(* 各号 are the items of the paragraph, 各項 the paragraphs of the article. *)
resolveSameReference(w, ctx) ==
  At(ctx, ctx.article, CASE w.unit = "item" -> ctx.paragraph
                         [] w.unit = "article" \/ (w.unit = "paragraph" /\ w.dir = "each") -> 0
                         [] OTHER -> AtLeastOne(ctx.paragraph), TRUE)

(* No caller passes an item, so that words that count items from one stay  *)
(* unresolved; 各号 needs none.                                            *)
resolve(w, ctx) ==
  IF w.unit = "item" /\ w.dir # "each" THEN Unresolved
  ELSE IF w.dir \in {"same", "each"} THEN resolveSameReference(w, ctx)
  ELSE CASE w.unit = "article" /\ w.para = 0 -> resolveArticleRelative(w, ctx)
         [] w.unit = "article" /\ w.para > 0 -> resolveComplexRelative(w, ctx)
         [] w.unit = "paragraph"             -> resolveParagraphRelative(w, ctx)
=============================================================================

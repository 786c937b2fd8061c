------------------------------ MODULE Markdown ------------------------------
(***************************************************************************)
(* renderMarkdown (src/web/md.js), which turns the text of a guide into    *)
(* blocks.  A line is its kind: what the renderer's tests find it to be.   *)
(*   "indented"  two spaces or more before text that is no list item; a    *)
(*               fence, a heading or a quote that is indented is this too  *)
(*   "sep"       a row of a table whose cells are all dashes, or empty     *)
(* A block is its kind and the numbers of the lines whose text it shows.   *)
(***************************************************************************)
EXTENDS Naturals, Sequences, SequencesExt

Kinds == {"fence", "heading", "rule", "row", "sep", "ul", "ol", "quote", "blank",
          "indented", "text"}

Block(kind, lines) == [kind |-> kind, lines |-> lines]
Lines(from, to) == [n \in 1 .. to - from + 1 |-> from + n - 1]

IsRow(kind) == kind \in {"row", "sep"}

(* Where the lines that go on with the block of line i end.                *)
Continues(doc, i, j) ==
    CASE doc[i] = "fence" -> doc[j] # "fence"
      [] IsRow(doc[i]) -> IsRow(doc[j])
      [] doc[i] \in {"ul", "ol"} -> doc[j] \in {doc[i], "indented"}
      [] doc[i] = "quote" -> doc[j] = "quote"
      [] OTHER -> FALSE

After(doc, i) ==
    CHOOSE j \in i + 1 .. Len(doc) + 1 :
        /\ j <= Len(doc) => ~Continues(doc, i, j)
        /\ \A k \in i + 1 .. j - 1 : Continues(doc, i, k)

(* The block that starts at line i and ends before line e.  The second row *)
(* of a table is left out if it is a separator.                            *)
BlockAt(doc, i, e) ==
    CASE doc[i] = "fence" -> Block("code", Lines(i + 1, e - 1))
      [] IsRow(doc[i]) ->
            Block("table", SelectSeq(Lines(i, e - 1), LAMBDA n : n # i + 1 \/ doc[n] # "sep"))
      [] OTHER -> Block(doc[i], Lines(i, e - 1))

(* The line the renderer goes on with: after the closing fence.            *)
Resume(doc, i, e) == IF doc[i] = "fence" THEN e + 1 ELSE e

FlushPara(p, i) == IF p < i THEN <<Block("text", Lines(p, i - 1))>> ELSE <<>>

RenderMarkdown_unflushed(doc) ==
    LET from[i \in 1 .. Len(doc) + 2, p \in 1 .. Len(doc) + 2] ==
            IF i > Len(doc) THEN <<>>
            ELSE CASE doc[i] \in {"text", "indented"} -> from[i + 1, p]
                   [] doc[i] = "blank" -> FlushPara(p, i) \o from[i + 1, i + 1]
                   [] OTHER ->
                        LET e == After(doc, i)
                            r == Resume(doc, i, e)
                        IN FlushPara(p, i) \o <<BlockAt(doc, i, e)>> \o from[r, r]
    IN from[1, 1]

(* At line i, with the paragraph begun at line p (i = p: there is none).   *)
RenderMarkdown(doc) ==
    LET from[i \in 1 .. Len(doc) + 2, p \in 1 .. Len(doc) + 2] ==
            IF i > Len(doc) THEN FlushPara(p, Len(doc) + 1)
            ELSE CASE doc[i] \in {"text", "indented"} -> from[i + 1, p]
                   [] doc[i] = "blank" -> FlushPara(p, i) \o from[i + 1, i + 1]
                   [] OTHER ->
                        LET e == After(doc, i)
                            r == Resume(doc, i, e)
                        IN FlushPara(p, i) \o <<BlockAt(doc, i, e)>> \o from[r, r]
    IN from[1, 1]

(***************************************************************************)
(* The reference: what each line of a document is for a reader, told from  *)
(* the lines around it and not from a run of the renderer.                 *)
(***************************************************************************)
(* Within a fence: an odd number of fences stand before it.                *)
InCode(doc, i) == Len(SelectSeq(SubSeq(doc, 1, i - 1), LAMBDA k : k = "fence")) % 2 = 1

(* The indented lines right after a list item belong to it.                *)
OfItem(doc, i, tag) ==
    \E j \in 1 .. i : /\ doc[j] = tag /\ ~InCode(doc, j)
                      /\ \A k \in j + 1 .. i : doc[k] = "indented"

(* The second row of a table, where it separates the head from the rest.   *)
Separates(doc, i) ==
    /\ doc[i] = "sep" /\ i > 1 /\ IsRow(doc[i - 1])
    /\ i = 2 \/ ~IsRow(doc[i - 2])

Shown(doc, i) ==
    doc[i] # "fence" /\ (InCode(doc, i) \/ (doc[i] # "blank" /\ ~Separates(doc, i)))

Home(doc, i) ==
    CASE InCode(doc, i) -> "code"
      [] IsRow(doc[i]) -> "table"
      [] doc[i] # "indented" -> doc[i]
      [] OfItem(doc, i, "ul") -> "ul"
      [] OfItem(doc, i, "ol") -> "ol"
      [] OTHER -> "text"

(* Every line that carries text is shown, once and in order, as what it    *)
(* is: nothing of a guide is lost when a fence is never closed or a block  *)
(* is cut short by the next one or by the end of the text.                 *)
Whole(doc) ==
    LET html == RenderMarkdown(doc)
        text == SelectSeq(Lines(1, Len(doc)), LAMBDA i : Shown(doc, i))
        As(block) == [n \in DOMAIN block.lines |-> <<block.kind, block.lines[n]>>]
    IN FlattenSeq([b \in DOMAIN html |-> As(html[b])])
         = [n \in DOMAIN text |-> <<Home(doc, text[n]), text[n]>>]
=============================================================================

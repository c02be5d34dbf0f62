------------------------------- MODULE Edits -------------------------------
(***************************************************************************)
(* How the coder's reply becomes text on disk.  The model answers with     *)
(* SEARCH/REPLACE blocks (agents/coder.py), the blocks are applied to the  *)
(* file in three passes of growing tolerance (core/patcher.py and          *)
(* tools/patch_tool.py), the result waits for a human, and the editor host *)
(* writes it unless the file has moved on (PatchActuator.ts).  The file is *)
(* read through the virtual file system, whose RAM half is the set of      *)
(* unsaved buffers the last submission of ANY session brought along.       *)
(*                                                                         *)
(* One file.  A text is a sequence of lines; a line has a word and a form: *)
(* "plain", "pad" (the same with trailing blanks) or "near" (the same up   *)
(* to a small difference inside).  No word begins or ends another one, so  *)
(* a search matches whole lines; for the fuzzy pass a word has a weight,   *)
(* its share of the characters, and different words share none.  Digests   *)
(* compare texts; they forget line ends and a leading byte-order mark,     *)
(* which texts here do not have.                                           *)
(***************************************************************************)
EXTENDS Naturals, Sequences, SequencesExt, FiniteSets

CONSTANTS
    Sessions,       \* conversations that edit the file
    FirstText,      \* the file before anyone touches it
    Blocks,         \* the edits the model may write: [search, replace, fenced, glued]
    LightWords,     \* words of little weight beside the others
    Python,         \* the file is a .py file
    MaxTyped,       \* lines the user adds
    MaxSteps        \* plan steps on the file, per session

VARIABLES
    doc,            \* the text in the editor
    disk,           \* the saved text
    ram,            \* VFSMiddleware._ram_vfs for the file, or NoText
    stage,          \* per session: idle, generate, parse, card
    reply,          \* per session: the reply as sent and as received
    pending,        \* per session: pending_contents of the file, or NoText
    base,           \* per session: the text behind pending_base_hash, or NoText
    draft,          \* per session: how the text on the card was made
    steps,          \* per session: plan steps begun
    typed           \* lines the user has added

editVars == <<doc, disk, ram, stage, reply, pending, base, draft, steps, typed>>

NoText == << <<>> >>
NoReply == [sent |-> <<>>, heard |-> <<>>]
NoDraft == [edits |-> <<>>, anchor |-> NoText, prior |-> FALSE, swallowed |-> 0]
Line(word) == [word |-> word, form |-> "plain"]
Blank == Line("")
Mine == Line("mine")

---------------------------------------------------------------------------
(* Parsing the reply.  A reply is a sequence of tokens: the four structural *)
(* marker lines, a code line that a terminator is glued to, and code.       *)

Token(kind, line) == [kind |-> kind, line |-> line]
Mark(kind) == Token(kind, Line("marker"))
Fence == Line("fence")

\* The tokens of one block as the model writes it.
Written(block) ==
    LET Code(lines) == [i \in DOMAIN lines |-> Token("code", lines[i])]
        body == Code(IF block.fenced THEN <<Fence>> \o block.replace \o <<Fence>>
                     ELSE block.replace)
        tail == IF block.glued /\ body # <<>>
                THEN [body EXCEPT ![Len(body)].kind = "glued"]
                ELSE Append(body, Mark("end"))
    IN  <<Mark("edit"), Mark("search")>> \o Code(block.search) \o <<Mark("divider")>> \o tail

TrimBlank(lines) ==
    LET solid == {i \in DOMAIN lines : lines[i] # Blank}
    IN  IF solid = {} THEN <<>>
        ELSE SubSeq(lines, CHOOSE i \in solid : \A j \in solid : i <= j,
                           CHOOSE i \in solid : \A j \in solid : i >= j)

\* A block loses the blank lines at its borders and one wrapping fence.
CleanBlock(lines) ==
    LET trimmed == TrimBlank(lines)
        fenced == Len(trimmed) >= 2 /\ Head(trimmed) = Fence /\ Last(trimmed) = Fence
    IN  IF fenced THEN TrimBlank(SubSeq(trimmed, 2, Len(trimmed) - 1)) ELSE trimmed

\* One line of the scan: at is the marker the parser is looking for.
Scan(p, t) ==
    LET emit(lines) == [at |-> "edit", search |-> <<>>, replace |-> <<>>,
                        edits |-> Append(p.edits, [search |-> CleanBlock(p.search),
                                                   replace |-> CleanBlock(lines)])]
    IN  CASE p.at = "edit"    -> IF t.kind = "edit" THEN [p EXCEPT !.at = "search"] ELSE p
          [] p.at = "search"  -> IF t.kind = "search" THEN [p EXCEPT !.at = "divider"] ELSE p
          [] p.at = "divider" -> IF t.kind = "divider" THEN [p EXCEPT !.at = "end"]
                                 ELSE [p EXCEPT !.search = Append(@, t.line)]
          [] p.at = "end"     -> CASE t.kind = "end" -> emit(p.replace)
                                   [] t.kind = "glued" -> emit(Append(p.replace, t.line))
                                   [] OTHER -> [p EXCEPT !.replace = Append(@, t.line)]

\* The edits of a reply.  What is still open when the reply ends is dropped.
ParseBlocks(tokens) ==
    FoldLeft(Scan, [at |-> "edit", search |-> <<>>, replace |-> <<>>, edits |-> <<>>], tokens).edits

---------------------------------------------------------------------------
(* Applying one edit.                                                       *)

\* The new text, and how many of the user's lines the edit took for others.
Done(text) == [ok |-> TRUE, text |-> text, swallowed |-> 0]
Refused(why) == [ok |-> FALSE, why |-> why]

Normalize(text) ==
    [i \in DOMAIN text |-> [text[i] EXCEPT !.form = IF @ = "pad" THEN "plain" ELSE @]]

\* search occurs at line i: as a substring, so its last line also matches a
\* line that goes on with blanks.
Occurs(text, search, i) ==
    /\ i + Len(search) - 1 <= Len(text)
    /\ \A k \in DOMAIN search :
           \/ text[i + k - 1] = search[k]
           \/ k = Len(search) /\ text[i + k - 1] = [search[k] EXCEPT !.form = "pad"]

\* str.count: occurrences that do not overlap, from the left.
Count(text, search) ==
    LET from[i \in 1..(Len(text) + Len(search) + 1)] ==
            IF i > Len(text) THEN 0
            ELSE IF Occurs(text, search, i) THEN 1 + from[i + Len(search)]
            ELSE from[i + 1]
    IN  from[1]

FirstOf(places) == CHOOSE i \in places : \A j \in places : i <= j

\* str.replace of the first occurrence; an empty replacement leaves the line
\* break behind, and blanks after the match stay.
ReplaceFirst(text, search, replace) ==
    LET i == FirstOf({j \in DOMAIN text : Occurs(text, search, j)})
        last == i + Len(search) - 1
        body == IF replace = <<>> THEN <<Blank>> ELSE replace
        kept == text[last] # search[Len(search)]
        new == IF kept THEN [body EXCEPT ![Len(body)].form = "pad"] ELSE body
    IN  SubSeq(text, 1, i - 1) \o new \o SubSeq(text, last + 1, Len(text))

ApplySearchReplace(text, search, replace) ==
    LET exact == Count(text, search)
        loose == Count(Normalize(text), Normalize(search))
    IN  CASE exact = 1 -> Done(ReplaceFirst(text, search, replace))
          [] exact > 1 -> Refused("ambiguous")
          [] exact = 0 /\ loose = 1 ->
                 Done(ReplaceFirst(Normalize(text), Normalize(search), Normalize(replace)))
          [] exact = 0 /\ loose > 1 -> Refused("ambiguous")
          [] OTHER -> Refused("not found")

Lines(text) == Cardinality({i \in DOMAIN text : text[i] = Mine})

\* The characters of a line and those two lines have in common.
Weight(line) == (IF line.word \in LightWords THEN 1 ELSE 10) + (IF line.form = "pad" THEN 1 ELSE 0)
Common(a, b) ==
    IF a.word # b.word THEN 0
    ELSE IF (a.form = "near") # (b.form = "near") THEN Weight(Line(a.word)) - 1
    ELSE IF a.form = b.form THEN Weight(a) ELSE Weight(Line(a.word))

Total(text) ==
    LET T[i \in 0..Len(text)] == IF i = 0 THEN 0 ELSE T[i - 1] + Weight(text[i])
    IN  T[Len(text)]

\* What the matching blocks of two texts add up to: their best alignment in order,
\* row[j] being the best of the lines so far with the first j lines of t.
Matching(s, t) ==
    LET Extend(row, line) ==
            [j \in 0..Len(t) |-> Max({row[j]} \cup {row[k - 1] + Common(line, t[k]) : k \in 1..j})]
    IN  FoldLeft(Extend, [j \in 0..Len(t) |-> 0], s)[Len(t)]

\* SequenceMatcher's ratio, 2 * matching / total, is at least 0.90.
Resembles(window, search) == 20 * Matching(window, search) >= 9 * (Total(window) + Total(search))

\* The window of a search's length at line i; a shorter text is its only window.
WindowAt(text, i, n) == SubSeq(text, i, IF i + n - 1 < Len(text) THEN i + n - 1 ELSE Len(text))
Places(text, n) == 1..(IF Len(text) > n THEN Len(text) - n + 1 ELSE 1)

\* The fuzzy pass: the first window that resembles the search best as a whole,
\* replaced as a whole, a line the user typed inside it included.
FuzzyFindAndReplace(text, search, replace) ==
    LET n == Len(search)
        w(i) == WindowAt(text, i, n)
        same == [i \in Places(text, n) |-> Matching(w(i), search)]
        all == [i \in Places(text, n) |-> Total(w(i)) + Total(search)]
        at == FirstOf({i \in DOMAIN same : \A j \in DOMAIN same : same[i] * all[j] >= same[j] * all[i]})
    IN  IF text = <<>> \/ search = <<>> THEN Refused("not found")
        ELSE IF ~Resembles(w(at), search) THEN Refused("not found")
        ELSE [Done(SubSeq(text, 1, at - 1) \o replace \o SubSeq(text, at + n, Len(text)))
                EXCEPT !.swallowed = Lines(w(at))]

ValidatePythonSyntax(text) == Python => \A i \in DOMAIN text : text[i].word # "bad"

ApplyPatch(text, edit) ==
    LET first == ApplySearchReplace(text, edit.search, edit.replace)
        result == IF ~first.ok /\ first.why = "not found"
                  THEN FuzzyFindAndReplace(text, edit.search, edit.replace)
                  ELSE first
    IN  IF result.ok /\ ~ValidatePythonSyntax(result.text) THEN Refused("syntax") ELSE result

\* An anchor too short to find anything means the whole new content.
Short(search) == \A i \in DOMAIN search : search[i].word \in {"", "brief"}

ApplyEdit(text, edit) ==
    IF Short(edit.search) THEN Done(edit.replace) ELSE ApplyPatch(text, edit)

---------------------------------------------------------------------------
(* The file, the editor and the virtual file system.                        *)

\* VFSMiddleware.read: the unsaved buffer before the disk.
VfsRead == IF ram # NoText THEN ram ELSE disk

Type ==
    /\ typed < MaxTyped
    /\ typed' = typed + 1
    /\ \E i \in 0..Len(doc) : doc' = SubSeq(doc, 1, i) \o <<Mine>> \o SubSeq(doc, i + 1, Len(doc))
    /\ UNCHANGED <<disk, ram, stage, reply, pending, base, draft, steps>>

Save ==
    /\ disk # doc
    /\ disk' = doc
    /\ UNCHANGED <<doc, ram, stage, reply, pending, base, draft, steps, typed>>

\* A submission brings the dirty buffers of its editor; the buffers of every
\* earlier submission are cleared first.
Submit(s) ==
    /\ stage[s] = "idle" /\ steps[s] < MaxSteps
    /\ ram' = IF doc # disk THEN doc ELSE NoText
    /\ stage' = [stage EXCEPT ![s] = "generate"]
    /\ UNCHANGED <<doc, disk, reply, pending, base, draft, steps, typed>>

\* Where the mission goes when a step is over: to its next step, or to rest.
Rest(s, begun) == IF begun < MaxSteps THEN {"generate", "idle"} ELSE {"idle"}

\* The model answers from the file's latest text, or its answer is cut off
\* somewhere; or the prompt does not fit, or the call fails, and so does the step.
GenerateFails(s) ==
    /\ stage[s] = "generate"
    /\ steps' = [steps EXCEPT ![s] = @ + 1]
    /\ \E next \in Rest(s, steps[s] + 1) : stage' = [stage EXCEPT ![s] = next]
    /\ UNCHANGED <<doc, disk, ram, reply, pending, base, draft, typed>>

Generate(s) ==
    /\ stage[s] = "generate"
    /\ \E b \in Blocks, more \in {<<>>} \cup {Written(c) : c \in Blocks} :
          LET sent == Written(b) \o more IN
          \E n \in {Len(sent), Len(sent) - 1, Len(Written(b)) - 1} :
             reply' = [reply EXCEPT ![s] = [sent |-> sent, heard |-> SubSeq(sent, 1, n)]]
    /\ stage' = [stage EXCEPT ![s] = "parse"]
    /\ steps' = [steps EXCEPT ![s] = @ + 1]
    /\ UNCHANGED <<doc, disk, ram, pending, base, draft, typed>>

\* The edits go to a local copy that starts from this session's own earlier
\* draft of the file, if there is one; the stale guard is anchored to what the
\* virtual file system says now.
ApplyEdits(s) ==
    LET prior == pending[s] # NoText
        anchor == IF prior THEN pending[s] ELSE VfsRead
        edits == ParseBlocks(reply[s].heard)
        Apply(sofar, edit) ==
            LET r == ApplyEdit(IF sofar.text = NoText THEN anchor ELSE sofar.text, edit)
            IN  IF r.ok THEN [r EXCEPT !.swallowed = @ + sofar.swallowed] ELSE sofar
    IN  /\ stage[s] = "parse"
        /\ \E result \in {FoldLeft(Apply, Done(NoText), edits)} :
              LET changed == result.text \notin {NoText, VfsRead} IN
              /\ pending' = [pending EXCEPT ![s] = IF changed THEN result.text ELSE @]
              /\ base' = [base EXCEPT ![s] = IF changed THEN VfsRead ELSE @]
              /\ draft' = [draft EXCEPT ![s] =
                             IF changed THEN [edits |-> edits, anchor |-> anchor, prior |-> prior,
                                              swallowed |-> result.swallowed]
                             ELSE NoDraft]
              /\ \E next \in IF changed THEN {"card"} ELSE Rest(s, steps[s]) :
                    stage' = [stage EXCEPT ![s] = next]
        /\ reply' = [reply EXCEPT ![s] = NoReply]
        /\ UNCHANGED <<doc, disk, ram, steps, typed>>

\* Mutant: the host writes whatever the editor holds by now.
ClassifyUnguarded(current, baseline, new) ==
    IF current = new THEN "already-applied" ELSE "write"

\* classifyPatchEdit: the editor's text against the digest of the proposal.
ClassifyPatchEdit(current, baseline, new) ==
    CASE current = baseline -> "write"
      [] current # baseline /\ current = new -> "already-applied"
      [] OTHER -> "stale"

\* The human approves, as it stands or with a change of their own.  A write is
\* saved at once and the guard re-anchored to the draft; a stale file is left
\* alone and fails the step.  The draft stays in pending_contents either way.
Approve(s, new) ==
    LET verdict == ClassifyPatchEdit(doc, base[s], new) IN
    /\ stage[s] = "card"
    /\ doc' = IF verdict = "write" THEN new ELSE doc
    /\ disk' = IF verdict = "write" THEN new ELSE disk
    /\ base' = [base EXCEPT ![s] = IF verdict = "stale" THEN @ ELSE new]
    /\ \E next \in Rest(s, steps[s]) : stage' = [stage EXCEPT ![s] = next]
    /\ draft' = [draft EXCEPT ![s] = NoDraft]
    /\ UNCHANGED <<ram, reply, pending, steps, typed>>

Reject(s) ==
    /\ stage[s] = "card"
    /\ \E next \in Rest(s, steps[s]) : stage' = [stage EXCEPT ![s] = next]
    /\ draft' = [draft EXCEPT ![s] = NoDraft]
    /\ UNCHANGED <<doc, disk, ram, reply, pending, base, steps, typed>>

EditsInit ==
    /\ doc = FirstText /\ disk = FirstText /\ ram = NoText
    /\ stage = [s \in Sessions |-> "idle"]
    /\ reply = [s \in Sessions |-> NoReply]
    /\ pending = [s \in Sessions |-> NoText]
    /\ base = [s \in Sessions |-> NoText]
    /\ draft = [s \in Sessions |-> NoDraft]
    /\ steps = [s \in Sessions |-> 0]
    /\ typed = 0

EditsNext ==
    \/ Type \/ Save
    \/ \E s \in Sessions :
          \/ Submit(s) \/ Generate(s) \/ GenerateFails(s) \/ ApplyEdits(s)
          \/ Approve(s, pending[s]) \/ Approve(s, Append(pending[s], Mine))
          \/ Reject(s)

EditsSpec == EditsInit /\ [][EditsNext]_editVars

---------------------------------------------------------------------------
(* Properties.                                                              *)

\* A reply that was cut off yields whole edits only: what is parsed from the
\* part that arrived is an initial segment of what the whole reply says.
CutRepliesKeepWholeEdits ==
    \A s \in Sessions :
        IsPrefix(ParseBlocks(reply[s].heard), ParseBlocks(reply[s].sent))

\* A text made by one anchored edit differs from the text it was anchored on in
\* one window only, which is the searched text up to trailing blanks or resembles
\* it by nine tenths; the rest is the same up to trailing blanks, whichever of the
\* three passes found the place.
EditIsLocal ==
    \A s \in Sessions :
        (stage[s] = "card" /\ Len(draft[s].edits) = 1 /\ ~Short(draft[s].edits[1].search)) =>
            LET text == draft[s].anchor
                old == Normalize(text)
                new == Normalize(pending[s])
                search == draft[s].edits[1].search
                n == Len(search)
            IN  \E i \in DOMAIN old :
                   /\ IsPrefix(SubSeq(old, 1, i - 1), new)
                   /\ IsSuffix(SubSeq(old, i + n, Len(old)), new)
                   /\ \/ WindowAt(old, i, n) = Normalize(search)
                      \/ i \in Places(text, n) /\ Resembles(WindowAt(text, i, n), search)

\* Lines the user adds while the model generates or the card is up are not lost
\* when the first anchored draft of a file lands: either they were in the text the
\* draft was made from, or the host refuses the write.  The one way to lose one is
\* that the user saved it inside a window that the fuzzy pass still takes for the
\* searched block: what that pass swallowed, and no more, is gone.
FirstDraftLands ==
    \A s \in Sessions :
        ( /\ stage[s] = "card" /\ stage'[s] # "card" /\ doc' # doc
          /\ ~draft[s].prior
          /\ \A i \in DOMAIN draft[s].edits : ~Short(draft[s].edits[i].search) )
        => Lines(doc') >= Lines(doc) - draft[s].swallowed

\* A comment in coder.py says that a later step builds on the earlier ones "or
\* sequential same-file edits would each read the original and clobber each
\* other", with the guard anchored to the true file: no landing loses a line the
\* user added, but for those the fuzzy pass swallowed.
UserEditsSurvive ==
    [][\A s \in Sessions :
          ( /\ stage[s] = "card" /\ stage'[s] # "card" /\ doc' # doc
            /\ \A i \in DOMAIN draft[s].edits : ~Short(draft[s].edits[i].search) )
          => Lines(doc') >= Lines(doc) - draft[s].swallowed]_editVars
=============================================================================

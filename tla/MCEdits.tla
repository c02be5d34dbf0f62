------------------------------ MODULE MCEdits ------------------------------
EXTENDS Edits
MCPlain(w) == [word |-> w, form |-> "plain"]
MCNear(w) == [word |-> w, form |-> "near"]
MCText == <<MCPlain("a"), [word |-> "b", form |-> "pad"], MCNear("a"), MCPlain("end")>>
MCBlock(s, r, f, g) == [search |-> s, replace |-> r, fenced |-> f, glued |-> g]
MCBlocks == {MCBlock(<<MCPlain("a")>>, <<MCPlain("c")>>, FALSE, TRUE),
             MCBlock(<<MCPlain("a"), MCPlain("b")>>, <<>>, FALSE, FALSE),
             MCBlock(<<MCPlain("b"), MCNear("a"), MCPlain("end")>>, <<MCPlain("b"), MCPlain("c")>>, TRUE, FALSE),
             MCBlock(<<MCPlain("c")>>, <<MCPlain("bad")>>, FALSE, FALSE),
             MCBlock(<<MCPlain("brief")>>, <<MCPlain("a"), MCPlain("a")>>, FALSE, FALSE)}
=============================================================================

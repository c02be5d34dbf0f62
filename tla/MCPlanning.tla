----------------------------- MODULE MCPlanning -----------------------------
EXTENDS Planning
Task(n, a, f, d) == [num |-> n, action |-> a, file |-> f, deps |-> d, noted |-> FALSE]
App == <<"src", "app">>
\* A plan that writes a file before it edits it, and one that edits it first.
MCOrdered == [tasks |-> <<Task(1, "write_file", App, {}), Task(2, "edit_file", App, {1})>>,
              scope |-> {<<".", "src">>}]
MCPlans == {MCOrdered,
            [tasks |-> <<Task(1, "edit_file", App, {}), Task(2, "write_file", App, {})>>,
             scope |-> {<<"src">>}]}
MCPolyglot == {App}
=============================================================================

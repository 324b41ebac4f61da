------------------------------ MODULE MCDialogues ------------------------------
(* Small dialogues: two tools, declared in different places and kinds. *)
EXTENDS Dialogues

Tool(name, kind) == [name |-> name, kind |-> kind]
Declared(top, embedded) == [top |-> top, embedded |-> embedded]

Functions == Declared(<<Tool("f", "function"), Tool("g", "function")>>, <<>>)

\* Custom tools at the top level, embedded, twice, under the name of a
\* function, and beside a tool of a kind that is skipped.
Declarations ==
  {Declared(<<Tool("f", "function"), Tool("c", "custom")>>, <<>>),
   Declared(<<Tool("f", "function"), Tool("w", "web_search")>>,
            <<Tool("c", "custom"), Tool("f", "function")>>),
   Declared(<<Tool("f", "function")>>, <<Tool("f", "custom")>>)}

===============================================================================

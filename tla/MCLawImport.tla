----------------------------- MODULE MCLawImport -----------------------------
EXTENDS LawImport

CONSTANTS NoNum, l1, w1, w2

X == INSTANCE XmlExtract

(* Two editions that differ in an article, and one with the provisions of  *)
(* two amending laws, each starting again at article 1.                    *)
Edition1 == [main |-> <<X!Element(1, <<1>>), X!Element(NoNum, <<>>), X!Element(2, <<>>)>>,
             suppl |-> << <<X!Element(1, <<0>>)>> >>]
Edition2 == [main |-> <<X!Element(1, <<0>>)>>, suppl |-> << <<X!Element(1, <<>>)>> >>]
Amended  == [main |-> <<X!Element(1, <<>>)>>,
             suppl |-> << <<X!Element(1, <<>>)>>, <<X!Element(1, <<>>), X!Element(2, <<>>)>> >>]

MCDocs    == {Edition1, Edition2}
MCAmended == {Amended}
MCMajorLaws == <<l1>>
MCNumbers == {"main", "suppl"} \X {1, 2}
MCExtract == [d \in Docs |-> X!extractArticlesFromXML(d)]
=============================================================================

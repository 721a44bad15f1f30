----------------------------- MODULE MCMessage -----------------------------
(* Instances of Message for TLC: bytes of two payload bits, widths of 3, 4 *)
(* and 6 bits for 16, 32 and 64, and every number of each width.           *)
EXTENDS Message

MCTexts == {<<>>, <<0>>, <<5, 7>>, <<4, 0, 1, 2>>}
MCLists == {<<>>, <<63>>, <<0, 4, 17>>}
MCTextLists == {<<>>, <<<<>>>>, <<<<5, 7>>, <<4>>>>}
MCMaps == {<<>>, [k \in {9} |-> 0], [k \in {3, 20, 4} |-> 60 - k]}
MCSamples == {<<0, 0>>, <<7, 4>>, <<3, 6>>}
MCSpell == [t \in Topics \cup {"probe"} |-> <<3>>]
MCPick ==
    [string |-> <<<<1>>, <<5, 7>>>>, uint32 |-> <<15, 6>>, bool |-> <<TRUE, FALSE>>,
     strings |-> <<<<<<2>>>>, <<<<>>, <<6, 3>>>>>>]
MCHeaders == {<<63, -32>>, <<5, 7>>}
MCResults == {-4, 0, 3}
AnyResult == Signed(Word)
AllTopics == {l[1].router : l \in Links}

=============================================================================

------------------------------ MODULE MCStateMemory ------------------------------
(***************************************************************************)
(* Two changes of one chapter and one of the next, about three subjects: a *)
(* person who moves and knows ever more, another whose name makes the same *)
(* file, and a place.                                                      *)
(***************************************************************************)
EXTENDS StateMemory

MCItems == {<<3, 1>>, <<3, 2>>, <<4, 1>>}
One(x) == [list |-> FALSE, of |-> <<x>>]
Many(xs) == [list |-> TRUE, of |-> xs]
MCContents ==
    {[subject |-> "lin_zhao", fields |-> [place |-> One("lab"), known_facts |-> Many(<<"p">>)]],
     [subject |-> "lin_zhao", fields |-> [place |-> One("dorm"), known_facts |-> Many(<<"q", "p">>)]],
     [subject |-> "lin zhao", fields |-> [place |-> One("dorm")]],
     [subject |-> "base", fields |-> [place |-> One("lab")]]}
MCSubjects == <<"base", "lin zhao", "lin_zhao">>
MCByPriority == <<"lin zhao", "lin_zhao", "base">>
MCFileOf(s) == IF s = "base" THEN "base.json" ELSE "lin_zhao.json"
MCAdditive == {"known_facts"}
MCSize(snapshot) == 4 * Cardinality(DOMAIN snapshot.fields)
\* Nothing yet; or two changes a human approved, the first about the person who moves, and a candidate between them.
Item(status, content) == [status |-> status, content |-> content, version |-> 1]
Beginning == {c \in [MCItems -> MCContents] : c[<<3, 1>>].subject = "lin_zhao"}
MCBeginnings == {[i \in MCItems |-> NoItem]} \union
    {[i \in MCItems |-> Item(IF i = <<3, 2>> THEN "candidate" ELSE "active", c[i])] : c \in Beginning}

MCSymmetry == Permutations(Users)
==============================================================================

-------------------------- MODULE MCNetworkProcessor --------------------------
(***************************************************************************)
(* Small trees of blocks and peers for the model checker: a line of four    *)
(* blocks after the genesis, and a line of three with a heavier fork.       *)
(***************************************************************************)
EXTENDS NetworkProcessor

CONSTANTS g, b1, b2, b3, b4, f2, f3, f4, p1, p2

Line == <<g, b1, b2, b3, b4>>
Fork == <<g, b1, f2, f3, f4>>

\* The blocks of the two lines, cut at the height given.
Blocks(lineTop, forkTop) ==
    {Line[n + 1] : n \in 0..lineTop} \cup {Fork[n + 1] : n \in 0..forkTop}

Position(h) == CHOOSE n \in 0..4 : Line[n + 1] = h \/ Fork[n + 1] = h

ParentIn(S) ==
    [h \in S \ {g} |-> IF h \in Elements(Line) THEN Line[Position(h)] ELSE Fork[Position(h)]]
HeightIn(S) == [h \in S |-> Position(h)]
SizeIn(S) == [h \in S |-> IF h \in {b2, b4} THEN 2 ELSE 1]

LineHash == Blocks(4, 0)
LineParent == ParentIn(LineHash)
LineHeight == HeightIn(LineHash)
LineSize == SizeIn(LineHash)

ForkHash == Blocks(3, 4)
ForkParent == ParentIn(ForkHash)
ForkHeight == HeightIn(ForkHash)
ForkSize == SizeIn(ForkHash)

BothAtB4 == {[p \in {p1, p2} |-> b4]}
OnTheLine == {[p \in {p1, p2} |-> b3]}
=============================================================================

----------------------------- MODULE MCMeshStack -----------------------------
(* The situations that the run of MeshStack begins with.                    *)
EXTENDS MeshStack, TLC

CONSTANTS a, b, c

Times(i, j, k) == a :> i @@ b :> j @@ c :> k

\* Two nodes on a bad channel, which know of a third one that is gone.
Pair == [settled |-> a :> 0 @@ b :> 1, gone |-> {2}, quiet |-> FALSE, enabled |-> BOOLEAN,
         starts |-> Times(0, 0, 0), frames |-> Times(1, 0, 0)]

\* Three nodes: two may send to the same one, or acknowledge to the wrong one.
Trio == [settled |-> a :> 0 @@ b :> 1 @@ c :> 2, gone |-> {}, quiet |-> TRUE,
         enabled |-> BOOLEAN, starts |-> Times(0, 0, 0), frames |-> Times(1, 1, 0)]

\* A node joins another one, which reads more frames than it has room for.
Second == [settled |-> a :> 0, gone |-> {1}, quiet |-> TRUE, enabled |-> {FALSE},
           starts |-> Times(0, 1, 0), frames |-> Times(2, 0, 0)]

\* A node joins two that exchange a frame.
Third == [settled |-> a :> 0 @@ b :> 1, gone |-> {}, quiet |-> TRUE, enabled |-> {FALSE},
          starts |-> Times(0, 0, 1), frames |-> Times(1, 0, 0)]

\* A node finds no free id.
Full == [settled |-> a :> 0, gone |-> {1, 2}, quiet |-> TRUE, enabled |-> BOOLEAN,
         starts |-> Times(0, 1, 0), frames |-> Times(0, 1, 0)]

AllScenarios == {Pair, Trio, Second, Third, Full}

\* The two fragments of a's frame are equal, that of b's frame is shorter.
LongAndShort == a :> {4} @@ b :> {1} @@ c :> {}

ZeroFilled(byte) == 0

LossyAndLate == {"loss", "late"}
=============================================================================

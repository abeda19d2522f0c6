--------------------------- MODULE MCFetchSession ---------------------------
(* The instance of FetchSession for TLC: a text, a file, a folder with an   *)
(* empty file in it, a folder of directories only, and sources that fail    *)
(* unchanged: a file the origin may not be able to read and a folder with   *)
(* a name the origin refuses.                                               *)
EXTENDS FetchSession

Shape(kind, size) == [kind |-> kind, size |-> size, walkable |-> TRUE, readable |-> TRUE]

MCShapes ==
  {Shape("text", <<2>>), Shape("file", <<1>>),
   Shape("folder", <<2, 0, 1>>), Shape("folder", <<>>),
   [Shape("file", <<1>>) EXCEPT !.readable = FALSE],
   [Shape("folder", <<>>) EXCEPT !.readable = FALSE],
   [Shape("folder", <<1>>) EXCEPT !.walkable = FALSE]}
=============================================================================

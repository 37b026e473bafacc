------------------------------- MODULE MCHeap -------------------------------
(* The program of Heap.tla with the calls that a cfg cannot write down.    *)
EXTENDS Heap

\* No element, or elements that are large: none comes out of a fastbin.
LargeElements == {<<>>, <<7>>}

\* One element of the smallest size.
FastElement == {<<3>>}

MoreFast == {<<"M_MXFAST", 5>>}
NoOption == {}
=============================================================================

-------------------------- MODULE MCWatchlistEngine --------------------------
(***************************************************************************)
(* WatchlistEngine with one entry, two consoles and two cameras, one of    *)
(* which has no jurisdiction.                                              *)
(***************************************************************************)
EXTENDS WatchlistEngine

CONSTANTS w1, cam1, cam2, c1, c2

Hits(camera, bad) == [hits |-> <<w1>>, camera |-> camera, bad |-> bad]

\* a hit on either camera, and one whose numbers do not parse
MCKinds == {Hits(cam1, FALSE), Hits(cam2, FALSE), Hits(cam1, TRUE)}

MCScope == [c \in Consoles |-> {cam1}]
=============================================================================

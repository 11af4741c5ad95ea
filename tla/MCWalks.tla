------------------------------- MODULE MCWalks -------------------------------
(***************************************************************************)
(* Instances of Walks: the servers that page as documented, with page caps *)
(* at and below what a walk asks for, and all the others.                  *)
(***************************************************************************)
EXTENDS Walks

MCServers == [pages : {"exclusive"}, cap : {1, 2, 3}]
               \cup [pages : {"inclusive", "deaf", "erratic"}, cap : {2}]
OneByOneServer == [pages : {"exclusive"}, cap : {1}]
=============================================================================

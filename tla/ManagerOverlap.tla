--------------------------- MODULE ManagerOverlap ---------------------------
(***************************************************************************)
(* The requests of Manager together with the history of which of them met  *)
(* another one.  Two requests that overlap may leave files, memory and     *)
(* collector from different requests; this module says when that ends.     *)
(***************************************************************************)
EXTENDS Manager

VARIABLE overlapped  \* history: those in flight that were not alone all along

\* A step at whose beginning or end another request is in flight is an overlap.
Meets(c) == \E d \in Clients \ {c} : req[d] # Idle \/ req'[d] # Idle

OverlapInit == Init /\ overlapped = {}

OverlapNext ==
  /\ Next
  /\ overlapped' = {c \in Clients : req'[c] # Idle /\ (c \in overlapped \/ Meets(c))}

OverlapSpec == OverlapInit /\ [][OverlapNext]_<<vars, overlapped>>

-----------------------------------------------------------------------------
\* Whatever mix of two requests' files, memory and collector earlier overlaps,
\* failed writes and crashes have left, a request that met no other one has put
\* all four in agreement when it is answered: Save and apply write, build and
\* publish everything anew, also what the request did not change.
AloneAgrees ==
  \A c \in Clients \ overlapped :
    req[c].pc = "refresh"
      => DiskIsMemory /\ collector = BootCollector(Effective(cfg, secrets))
=============================================================================

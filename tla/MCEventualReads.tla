-------------------------- MODULE MCEventualReads --------------------------
(***************************************************************************)
(* EventualReads for TLC.                                                  *)
(***************************************************************************)
EXTENDS EventualReads, MCRunFunction, TLC

\* The situations that write to the store or depend on it: rendered and not
\* yet created, created, backed up, renamed since, switched to Delete.
WritingSituations ==
  {<<Rendered(Orphan), NoObject>>,
   <<Rendered(Orphan), Live(Orphan)>>,
   <<Rendered(Orphan), Stored(Orphan)>>,
   <<Rendered(Orphan), [Stored(Orphan) EXCEPT !.ext = e2]>>,
   <<Rendered(Delete), Stored(Orphan)>>}

WritingRequests ==
  UNION {{Drive(FALSE, FALSE, FALSE, "orphaned", s),
          Drive(TRUE, TRUE, FALSE, "orphaned", s),
          Drive(TRUE, FALSE, TRUE, "orphaned", s),
          Drive(TRUE, FALSE, FALSE, "orphaned", s),
          Drive(TRUE, FALSE, FALSE, "all", s)} :
         s \in [Resources -> WritingSituations]}

AlikeCalls == Permutations(Calls)
===========================================================================

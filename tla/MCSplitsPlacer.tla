---------------------------- MODULE MCSplitsPlacer ----------------------------
(* One SplitsPlacer with two RUs. *)
EXTENDS SplitsPlacer

CONSTANTS p, q, s1, s2

MCSplitName == <<s1, s2>>

(* Fresh objects, and one whose first RU was given a position by hand. *)
MCInitialRUs == {<<NoPosition, NoPosition>>, <<q, NoPosition>>}

FreshRUs == {<<NoPosition, NoPosition>>}

(* Place may choose either position, or reject an RU; on another input all
   candidates but one are ruled out. *)
MCOutcomes == {{<<p, q>>, <<q, q>>, <<p, NoPosition>>, <<NoPosition, NoPosition>>},
               {<<p, NoPosition>>}}

(* The first RU may go either way, and one of them leaves no room for the
   second. *)
ContendedOutcomes == {{<<p, q>>, <<q, NoPosition>>}}

OneOutcome == {{<<p, NoPosition>>}}
===============================================================================

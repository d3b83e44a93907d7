------------------------------- MODULE MCCatchup -------------------------------
(***************************************************************************)
(* A windowed source read every day and a sitemap read once a week. The    *)
(* week has two days here and the overlaps are in proportion: a daily one  *)
(* that makes up for one missed day and a weekly one that reaches beyond   *)
(* its week but not over two. A slice has two days, so a backfill of three *)
(* days is two slices of the windowed source and one run of the sitemap.   *)
(***************************************************************************)
EXTENDS Catchup, TLC

MCSources   == <<"federal_register", "aicpa">>
MCDaily     == <<"federal_register">>
MCWeekdayOf == "aicpa" :> 1
MCOverlap   == ("federal_register" :> 2) @@ ("aicpa" :> 3)
===============================================================================

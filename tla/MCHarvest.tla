------------------------------ MODULE MCHarvest ------------------------------
(***************************************************************************)
(* A home with an excluded directory, a plain one with a file and a link,  *)
(* and one file that is a root of its own.  Files of up to three cells,    *)
(* with a limit of two.                                                    *)
(***************************************************************************)
EXTENDS Harvest

MCNode == {"home", "git", "conf", "object", "link", "token", "history"}
MCRoots == <<"home", "history">>
MCDirs == {"home", "git", "conf"}
MCChildren == [home |-> {"git", "conf"}, git |-> {"object"}, conf |-> {"token", "link"}]
MCExcluded == {"git"}
MCFiles == {"object", "token", "history"}
MCContents == {<<"s1">>, <<"", "s2">>, <<"s1", "s2", "">>}
MCGone == <<"gone">>
=============================================================================

-------------------------------- MODULE MCCli --------------------------------
(***************************************************************************)
(* Command lines of up to three arguments; files of up to two characters;  *)
(* messages that fit into the buffer with the file's name or only without, *)
(* with room for all but the terminator, and not at all.                   *)
(***************************************************************************)
EXTENDS Cli, SequencesExt

MCChars    == {"x", "y", "n", "s", "p", "m"}
MCArgs     == BoundedSeq(Arg, 3)
MCContents == {<<>>, <<"x">>, <<"x", "y">>}
MCName     == <<"n", "n">>
MCReports  == [by \in LibErrors |->
                 {<<"m">>} \cup IF by = "scan" THEN {}
                                ELSE {<<"m", "m", "m">>, <<"m", "m", "m", "m">>}]

=============================================================================

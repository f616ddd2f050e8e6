------------------------------ MODULE MCExercises ------------------------------
(***************************************************************************)
(* Instances of Exercises for TLC.                                         *)
(***************************************************************************)
EXTENDS Exercises

CONSTANTS e1, e2, p1, m1, m2

MCAccept == {"none", "text", "xml", "json", "other"}

\* Every word the handlers compare with, a beginning, and others.
MCWord == {<<>>, <<"r">>, <<"g">>, <<"o">>, <<"o", "n">>, <<"o", "f", "f">>,
           <<"r", "s">>, <<"r", "s", "s", "i">>, <<"x">>}
MCReading == {-1, 0, 65536}

\* Around each whole degree near zero, and the ends of 14 bits.
MCRaw == {0, 16383} \cup 3850 .. 4070

MCLenArg == {-1} \cup 0 .. 65 \cup {255, 256, 257, 320}

\* Up to four writes, which end before, at or after the end of the payload; of
\* those in a line that was begun, a byte's two digits and the line's end.
MCWrite == [length: {1, 31, 32, 63, 64, 65}, guarded: {TRUE}] \cup [length: {1, 2}, guarded: {FALSE}]
MCRequest == UNION {{writes \in [1 .. n -> MCWrite] : writes[1].guarded} : n \in 1 .. 4}

MCTemp == {-1, 0, 1}
MCResourceIds == {<<>>, <<"value">>, <<"units">>, <<"other">>, <<"units", "other">>,
                  <<"other", "value">>, <<"value", "units">>}

\* Every sign and remainder.
MCTemperature == {-123, -120, -5, 0, 7, 256}
=============================================================================

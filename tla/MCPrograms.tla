------------------------------ MODULE MCPrograms ------------------------------
(***************************************************************************)
(* SmallPrograms with scripts of one or two commands, files of up to eight *)
(* bytes, and pipes and buffers that are large enough or too small.        *)
(***************************************************************************)
EXTENDS SmallPrograms

MCScripts == {<<"close">>, <<"close", "print">>, <<"print", "unknown">>}
MCSizes == {<<3, 3>>, <<3, 2>>, <<2, 1>>}
MCInputs == {None} \cup {[k \in 1..n |-> k] : n \in 0..8} \cup [1..3 -> {search, 3}]
MCOutputs == {None, <<>>, <<8, 9>>}
=============================================================================

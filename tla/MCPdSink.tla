------------------------------ MODULE MCPdSink ------------------------------
(* Offers for PdSink: sequences cannot be written in a configuration file.  *)
EXTENDS PdSink

FiveTwenty      == {<<5, 20>>}
FiveNineTwenty  == {<<5, 9, 20>>, <<5>>}
=============================================================================

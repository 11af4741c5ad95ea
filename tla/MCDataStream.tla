------------------------------ MODULE MCDataStream ------------------------------
(***************************************************************************)
(* Instances of DataStream: what a server may send, with every kind of     *)
(* message alone, behind another one and in front of another one.          *)
(***************************************************************************)
EXTENDS DataStream

MixedBatches == {<<"data">>, <<"ack">>, <<"fatal">>, <<"garbled", "data">>,
                 <<"error", "fatal", "data">>}
QuietBatches == {<<"data">>, <<"ack">>}
=============================================================================

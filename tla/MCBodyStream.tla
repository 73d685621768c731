---------------------------- MODULE MCBodyStream ----------------------------
(***************************************************************************)
(* No peek, one, and two of which the second reads further or less far.    *)
(***************************************************************************)
EXTENDS BodyStream, TLC

MCPeeks == { <<>>, <<0>>, <<3>>, <<2, 1>>, <<1, 2>> }
MCSinks == {"guarded", "plain", "buffer"}
=============================================================================

---------------------------- MODULE MCRemoteLink ----------------------------
(* The packet layer over four calls.  The reply to the first has a '-'     *)
(* before a '+', the reply to the second a '+' before a '-', and the       *)
(* others have neither.                                                    *)
EXTENDS RemoteLink

MCSigns == [p \in 0..4 |->
    CASE p = 1 -> <<"-", "+">> [] p = 2 -> <<"+", "-">> [] OTHER -> <<>>]
=============================================================================

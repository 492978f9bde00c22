-------------------------- MODULE MCHandlerCopies --------------------------
(* HandlerCopies with both classes and a few sessions.                     *)
EXTENDS HandlerCopies

CONSTANTS s1, s2, s3

MCClasses ==
    [functionif |->
        [prepared |-> <<"stmt0", "stmt1", "stmt2", "stmt3">>,
         released |-> <<"stmt3", "stmt2", "stmt1", "stmt0">>,
         close |-> "close"],
     ftd_protocalif |->
        [prepared |-> <<"fidname", "fidvalue", "tidname", "field_list", "req_field_list",
                        "rsp_field_list", "fielditem_list", "item", "type">>,
         released |-> <<"fidname", "fidvalue", "tidname", "field_list", "req_field_list",
                        "rsp_field_list", "item", "type">>,
         close |-> "close_v2"]]
=============================================================================

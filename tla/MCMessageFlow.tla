--------------------------- MODULE MCMessageFlow ----------------------------
(* Instances of MessageFlow. *)
EXTENDS MessageFlow

MCSlots == 1..3
MCConns == 1..3

MCConfig ==
    [acl_file |-> NULL, password_file |-> NULL, psk_file |-> NULL, allow_anonymous |-> TRUE,
     upgrade_outgoing_qos |-> FALSE, mount_point |-> <<>>, clientids |-> {<<"x">>, <<"y">>},
     allow_zero_length_clientid |-> TRUE, use_identity_as_username |-> FALSE,
     max_connections |-> 0]

MCQos == [m \in {"m", "n"} |-> IF m = "m" THEN 2 ELSE 1]

Load(ms, n, k) == [messages |-> ms, breaks |-> n, late |-> k]

MCLoads == {Load(<<"m">>, 1, 1), Load(<<"n">>, 1, 1), Load(<<"m", "n">>, 1, 0)}
=============================================================================

--------------------------- MODULE MCConnection ---------------------------
(***************************************************************************)
(* Calls, hosts and resolver answers with which Connection is checked.     *)
(***************************************************************************)
EXTENDS Connection

MCSetters ==
    {set_clean_session, set_keep_alive(0), set_keep_alive(9), set_last_will(1), set_username(1), set_password(1),
     set_no_delay, set_dns_timeout(4), set_tcp_connect_timeout(5), set_mqtt_connect_timeout(6),
     set_all_timeouts(1, 2, 7), set_all_timeouts_to(8),
     set_packets_resend_delay(0), set_packets_resend_delay(2), set_default_port(1883), set_default_port(21)}

\* A name, a name with a port, and the address ::1 of IPv6 with and without.
MCHosts == {<<"h">>, <<"h", 7>>, <<"[", "", "1]", 7>>, <<"", "", "1">>}

MCAddrLists == {<<>>, <<4>>, <<6, 4>>}

=============================================================================

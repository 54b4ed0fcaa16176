------------------------------ MODULE MCFraming ------------------------------
EXTENDS Framing

\* Results that fit into the client's socket buffer and Results that do not;
\* short server Results, and ones whose length ends with the byte of
\* DisplayResults.  The port of a UDP session is read long before any Results,
\* and a refused client gets to none of them.  Whether the server sends matters only
\* where wait_for_test_end fails.
MCConfigs ==
    {k \in [options : {2}, client : {2, 4}, server : {2, DisplayResults},
            port : BOOLEAN, reject : BOOLEAN, sends : BOOLEAN, calm : BOOLEAN] :
        /\ k.port => k.server = 2
        /\ k.sends => ~k.calm /\ ~k.reject /\ ~k.port /\ k.client = 2 /\ k.server = 2
        /\ k.reject => k.client = 2 /\ k.server = 2 /\ ~k.port}
=============================================================================

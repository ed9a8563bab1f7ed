---- MODULE MCNetworkSimulator ----
EXTENDS NetworkSimulator

\* The built-in topology on four-bit addresses: applesauce on one segment, dm42 and dm43
\* together on another, hs_router and default_router behind the other two.  The routes
\* to hs_router cover 10.. and the single address 1101.
Hosts == {"applesauce", "dm42", "dm43", "hs_router", "default_router"}
Ips == [applesauce |-> <<0,0,1,0>>, dm42 |-> <<0,1,1,0>>, dm43 |-> <<0,1,1,1>>,
        hs_router |-> <<1,0,0,0>>, default_router |-> <<1,1,1,1>>]
NextHops == [applesauce |-> <<0,0,0,1>>, dm42 |-> <<0,1,0,1>>, dm43 |-> <<0,1,0,1>>,
             hs_router |-> <<0,0,0,0>>, default_router |-> <<0,0,0,0>>]
Interfaces == <<<<1,1,1,0>>, <<0,0,0,1>>, <<0,1,0,1>>, <<1,0,0,1>>>>
Wires == <<<<1, <<"default_router">>>>, <<2, <<"applesauce">>>>,
           <<3, <<"dm42", "dm43">>>>, <<4, <<"hs_router">>>>>>

\* The last two entries are for one prefix: the later one counts.
Entries == {RouteEntry(<<0,0,0,0>>, 0, <<1,1,1,1>>, 1), RouteEntry(<<0,0,0,0>>, 2, Direct, 2),
            RouteEntry(<<0,1,1,1>>, 2, Direct, 3), RouteEntry(<<1,0,0,0>>, 2, <<1,0,0,0>>, 4),
            RouteEntry(<<1,1,0,1>>, 4, <<1,0,0,0>>, 4), RouteEntry(<<1,1,0,1>>, 4, <<1,1,1,1>>, 1)}

Targets == {<<0,0,1,0>>, <<0,1,1,1>>, <<1,0,1,1>>, <<1,1,0,1>>, <<1,1,1,0>>}
====

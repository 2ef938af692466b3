-------------------------- MODULE MCConfiguration --------------------------
(* An instance of Configuration for TLC: a valid configuration with one or  *)
(* two fields moved to, or over, an edge.                                   *)
EXTENDS Configuration

T(id, size) == [id |-> id, size |-> size, clean |-> TRUE]

Dirty(id) == [id |-> id, size |-> 5, clean |-> FALSE]

Default ==
    [schema |-> T(1, 8), secrets |-> <<T(2, 5), T(3, 5), T(4, 256)>>,
     directory_provider |-> T(5, 128), auth_issuer |-> T(6, 4),
     auth_public_key |-> T(7, 44),
     management_callers |-> <<<<T(8, 7)>>>>,
     authentication_callers |-> <<<<T(8, 7)>>, <<T(8, 7), T(9, 120)>>>>,
     token_audience |-> <<T(10, 9)>>,
     credential_ttl_seconds |-> 86400, rotation_overlap_seconds |-> 300,
     token_ttl_seconds |-> 900, receipt_ttl_seconds |-> 86400,
     exchange_window_seconds |-> 60, max_exchanges_per_window |-> 20,
     exchange_lockout_seconds |-> 300, max_page_size |-> 100,
     max_accounts_per_organization |-> 1000]

Edge ==
    [schema |-> {T(1, 0), T(1, 63), T(1, 64), Dirty(1)},
     secrets |-> {<<T(2, 5), T(2, 5), T(4, 9)>>, <<T(2, 5), T(3, 257), T(4, 9)>>,
                  <<T(2, 0), T(3, 5), T(4, 9)>>, <<T(2, 5), T(3, 5), Dirty(4)>>},
     directory_provider |-> {T(5, 0), T(5, 129), Dirty(5)},
     auth_issuer |-> {T(6, 0), T(6, 128), T(6, 129)},
     auth_public_key |-> {T(7, 0), T(7, 256), T(7, 257), Dirty(7)},
     management_callers |->
        {<<>>, <<<<T(8, 7)>>, <<T(8, 7)>>>>, <<<<T(8, 7), T(9, 121)>>>>,
         <<<<T(8, 0)>>>>, <<<<T(8, 3), T(9, 3), T(9, 3)>>>>},
     authentication_callers |->
        {<<>>, <<<<T(8, 128)>>>>, <<<<T(8, 129)>>>>,
         <<<<T(8, 7), T(9, 3)>>, <<T(9, 3)>>, <<T(8, 7), T(9, 3)>>>>},
     token_audience |-> {<<>>, <<T(10, 256)>>, <<T(10, 257)>>, <<T(10, 9), T(10, 9)>>},
     credential_ttl_seconds |-> {0, 299, 300, 3600, 31536000, 31536001},
     rotation_overlap_seconds |-> {0, 299, 3600, 3601},
     token_ttl_seconds |-> {0, 1, 300, 301, 86400, 86401},
     receipt_ttl_seconds |-> {0, 299, 300, 604800, 604801},
     exchange_window_seconds |-> {0, 1, 3600, 3601},
     max_exchanges_per_window |-> {0, 1, 10000, 10001},
     exchange_lockout_seconds |-> {0, 1, 86400, 86401},
     max_page_size |-> {0, 1, 200, 201},
     max_accounts_per_organization |-> {0, 1, 10000, 10001}]

AtEdges ==
    {Default} \cup
    UNION {{[Default EXCEPT ![f] = v, ![g] = u] : v \in Edge[f], u \in Edge[g]} :
              f \in DOMAIN Edge, g \in DOMAIN Edge}

=============================================================================

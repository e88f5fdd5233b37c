------------------------------- MODULE MCDispatch -------------------------------
(* Dispatch with every two of the hooks loaded, and every three of those that *)
(* share a location or leave a mark on the request.                          *)
EXTENDS Dispatch

MCLoadedSets ==
  {{h, k} : h, k \in Hooks}
    \cup {s \in SUBSET {"echo_post", "input_body_filter", "client_add_filter",
                        "random_chunk", "test_apr_uri", "fold", "test_ssl_var"} :
            Cardinality(s) = 3}

Asks(v) == [key |-> "X-AddInputFilter", val |-> v]

MCHeaderLists ==
  {<<>>, <<Asks(IBF)>>, <<Asks(IBF), Asks(IBF)>>, <<Asks("other"), Asks(IBF)>>,
   <<[key |-> "X-AddOutputFilter", val |-> IBF], [key |-> "Host", val |-> IBF]>>}
=============================================================================

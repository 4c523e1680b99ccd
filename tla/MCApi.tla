------------------------------- MODULE MCApi --------------------------------
(* A client of package v1alpha2, which works with its Metadata or with its *)
(* Operators: the two share no state.  Catalogues by tag, by digest, by    *)
(* both and on disk; include configs with and without versions.            *)
EXTENDS Metadata, OperatorConfig

ref(tag, id) == [registry |-> "quay.io", namespace |-> "ns", name |-> "index", tag |-> tag, id |-> id]
path == [registry |-> "", namespace |-> "home", name |-> "index", tag |-> "", id |-> ""]

MCCatalogs ==
  {[oci |-> FALSE, slashes |-> 0, ref |-> ref(t, d)] : t \in {"", "v4"}, d \in {"", "sha256"}}
  \cup {[oci |-> TRUE, slashes |-> k, ref |-> path] : k \in 0..4}
MCTargets == {"", "mine"} \X {"", "v5"}

pkg(p, v) == [name |-> p, minVersion |-> v]
MCConfigs == {<<>>, <<pkg("a", "")>>, <<pkg("a", "1")>>, <<pkg("b", "2"), pkg("c", "")>>,
              <<pkg("c", ""), pkg("b", "3")>>}

VARIABLE client  \* what it works with

Init ==
  /\ client \in {"metadata", "operators"}
  /\ MetadataInit /\ OperatorInit
  /\ client = "operators" => doc = MarshalTypes([mem EXCEPT !.type = 1])

Next ==
  /\ UNCHANGED client
  /\ \/ client = "metadata" /\ MetadataNext /\ UNCHANGED operatorVars
     \/ client = "operators" /\ OperatorNext /\ UNCHANGED metadataVars

Spec == Init /\ [][Next]_<<client, metadataVars, operatorVars>>
=============================================================================

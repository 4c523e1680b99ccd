----------------------------- MODULE MCCatalog ------------------------------
(* Catalogues for the runs of Catalog: every optional field given and left *)
(* out, each kind of separator, and strings with spaces.                   *)
EXTENDS Catalog

MCStripped == [v \in {"", "stable", "fast", "v1", "v2", "v3", "<2", ">=1 <2", ">=1<2"} |->
                 IF v = ">=1 <2" THEN ">=1<2" ELSE v]

ent(name, replaces, skips, range) ==
  [name |-> name, replaces |-> replaces, skips |-> skips, skipRange |-> range]
channel(name, es) == [schema |-> "olm.channel", name |-> name, entries |-> es]
pkg    == [schema |-> "olm.package", name |-> "v1", entries |-> <<>>]
bundle == [schema |-> "olm.bundle", name |-> "v2", entries |-> <<>>]

lines(objs, gap) == [objs |-> objs, gaps |-> [k \in 1..(Len(objs) - 1) |-> gap]]

full  == <<pkg, channel("stable", <<ent("v2", "v1", <<"v1", "v3">>, "<2"), ent("v3", "", <<>>, "")>>),
           channel("fast", <<ent("v1", "v3", <<"v2">>, "")>>), bundle>>
small == <<channel("stable", <<ent("v1", "", <<"v2">>, "")>>), bundle>>
\* As in src/tests/test-operator-catalog.json:17
spaced == <<channel("stable", <<ent("v2", "v1", <<>>, ">=1 <2")>>), bundle>>

AllTexts == {lines(full, <<"newline">>), lines(small, <<"newline", "space">>),
             lines(small, <<"newline", "newline">>), lines(small, <<"return", "newline">>),
             lines(spaced, <<"newline">>)}

Two == <<"op1", "op2">>
AnyLevel == {"info", "debug", "trace", "error", "loud"}
=============================================================================

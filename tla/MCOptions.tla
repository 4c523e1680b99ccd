----------------------------- MODULE MCOptions ------------------------------
(* The options of the command, and what a caller of the mirror package may *)
(* set besides.                                                            *)
EXTENDS Options

\* NewCliCmd
Command == {[TlsVerify |-> FALSE, InsecurePolicy |-> TRUE, PolicyPath |-> "", Format |-> "",
             CommandTimeout |-> 0]}

Callers == [TlsVerify : BOOLEAN, InsecurePolicy : BOOLEAN, PolicyPath : {"", "file"},
            Format : {"", "oci", "other"}, CommandTimeout : {0, 60}]
=============================================================================

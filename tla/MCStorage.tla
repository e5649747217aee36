------------------------------- MODULE MCStorage -------------------------------
(* Values for the constants of Storage: the small instances TLC checks.       *)
EXTENDS Storage

TwoActs == {"p", "q"}
MCOwn == "p" :> "a" @@ "q" :> "b"
MCTable == <<"b", "a">>
TwoBuffers == {"a", "b"}
OneValue == {"", "v"}
TwoKeys == <<"k1", "k2">>
TwoStorageKeys == <<"s1", "s2">>
MCArgKeys == {"k1", "s1"}
\* A value does not fit where a points to, nor a name where b does, until memory has grown.
MCNoRoom == [m \in 0..MaxTouch |-> IF m = 0 THEN {<<"a", "v">>, <<"b", "k1">>} ELSE {}]
NothingStored == [k \in Key |-> "none"]
EmptyStored == [k \in Key |-> IF k \in {"s1", "s2"} THEN "" ELSE "v"]
MCStores == {NothingStored, [k \in Key |-> "v"], EmptyStored}
================================================================================

------------------------------ MODULE MCSubmit ------------------------------
(* Small instances of submission for TLC. *)
EXTENDS Submit, TLC

CONSTANTS r1, r2, r3, r4, r5

MCRequest == {r1, r2, r3, r4, r5}

(* r1 repeats r2's key with the same targets; r3's key makes the derived   *)
(* key of one of its targets collide with one of theirs, k:clip:v:clip:a - *)
(* keys with colons are what the README recommends - and names that target *)
(* twice; r4 has a plain key of its own, r5 no key.                        *)
MCKey == r1 :> <<"k">> @@ r2 :> <<"k">> @@ r3 :> <<"k", ":", "clip", ":", "v">>
         @@ r4 :> <<"m">> @@ r5 :> <<>>
MCKind == [r \in MCRequest |-> <<"clip">>]
Collider == <<"v", ":", "clip", ":", "a">>
MCTargets == r1 :> <<Collider, <<"b">>>> @@ r2 :> <<Collider, <<"b">>>>
             @@ r3 :> <<<<"a">>, <<"a">>, <<"b">>>> @@ r4 :> <<<<"b">>>> @@ r5 :> <<<<"b">>, <<"b">>>>

(* r2's only target collides with r1's only target. *)
PairRequest == {r1, r2}
PairKey == r1 :> <<"k">> @@ r2 :> <<"k", ":", "clip", ":", "v">>
PairKind == [r \in PairRequest |-> <<"clip">>]
PairTargets == r1 :> <<Collider>> @@ r2 :> <<<<"a">>>>
=============================================================================

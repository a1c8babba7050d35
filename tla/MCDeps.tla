------------------------------- MODULE MCDeps -------------------------------
(* Instances of Dependencies small enough for TLC.                          *)
EXTENDS Dependencies

\* The first mod needs the second, and from its second release also the third,
\* which the second needs in its second release.
MCNeeds ==
  [m \in ForgeMods |-> [r \in Releases |->
     IF m = "a" THEN IF r = 1 THEN <<"b">> ELSE <<"b", "c">>
     ELSE IF m = "b" /\ r = 2 THEN <<"c">> ELSE <<>>]]
MCForges ==
  {[needs |-> MCNeeds, conflicts |-> {}, bare |-> {}],
   [needs |-> MCNeeds, conflicts |-> {<<"a", "c">>}, bare |-> {"b"}]}
=============================================================================

----------------------------- MODULE MCLibraries -----------------------------
(***************************************************************************)
(* Small instances for TLC of the common libraries: the configuration with *)
(* its cache (Configuration), what a value of it may be                    *)
(* (ConfigurationKeys), vectors of bits (VectorBits) and the memory of     *)
(* vectors (Vectors).  They share nothing; a behaviour is one of the four. *)
(***************************************************************************)
EXTENDS Configuration, ConfigurationKeys, VectorBits, Vectors

CONSTANTS k1, k2, v1, v2

VARIABLE part

DefaultValues == [k \in {k1} |-> v1]

\* Values of up to three tokens, at the boundaries of the ranges.
SomeTokens ==
    {Num(n) : n \in {0, 1, 33, 65535, 65536}} \cup {Address(10), Word("b")}
        \cup {Delimiter(c) : c \in {"colon", "slash", "blank", "dash", "comma"}}
SomeValues == UNION {[1..n -> SomeTokens] : n \in 0..3}

\* Choices with, partly with and without labels, and ranges: one, from below 0, without a colon, and two.
SomeChoices ==
    {<<Num(0), Delimiter("bar"), Word("a"), Delimiter("comma"), Num(1), Delimiter("bar"), Word("b")>>,
     <<Num(0), Delimiter("bar"), Word("a"), Delimiter("comma"), Num(1)>>,
     <<Num(0), Delimiter("comma"), Num(1)>>}
SomeRanges ==
    {<<Num(1), Delimiter("colon"), Num(33)>>,
     <<Delimiter("dash"), Num(1), Delimiter("colon"), Num(33)>>,
     <<Num(0), Delimiter("dash"), Num(33)>>,
     <<Num(1), Delimiter("colon"), Num(2), Delimiter("comma"), Num(5), Delimiter("colon"), Num(33)>>}
SomeKeys ==
    [type : {"BOOLEAN", "CIDR", "HOSTANDPORT", "IPANDPORT", "IPADDRESS", "MIPADDRESS", "PORT"},
     optional : BOOLEAN, valid : {<< >>}]
    \cup [type : {"CHOICE"}, optional : {FALSE}, valid : SomeChoices]
    \cup [type : {"VALRANGE"}, optional : {FALSE}, valid : SomeRanges]

\* Permutations: rotations by up to two places, of vectors of up to nine elements.
SomeMaps == {[i \in 1..n |-> (i - 1 + r) % n] : n \in 1..9, r \in 0..2}

\* Generators of parity words.
SomeGenerators == {<<0, 1, 1>>, <<0, 0, 1, 1, 1>>, <<1, 0, 1>>}

\* Of the parts that do not run, one initial state stands for all.
LibInit ==
    /\ part \in {"configuration", "keys", "bits", "vectors"}
    /\ ConfInit
    /\ part # "configuration" => table = [k \in Keys |-> NoRecord]
    /\ IF part = "keys" THEN KeysInit
       ELSE key = (CHOOSE k \in KeySamples : TRUE) /\ value = << >> /\ verdict = "none"
    /\ BitsInit
    /\ VecInit

LibNext ==
    /\ UNCHANGED part
    /\ \/ part = "configuration" /\ ConfNext /\ UNCHANGED <<keyVars, bits, vecVars>>
       \/ part = "keys" /\ KeysNext /\ UNCHANGED <<confVars, bits, vecVars>>
       \/ part = "bits" /\ AppendBit /\ UNCHANGED <<confVars, keyVars, vecVars>>
       \/ part = "vectors" /\ VecNext /\ UNCHANGED <<confVars, keyVars, bits>>

LibSpec == LibInit /\ [][LibNext]_<<part, confVars, keyVars, bits, vecVars>>

================================================================================

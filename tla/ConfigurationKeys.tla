--------------------------- MODULE ConfigurationKeys ---------------------------
(***************************************************************************)
(* What a value of a configuration key may be (CommonLibs/Configuration,   *)
(* ConfigurationTable::isValidValue): the code takes the value apart with  *)
(* find and substr and keeps the positions in unsigned ints.  A value is a *)
(* sequence of tokens: numbers, words, addresses and delimiters.           *)
(* Not modelled: FILEPATH, REGEX and STRING, which are matched by regexec, *)
(* and ranges of decimals (VALRANGE with a point).                         *)
(***************************************************************************)
EXTENDS Integers, Sequences

CONSTANTS
    KeySamples,   \* keys: [type, optional, valid]
    ValueSamples, \* the values that are checked
    Words,        \* the words of names and labels
    Wide          \* size_t is wider than unsigned int

VARIABLES key, value, verdict

keyVars == <<key, value, verdict>>

\* Tokens. An address is known by its first number.
Address(n) == [address |-> n]
Word(w) == [word |-> w]
Num(n) == [number |-> n]
Is(field, token) == field \in DOMAIN token
Delimiter(c) == [delimiter |-> c]
Token ==
    [address : Nat] \cup [word : Words] \cup [number : Nat]
        \cup [delimiter : {"colon", "slash", "blank", "dash", "comma", "bar"}]
Text(s) == \A i \in DOMAIN s : ~Is("delimiter", s[i]) \/ s[i] = Delimiter("dash")

--------------------------------------------------------------------------------
(* Strings *)

\* find, put into an unsigned int; positions count from 0, and no string is that long.
Npos == 1000
Strings == {s \in Seq(Token) : Len(s) < Npos}
Find(s, c, from) ==
    LET at == {i \in from..(Len(s) - 1) : s[i + 1] = Delimiter(c)}
    IN  IF at = {} THEN Npos ELSE CHOOSE i \in at : \A j \in at : i <= j

\* The comparison with npos: where size_t is wider, what was put into an unsigned int is
\* never equal to it.
Found(position) == Wide \/ position # Npos

\* A faulty position behind the delimiter, that is the one of the delimiter.
AtDelimiter(position) == IF position = Npos THEN 0 ELSE position
\* Npos + 1 is 0 in an unsigned int.
After(position) == IF position = Npos THEN 0 ELSE position + 1

Substr(s, from, n) == SubSeq(s, from + 1, IF from + n < Len(s) THEN from + n ELSE Len(s))
Rest(s, from) == Substr(s, from, Npos)

\* stringstream >> int: what is behind the number is left alone; 0 if there is none, and
\* the variable as it was if there is nothing.
Extract(s, old) ==
    CASE s = << >> -> old
      [] s # << >> /\ Is("number", s[1]) -> s[1].number
      [] s # << >> /\ Is("address", s[1]) -> s[1].address
      [] Len(s) > 1 /\ s[1] = Delimiter("dash") /\ Is("number", s[2]) -> -s[2].number
      [] OTHER -> 0

--------------------------------------------------------------------------------
(* isValidValue *)

IsValidIP(s) == Len(s) = 1 /\ Is("address", s[1])
InPortRange(n) == 1 <= n /\ n <= 65535

\* Positions at which the options or ranges of the valid values begin.
Starts(valid) == {0} \cup {i \in 1..Len(valid) : valid[i] = Delimiter("comma")}

\* CHOICE: up to the next bar, wherever it is; and only if there is none up to the comma.
OptionAt(valid, start) ==
    LET bar == Find(valid, "bar", start)
        comma == Find(valid, "comma", start)
    IN  IF Found(bar) THEN Substr(valid, start, bar - start) ELSE Substr(valid, start, comma - start)
IsChoice(valid, val) == \E start \in Starts(valid) : val = OptionAt(valid, start)

\* CIDR, HOSTANDPORT, IPANDPORT: what is in front of the delimiter, and the number behind it.
Before(val, c) == Substr(val, 0, Find(val, c, 0))
Behind(val, c) == Extract(Rest(val, After(Find(val, c, 0))), -1)
InCIDR(n) == 0 <= n /\ n <= 32
IsCIDR(val) ==
    Found(Find(val, "slash", 0)) /\ IsValidIP(Before(val, "slash")) /\ InCIDR(Behind(val, "slash"))
IsHost(s) == IsValidIP(s) \/ (s # << >> /\ Text(s))
IsHostAndPort(val) ==
    Found(Find(val, "colon", 0)) /\ IsHost(Before(val, "colon")) /\ InPortRange(Behind(val, "colon"))
IsIPAndPort(val) ==
    Found(Find(val, "colon", 0)) /\ IsValidIP(Before(val, "colon")) /\ InPortRange(Behind(val, "colon"))

\* MIPADDRESS: one of the list at start, that ends at end; the first colon of all is looked for.
IsListed(val, start, end) ==
    \/ IsValidIP(Substr(val, start, end - start))
    \/ LET colon == Find(val, "colon", 0)
       IN  Found(colon) /\ IsValidIP(Substr(val, start, colon))
                        /\ InPortRange(Extract(Substr(val, After(colon), end), -1))
IsList(val) ==
    \A start \in {0} \cup {i \in 1..Len(val) : val[i] = Delimiter("blank")} :
        IsListed(val, start, Find(val, "blank", start))

\* VALRANGE: getMinMaxStepping and isInValRange, for whole numbers. Steps are not enforced,
\* and only the first range counts.
MinOf(valid) == Extract(Substr(valid, 0, Find(valid, "colon", 0)), 0)
MaxOf(valid) == Extract(Rest(valid, After(Find(valid, "colon", 0))), 0)
IsInValRange(valid, val) ==
    /\ val # << >>
    /\ \A i \in DOMAIN val : Is("number", val[i]) \/ val[i] = Delimiter("dash")
    /\ MinOf(valid) <= Extract(val, 0)
    /\ Extract(val, 0) <= MaxOf(valid)

\* PORT: the number is not initialised, and nothing is read from an empty value.
IsPort(val, uninitialised) == InPortRange(Extract(val, uninitialised))

IsValidValue(k, val, uninitialised) ==
    \/ k.optional /\ val = << >>
    \/ CASE k.type = "BOOLEAN"     -> val \in {<<Num(0)>>, <<Num(1)>>}
         [] k.type = "CHOICE"      -> IsChoice(k.valid, val)
         [] k.type = "CIDR"        -> IsCIDR(val)
         [] k.type = "HOSTANDPORT" -> IsHostAndPort(val)
         [] k.type = "IPANDPORT"   -> IsIPAndPort(val)
         [] k.type = "IPADDRESS"   -> IsValidIP(val)
         [] k.type = "MIPADDRESS"  -> IsList(val)
         [] k.type = "PORT"        -> IsPort(val, uninitialised)
         [] k.type = "VALRANGE"    -> IsInValRange(k.valid, val)

KeyTypes ==
    {"BOOLEAN", "CHOICE", "CIDR", "HOSTANDPORT", "IPANDPORT", "IPADDRESS", "MIPADDRESS", "PORT",
     "VALRANGE"}

ASSUME KeysAssumption ==
    /\ Wide \in BOOLEAN
    /\ KeySamples \subseteq [type : KeyTypes, optional : BOOLEAN, valid : Strings]
    /\ ValueSamples \subseteq Strings

KeysInit ==
    /\ key \in KeySamples
    /\ value \in ValueSamples
    /\ verdict = "none"

Validate ==
    /\ verdict = "none"
    /\ \E uninitialised \in {0, 1} :
          verdict' = IF IsValidValue(key, value, uninitialised) THEN "valid" ELSE "invalid"
    /\ UNCHANGED <<key, value>>

KeysNext == Validate
KeysSpec == KeysInit /\ [][KeysNext]_keyVars

--------------------------------------------------------------------------------
(* Properties *)

\* The options of a choice, and the ranges, as printDescription lists them.
Ends(valid, start) == Find(valid, "comma", start)
Options(valid) ==
    {LET end == Ends(valid, start)
         bar == Find(valid, "bar", start)
     IN  Substr(valid, start, (IF bar < end THEN bar ELSE end) - start) : start \in Starts(valid)}
Ranges(valid) ==
    {LET colon == Find(valid, "colon", start)
     IN  <<Extract(Substr(valid, start, colon - start), 0), Extract(Rest(valid, colon + 1), 0)>> :
        start \in Starts(valid)}
Labelled(valid) ==
    \A start \in Starts(valid) : Find(valid, "bar", start) < Ends(valid, start)

\* A number, and the pair of something and a number within bounds.
IsNumber(s, low, high) == Len(s) = 1 /\ Is("number", s[1]) /\ s[1].number \in low..high
IsPair(s, c, IsFirst(_), low, high) ==
    Len(s) = 3 /\ IsFirst(<<s[1]>>) /\ s[2] = Delimiter(c) /\ IsNumber(<<s[3]>>, low, high)

\* Addresses, with a blank between two.
IsAddressList(s) ==
    /\ Len(s) % 2 = 1
    /\ \A i \in DOMAIN s : IF i % 2 = 1 THEN Is("address", s[i]) ELSE s[i] = Delimiter("blank")

\* What typeToString and printDescription say a value is.
Described(k, val) ==
    \/ k.optional /\ val = << >>
    \/ CASE k.type = "BOOLEAN"     -> IsNumber(val, 0, 1)
         [] k.type = "CHOICE"      -> val \in Options(k.valid)
         [] k.type = "CIDR"        -> IsPair(val, "slash", IsValidIP, 0, 32)
         [] k.type = "HOSTANDPORT" -> IsPair(val, "colon", IsHost, 1, 65535)
         [] k.type = "IPANDPORT"   -> IsPair(val, "colon", IsValidIP, 1, 65535)
         [] k.type = "IPADDRESS"   -> IsValidIP(val)
         [] k.type = "MIPADDRESS"  -> IsAddressList(val)
         [] k.type = "PORT"        -> IsNumber(val, 1, 65535)
         [] k.type = "VALRANGE"    -> (\E r \in Ranges(k.valid) : IsNumber(val, r[1], r[2]))

\* Values on which the two differ: a number that something follows, or that is none (0 to
\* the code), a port in a list of addresses, the second and later ranges, one written without
\* a colon, options of which some have no bar, a missing delimiter where size_t is wider, and
\* the empty port.
EndsOtherwise(val, n) == Len(val) > n \/ (Len(val) = n /\ ~Is("number", val[n]))
Misjudged(k, val) ==
    \/ k.type = "CHOICE" /\ ~Labelled(k.valid) /\ (Wide \/ Find(k.valid, "bar", 0) # Npos)
    \/ k.type = "CIDR" /\ (EndsOtherwise(val, 3) \/ (Wide /\ Find(val, "slash", 0) = Npos))
    \/ k.type \in {"HOSTANDPORT", "IPANDPORT"}
          /\ (EndsOtherwise(val, 3) \/ (Wide /\ Find(val, "colon", 0) = Npos))
    \/ k.type = "MIPADDRESS" /\ Find(val, "colon", 0) # Npos
    \/ k.type = "PORT" /\ (val = << >> \/ EndsOtherwise(val, 1))
    \/ k.type = "VALRANGE" /\ \/ Find(k.valid, "colon", 0) = Npos
                              \/ \E r, s \in Ranges(k.valid) : r # s
                              \/ EndsOtherwise(val, 1)

\* A value is accepted if, and only if, it is of the kind that the descriptions of the key
\* tell, but for those named above.
AcceptsAsDescribed ==
    verdict # "none" /\ ~Misjudged(key, value) => (verdict = "valid" <=> Described(key, value))

================================================================================

--------------------------- MODULE ParameterUtil ---------------------------
(***************************************************************************)
(* pkg/util/util.go: parameter maps, and the translation of deletion       *)
(* parameters into tags and back.  A parameter map is a function from      *)
(* names to values; a value is a sequence of symbols: the characters that  *)
(* the translation treats specially, the space, and words that it leaves   *)
(* alone.  A Go struct is the set of the names of its fields.              *)
(***************************************************************************)
EXTENDS Naturals, SequencesExt

-----------------------------------------------------------------------------
(* Deletion tags.                                                          *)

\* JSON characters and the tag characters that stand for them, in the order in
\* which they are translated.
Translation == << <<"\"", "@">>, <<",", ".">>, <<"[", "-">>, <<"]", "_">>,
                  <<"{", "+">>, <<"}", "=">> >>

JsonCharacters == {Translation[i][1] : i \in DOMAIN Translation}
TagCharacters == {Translation[i][2] : i \in DOMAIN Translation}

TagCharacter(x) == Translation[CHOOSE i \in DOMAIN Translation : Translation[i][1] = x][2]

\* Every JSON character is replaced by its tag character between two spaces.
EncodeDeletionTag(input) ==
    FlattenSeq([i \in DOMAIN input |->
                   IF input[i] \in JsonCharacters
                   THEN <<" ", TagCharacter(input[i]), " ">> ELSE <<input[i]>>])

\* strings.ReplaceAll of " t " by x: from left to right, without overlaps.
ReplaceTag(s, x, t) ==
    LET out[i \in 0 .. Len(s)] ==
            IF i = 0 THEN <<>>
            ELSE LET o == Append(out[i - 1], s[i])
                     n == Len(o)
                 IN  IF n >= 3 /\ SubSeq(o, n - 2, n) = <<" ", t, " ">>
                     THEN Append(SubSeq(o, 1, n - 3), x) ELSE o
    IN  out[Len(s)]

\* Mutant: braces and the closing bracket are not translated back.
DecodeOpeningOnly(input) ==
    ReplaceTag(ReplaceTag(ReplaceTag(input, "\"", "@"), ",", "."), "[", "-")

DecodeDeletionTag(input) ==
    LET decoded[i \in 0 .. Len(Translation)] ==
            IF i = 0 THEN input
            ELSE ReplaceTag(decoded[i - 1], Translation[i][1], Translation[i][2])
    IN  decoded[Len(Translation)]

\* No tag character of the value stands between two spaces, or between characters
\* whose representations begin and end with one: the tag can be read in one way
\* only.
Unambiguous(value) ==
    \A i \in 2 .. Len(value) - 1 :
        value[i] \in TagCharacters
            => ~({value[i - 1], value[i + 1]} \subseteq JsonCharacters \cup {" "})

-----------------------------------------------------------------------------
(* Parameter maps.                                                         *)

Quoted(inner) == <<"\"">> \o inner \o <<"\"">>

IsString(v) ==
    /\ Len(v) >= 2 /\ v[1] = "\"" /\ v[Len(v)] = "\""
    /\ \A i \in 2 .. Len(v) - 1 : v[i] # "\""

Encloses(left, right, v) == Len(v) >= 2 /\ v[1] = left /\ v[Len(v)] = right
Inner(v) == SubSeq(v, 2, Len(v) - 1)

Null == <<"null">>

\* A list of FSx tags one of which lacks its Key or its Value.
Incomplete(v) == v = <<"[", "{", "}", "]">>

\* What ConvertStringMapToAny and json.Marshal make of a value.  A list has one
\* element, the object that describes an FSx tag is abstracted to one string
\* between braces, and any other object to the names of its members.
JsonType(v) ==
    CASE v = <<"7">> -> "int"
      [] v \in {<<"true">>, <<"false">>} -> "bool"
      [] v = Null -> "null"
      [] IsString(v) -> "string"
      [] Encloses("{", "}", v) /\ JsonCharacters \cap ToSet(Inner(v)) = {} -> "object"
      [] Encloses("[", "]", v) /\ IsString(Inner(v)) -> "strings"
      [] Encloses("[", "]", v) /\ Encloses("{", "}", Inner(v)) /\ IsString(Inner(Inner(v)))
            -> "tags"
      [] Incomplete(v) -> "tags"
      [] OTHER -> "malformed"

\* The type of a field of an FSx input or configuration.
FieldType(name) ==
    CASE name = "SkipFinalBackup" -> "bool"
      [] name = "StorageCapacity" -> "int"
      [] name \in {"Options", "SubnetIds"} -> "strings"
      [] name \in {"Tags", "FinalBackupTags"} -> "tags"
      [] name \in {"OpenZFSConfiguration", "OriginSnapshot"} -> "object"
      [] OTHER -> "string"

\* The assignment parameters[name] = value.
Put(parameters, name, value) ==
    [n \in DOMAIN parameters \cup {name} |-> IF n = name THEN value ELSE parameters[n]]

Except(parameters, names) == Restrict(parameters, DOMAIN parameters \ names)

\* RemoveParametersAndPopulateObject fails when any value of the map is not JSON,
\* whether it belongs to the object or not, or one of the object has not the type
\* of its field.  A null leaves a field of any type as it is, unset.
PopulateFails(parameters, fields) ==
    \E name \in DOMAIN parameters :
        \/ JsonType(parameters[name]) = "malformed"
        \/ name \in fields /\ JsonType(parameters[name]) \notin {"null", FieldType(name)}

\* StrictRemoveParametersAndPopulateObject: no parameter may remain.
StrictPopulateFails(parameters, fields) ==
    PopulateFails(parameters, fields) \/ ~(DOMAIN parameters \subseteq fields)

\* ReplaceParametersAndPopulateObject: the fields go into one new parameter,
\* which replaces what the map may have under its name.
Replaced(newKey, parameters, fields) ==
    Put(Except(parameters, fields), newKey, <<"{", "}">>)

=============================================================================

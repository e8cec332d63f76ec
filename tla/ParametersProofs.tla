-------------------------- MODULE ParametersProofs --------------------------
(***************************************************************************)
(* The way of the parameters of a storage class, proved for every set of   *)
(* classes, every parameter map and every content of the deletion tags:    *)
(* the types, what can make a deletion fail and what it is sent with, and  *)
(* that a parameter nobody edited gets from the storage class through its  *)
(* tag into the deletion.                                                  *)
(***************************************************************************)
EXTENDS Parameters, DeletionTagProofs

-----------------------------------------------------------------------------
(* Parameter maps.                                                         *)

\* An assignment adds or replaces one entry.
LEMMA PutType ==
    ASSUME NEW parameters, NEW name, NEW value
    PROVE  /\ DOMAIN Put(parameters, name, value) = DOMAIN parameters \cup {name}
           /\ Put(parameters, name, value)[name] = value
           /\ \A n \in DOMAIN parameters \ {name} :
                 Put(parameters, name, value)[n] = parameters[n]
BY DEF Put

\* A removal takes entries away and changes none.
LEMMA ExceptType ==
    ASSUME NEW parameters, NEW names
    PROVE  /\ DOMAIN Except(parameters, names) = DOMAIN parameters \ names
           /\ \A n \in DOMAIN parameters \ names : Except(parameters, names)[n] = parameters[n]
BY DEF Except, Restrict

\* The entries under a mark, by name.
LEMMA MarkedType ==
    ASSUME NEW parameters, NEW mark
    PROVE  \A name : <<mark, name>> \in DOMAIN parameters =>
              /\ name \in DOMAIN Marked(parameters, mark)
              /\ Marked(parameters, mark)[name] = parameters[<<mark, name>>]
<1> DEFINE names == {key[2] : key \in {k \in DOMAIN parameters : k[1] = mark}}
<1>1. Marked(parameters, mark) = [name \in names |-> parameters[<<mark, name>>]]
  BY DEF Marked
<1>2. ASSUME NEW name, <<mark, name>> \in DOMAIN parameters PROVE name \in names
  <2>1. <<mark, name>>[1] = mark /\ <<mark, name>>[2] = name OBVIOUS
  <2> QED BY <1>2, <2>1
<1> HIDE DEF names
<1>3. DOMAIN Marked(parameters, mark) = names BY <1>1
<1> QED BY <1>1, <1>2, <1>3 DEF names

\* The value of a deletion parameter is a value of the class's map.
LEMMA OnDeletionValues ==
    ASSUME NEW c \in Classes, NEW name \in DOMAIN OnDeletion(c)
    PROVE  OnDeletion(c)[name] \in Seq(STRING)
<1> DEFINE map == c.parameters
           kept == deleteReservedParameters(map)
           key == <<"OnDeletion", name>>
<1>1. DOMAIN map \subseteq STRING \X STRING /\ \A k \in DOMAIN map : map[k] \in Seq(STRING)
  BY ParametersAssumption
<1> HIDE DEF map
<1>2. DOMAIN kept \subseteq DOMAIN map /\ \A k \in DOMAIN kept : kept[k] = map[k]
  BY DEF deleteReservedParameters, RestrictDomain, Restrict
<1>3. OnDeletion(c) = Marked(kept, "OnDeletion") BY DEF OnDeletion, map
<1> HIDE DEF kept
<1>4. PICK k \in DOMAIN kept : k[1] = "OnDeletion" /\ k[2] = name BY <1>3 DEF Marked
<1>5. key \in DOMAIN kept
  <2>1. k \in STRING \X STRING BY <1>1, <1>2
  <2>2. k = <<k[1], k[2]>> BY <2>1
  <2> QED BY <1>4, <2>2
<1>6. OnDeletion(c)[name] = kept[key] BY <1>3, <1>5, MarkedType
<1> QED BY <1>1, <1>2, <1>5, <1>6

\* The key of a tag is a mark and a name.
LEMMA TagKeyType == ASSUME NEW key \in TagKeys PROVE key = <<key[1], key[2]>>
<1>1. PICK x, y : key = <<x, y>> BY Zenon DEF TagKeys, DriverTag
<1>2. key[1] = x /\ key[2] = y BY <1>1
<1> QED BY <1>1, <1>2

-----------------------------------------------------------------------------
(* What a class must be like for its creation to be sent.                  *)

\* The answers to a creation; only a class that passes every check is sent.
LEMMA CreateCodes ==
    ASSUME NEW c \in Classes, NEW source \in BOOLEAN
    PROVE  /\ CreateCode(c, source)
                 \in {"OK", "InvalidArgument", "Unimplemented", "Internal", "panic"}
           /\ CreateCode(c, source) = "OK" =>
                 /\ ~DeletionFails(c.resourceType, OnDeletion(c))
                 /\ c.resourceType = "snapshot" => DOMAIN OnDeletion(c) = {}
BY DEF CreateCode

\* The tags of the new resource.
LEMMA AppendedTagsType ==
    ASSUME NEW c \in Classes
    PROVE  /\ DOMAIN AppendedTags(c) \subseteq TagKeys
           /\ \A name \in DOMAIN OnDeletion(c) :
                 /\ <<"OnDeletion", name>> \in DOMAIN AppendedTags(c)
                 /\ AppendedTags(c)[<<"OnDeletion", name>>] = TagValue(OnDeletion(c)[name])
           /\ \A key \in DOMAIN AppendedTags(c) :
                 key[1] = "OnDeletion" => key[2] \in DOMAIN OnDeletion(c)
<1> DEFINE map == AppendedTags(c)
           N == DOMAIN OnDeletion(c)
<1>1. /\ DOMAIN map = DeletionTags(c) \cup OtherTags(c)
      /\ \A key \in DeletionTags(c) : map[key] = TagValue(OnDeletion(c)[key[2]])
  BY DEF AppendedTags
<1>2. \A key \in OtherTags(c) : key \in TagKeys /\ key[1] = ""
  <2>1. \A y : <<"", y>>[1] = "" OBVIOUS
  <2>2. \A key \in OtherTags(c) : key \in {<<"", "cluster">>, <<"", "user">>}
    BY Zenon DEF OtherTags, DriverTag
  <2> QED BY Zenon, <2>1, <2>2 DEF TagKeys, DriverTag
<1>3. ASSUME NEW key \in DeletionTags(c)
      PROVE  key \in TagKeys /\ key[2] \in N
  <2>1. PICK name \in N : key = <<"OnDeletion", name>> BY DEF DeletionTags
  <2> QED BY <2>1 DEF TagKeys
<1>4. ASSUME NEW name \in N
      PROVE  <<"OnDeletion", name>> \in DeletionTags(c) /\ <<"OnDeletion", name>>[2] = name
  BY DEF DeletionTags
<1> HIDE DEF map, N
<1>5. ASSUME NEW name \in N
      PROVE  /\ <<"OnDeletion", name>> \in DOMAIN map
             /\ map[<<"OnDeletion", name>>] = TagValue(OnDeletion(c)[name])
  BY Zenon, <1>1, <1>4
<1>6. DOMAIN map \subseteq TagKeys BY <1>1, <1>2, <1>3
<1>7. ASSUME NEW key \in DOMAIN map, key[1] = "OnDeletion" PROVE key[2] \in N
  <2>1. key \notin OtherTags(c) BY <1>2, <1>7
  <2> QED BY <1>1, <1>3, <2>1
<1> QED BY <1>5, <1>6, <1>7 DEF map, N

-----------------------------------------------------------------------------
(* Values and tags.                                                        *)

\* A value between quotes is a string and nothing else.
LEMMA StringType ==
    ASSUME NEW v, IsString(v), v[1] = "\"", v # <<"7">>, v \notin {<<"true">>, <<"false">>},
           v # Null, ~Incomplete(v)
    PROVE  JsonType(v) = "string"
<1>1. \A r : ~Encloses("{", r, v) /\ ~Encloses("[", r, v) BY DEF Encloses
<1> QED BY Zenon, <1>1 DEF JsonType

\* A list of tags begins with a bracket.
LEMMA IncompleteFirst == ASSUME NEW v, Incomplete(v) PROVE v[1] = "["
<1>1. \A a, b, c, d : <<a, b, c, d>>[1] = a OBVIOUS
<1> QED BY Zenon, <1>1 DEF Incomplete

\* The provers do not meet arithmetic and JSON characters in one step: what there is
\* to compute is stated for any characters.
LEMMA ThreeSymbols ==
    ASSUME NEW x, NEW y PROVE
           /\ <<x>> \o <<y>> \o <<x>> = <<x, y, x>>
           /\ Len(<<x, y, x>>) >= 2 /\ <<x, y, x>>[1] = x /\ <<x, y, x>>[Len(<<x, y, x>>)] = x
           /\ x # y => \A i \in 2 .. Len(<<x, y, x>>) - 1 : <<x, y, x>>[i] # x
           /\ \A z : <<x, y, x>> # <<z>>
<1> DEFINE S == {x, y}
           u == <<x>> \o <<y>>
           v == u \o <<x>>
           w == <<x, y, x>>
<1>1. /\ <<x>> \in Seq(S) /\ Len(<<x>>) = 1 /\ <<x>>[1] = x
      /\ <<y>> \in Seq(S) /\ Len(<<y>>) = 1 /\ <<y>>[1] = y
  OBVIOUS
<1>2. u \in Seq(S) /\ Len(u) = 2 /\ u[1] = x /\ u[2] = y BY <1>1
<1> HIDE DEF u, S
<1>3. v \in Seq(S) /\ Len(v) = 3 /\ v[1] = x /\ v[2] = y /\ v[3] = x
  <2>1. ASSUME NEW l \in Seq(S), Len(l) = 1, l[1] = x
        PROVE  /\ u \o l \in Seq(S) /\ Len(u \o l) = 3
               /\ (u \o l)[1] = x /\ (u \o l)[2] = y /\ (u \o l)[3] = x
    <3>1. /\ u \o l \in Seq(S) /\ Len(u \o l) = Len(u) + Len(l)
          /\ \A i \in 1 .. Len(u) + Len(l) :
                (u \o l)[i] = IF i <= Len(u) THEN u[i] ELSE l[i - Len(u)]
      BY <1>2, ConcatProperties
    <3>2. Len(u) + Len(l) = 3 BY <1>2, <2>1
    <3> QED BY <1>2, <2>1, <3>1, <3>2
  <2> QED BY Zenon, <1>1, <2>1
<1> HIDE DEF v
<1>4. /\ Len(w) = 3 /\ w[1] = x /\ w[2] = y /\ w[3] = x
      /\ \A z : Len(<<z>>) = 1
  OBVIOUS
<1> HIDE DEF w
<1>5. v = w
  <2>1. \A i \in 1 .. 3 : v[i] = w[i] BY <1>3, <1>4
  <2>2. w \in Seq(S) BY DEF w, S
  <2> QED BY <1>3, <1>4, <2>1, <2>2, SeqEqual
<1>6. /\ Len(w) >= 2 /\ w[1] = x /\ w[Len(w)] = x
      /\ x # y => \A i \in 2 .. Len(w) - 1 : w[i] # x
      /\ \A z : w # <<z>>
  BY <1>4
<1> QED BY <1>5, <1>6 DEF u, v, w

\* The same for two symbols.
LEMMA TwoSymbols ==
    ASSUME NEW x, NEW y PROVE
           /\ Len(<<x, y>>) >= 2 /\ <<x, y>>[1] = x /\ <<x, y>>[Len(<<x, y>>)] = y
           /\ Inner(<<x, y>>) = <<>>
           /\ \A z : <<x, y>> # <<z>>
<1>1. \A z : Len(<<x, y>>) = 2 /\ Len(<<z>>) = 1 OBVIOUS
<1>2. Inner(<<x, y>>) = <<>> BY <1>1 DEF Inner
<1> QED BY <1>1, <1>2

\* The id of a resource is a string.
LEMMA IdType == JsonType(Quoted(<<"id">>)) = "string"
<1> DEFINE v == Quoted(<<"id">>)
<1>1. v = <<"\"", "id", "\"">> BY Zenon, ThreeSymbols DEF Quoted
<1> HIDE DEF v
<1>2. "\"" # "id" BY Zenon
<1>3. IsString(v) /\ v[1] = "\"" 
  BY Zenon, <1>1, <1>2, ThreeSymbols DEF IsString
<1>4. v # <<"7">> /\ v # <<"true">> /\ v # <<"false">> /\ v # Null
  BY Zenon, <1>1, ThreeSymbols DEF Null
<1>5. ~Incomplete(v)
  <2>1. "\"" # "[" BY Zenon
  <2> QED BY Zenon, <1>3, <2>1, IncompleteFirst
<1> HIDE DEF v
<1>6. JsonType(v) = "string" BY Zenon, <1>3, <1>4, <1>5, StringType
<1> QED BY <1>6 DEF v

\* The configuration that a collapse puts into the map is an object.
LEMMA ObjectType == JsonType(<<"{", "}">>) = "object"
<1> DEFINE v == <<"{", "}">>
<1>1. v # <<"7">> /\ v \notin {<<"true">>, <<"false">>} /\ v # Null
  BY Zenon, TwoSymbols DEF Null
<1>2. v[1] # "\"" /\ v[1] # "[" BY Zenon, TwoSymbols
<1>3. ~IsString(v) /\ ~Encloses("[", "]", v) /\ ~Incomplete(v)
  BY Zenon, <1>2, IncompleteFirst DEF IsString, Encloses
<1>4. Encloses("{", "}", v) BY Zenon, TwoSymbols DEF Encloses
<1>5. JsonCharacters \cap ToSet(Inner(v)) = {}
  <2>1. Inner(v) = <<>> BY Zenon, TwoSymbols
  <2>2. ToSet(<<>>) = {} BY DEF ToSet
  <2> QED BY Zenon, <2>1, <2>2
<1> HIDE DEF v
<1>6. JsonType(v) = "object" BY Zenon, <1>1, <1>3, <1>4, <1>5 DEF JsonType
<1> QED BY <1>6 DEF v

\* What was written into a tag is read from it, for every value of one reading.
LEMMA TagReadsBack ==
    ASSUME NEW v \in Seq(STRING), Unambiguous(v) PROVE DecodeDeletionTag(TagValue(v)) = v
<1>1. DecodeDeletionTag(EncodeDeletionTag(v)) = v /\ DecodeDeletionTag(v) = v
  BY Zenon, TagRoundTrip
<1>2. TagValue(v) = EncodeDeletionTag(v) \/ TagValue(v) = v BY Zenon DEF TagValue
<1> QED BY Zenon, <1>1, <1>2

\* A boolean or a null has one symbol, and can be read in one way only.
LEMMA BooleanValue ==
    ASSUME NEW v, JsonType(v) \in {"null", "bool"}
    PROVE  v = Null \/ (v \in {<<"true">>, <<"false">>} /\ Unambiguous(v))
<1>1. v = Null \/ v \in {<<"true">>, <<"false">>} BY DEF JsonType
<1>2. \A x : Len(<<x>>) = 1 OBVIOUS
<1>3. ASSUME v \in {<<"true">>, <<"false">>} PROVE Unambiguous(v)
  <2>1. Len(v) = 1 BY <1>2, <1>3
  <2>2. 2 .. Len(v) - 1 = {} BY <2>1
  <2> QED BY Zenon, <2>2 DEF Unambiguous
<1> QED BY <1>1, <1>3

-----------------------------------------------------------------------------
(* The parameters of a deletion.                                           *)

\* A value that a field takes: one of its type, or null.
FitsField(value, name) ==
    JsonType(value) # "malformed" /\ JsonType(value) \in {"null", FieldType(name)}

\* Parameters that fit the fields of an object.
Fit(parameters, fields) ==
    /\ DOMAIN parameters \subseteq fields
    /\ \A name \in DOMAIN parameters : FitsField(parameters[name], name)

\* They populate it, and nothing else does.
LEMMA FitPopulates ==
    ASSUME NEW parameters, NEW fields
    PROVE  Fit(parameters, fields) <=> ~StrictPopulateFails(parameters, fields)
BY DEF Fit, FitsField, StrictPopulateFails, PopulateFails

\* What GetDeleteParameters reads from the tags fits the configuration and is what
\* the tags say, and a tag that fits is not lost.
LEMMA GetDeleteParametersFit ==
    ASSUME NEW type, DOMAIN tags \subseteq TagKeys
    PROVE  LET P == GetDeleteParameters(type)
               read(name) == DecodeDeletionTag(tags[<<"OnDeletion", name>>])
           IN  /\ Fit(P, DeleteConfiguration(type))
               /\ \A name \in DOMAIN P : /\ <<"OnDeletion", name>> \in DOMAIN tags
                                         /\ P[name] = read(name)
               /\ \A name : <<"OnDeletion", name>> \in DOMAIN tags
                            /\ name \in DeleteConfiguration(type) /\ FitsField(read(name), name)
                            => name \in DOMAIN P
<1> DEFINE coded == Marked(tags, "OnDeletion")
           decoded == [name \in DOMAIN coded |-> DecodeDeletionTag(coded[name])]
           good == {name \in DOMAIN decoded :
                       ~StrictPopulateFails(Restrict(decoded, {name}), DeleteConfiguration(type))}
           P == GetDeleteParameters(type)
           read(name) == DecodeDeletionTag(tags[<<"OnDeletion", name>>])
<1>1. P = Restrict(decoded, good) BY DEF GetDeleteParameters
<1>2. DOMAIN decoded = DOMAIN coded OBVIOUS
<1>3. \A name \in DOMAIN coded : decoded[name] = DecodeDeletionTag(coded[name]) OBVIOUS
<1>4. ASSUME NEW name \in DOMAIN coded PROVE <<"OnDeletion", name>> \in DOMAIN tags
  <2>1. PICK key \in DOMAIN tags : key[1] = "OnDeletion" /\ key[2] = name BY DEF Marked
  <2>2. key \in TagKeys OBVIOUS
  <2>3. key = <<key[1], key[2]>> BY Zenon, <2>2, TagKeyType
  <2> QED BY <2>1, <2>3
<1> HIDE DEF coded, decoded
<1>5. ASSUME NEW name, <<"OnDeletion", name>> \in DOMAIN tags
      PROVE  name \in DOMAIN decoded /\ decoded[name] = read(name)
  <2>1. \A n : <<"OnDeletion", n>> \in DOMAIN tags =>
                 n \in DOMAIN coded /\ coded[n] = tags[<<"OnDeletion", n>>]
    BY Zenon, MarkedType DEF coded
  <2> QED BY <1>2, <1>3, <1>5, <2>1
<1>6. ASSUME NEW name \in DOMAIN decoded
      PROVE  name \in good <=> name \in DeleteConfiguration(type) /\ FitsField(decoded[name], name)
  <2> DEFINE one == Restrict(decoded, {name})
  <2>1. DOMAIN one = {name} /\ one[name] = decoded[name] BY DEF Restrict
  <2> HIDE DEF one
  <2>2. Fit(one, DeleteConfiguration(type))
            <=> name \in DeleteConfiguration(type) /\ FitsField(decoded[name], name)
    BY <2>1 DEF Fit
  <2>3. name \in good <=> ~StrictPopulateFails(one, DeleteConfiguration(type)) BY DEF one
  <2> QED BY <2>2, <2>3, FitPopulates
<1>7. good \subseteq DOMAIN decoded OBVIOUS
<1> HIDE DEF good, P, read
<1>8. DOMAIN P = good /\ \A name \in good : P[name] = decoded[name] BY <1>1 DEF Restrict
<1>9. Fit(P, DeleteConfiguration(type)) BY <1>6, <1>7, <1>8 DEF Fit
<1>10. ASSUME NEW name \in DOMAIN P
       PROVE  <<"OnDeletion", name>> \in DOMAIN tags /\ P[name] = read(name)
  BY <1>2, <1>4, <1>5, <1>7, <1>8
<1>11. ASSUME NEW name, <<"OnDeletion", name>> \in DOMAIN tags,
              name \in DeleteConfiguration(type), FitsField(read(name), name)
       PROVE  name \in DOMAIN P
  BY <1>5, <1>6, <1>8, <1>11
<1> QED BY Zenon, <1>9, <1>10, <1>11 DEF P, read

\* The types of the fields the deletion is about.
LEMMA FieldTypes ==
    /\ FieldType("OpenZFSConfiguration") = "object"
    /\ FieldType("FileSystemId") = "string" /\ FieldType("VolumeId") = "string"
BY DEF FieldType

\* The parameters of a deletion with the id of the resource, and the configuration
\* that is sent with them.
WithId(type, P) == Put(P, IdField(type), Quoted(<<"id">>))
Sent(type, P) ==
    Restrict(WithId(type, P), {name \in DOMAIN WithId(type, P) \cap DeleteConfiguration(type) :
                                  WithId(type, P)[name] # Null})

\* Parameters that fit the configuration, with the id of the resource, are accepted
\* by the collapse and by the input of the deletion; those that are not null are
\* sent, and only the SDK can still refuse them.
LEMMA FitDeletes ==
    ASSUME NEW type, NEW P, Fit(P, DeleteConfiguration(type))
    PROVE  /\ ~PopulateFails(WithId(type, P), DeleteConfiguration(type))
           /\ ~PopulateFails(Replaced("OpenZFSConfiguration", WithId(type, P),
                                      DeleteConfiguration(type)), DeleteInput(type))
           /\ validateDeleteInput(WithId(type, P)) <=> validateDeleteInput(P)
           /\ DOMAIN Sent(type, P) = {name \in DOMAIN P : P[name] # Null}
           /\ \A name \in DOMAIN Sent(type, P) : Sent(type, P)[name] = P[name]
<1> DEFINE id == IdField(type)
           value == Quoted(<<"id">>)
           object == <<"{", "}">>
           parameters == Put(P, id, value)
           conf == DeleteConfiguration(type)
           rest == Except(parameters, conf)
           replaced == Put(rest, "OpenZFSConfiguration", object)
           set == {name \in DOMAIN parameters \cap conf : parameters[name] # Null}
           d == Restrict(parameters, set)
<1>1. id \notin conf /\ id # "OpenZFSConfiguration" /\ FieldType(id) = "string"
      /\ "OpenZFSConfiguration" \notin conf /\ id # "FinalBackupTags"
  BY FieldTypes DEF IdField, DeleteConfiguration
<1>2. JsonType(value) = "string" /\ JsonType(object) = "object" BY Zenon, IdType, ObjectType
<1>3. Replaced("OpenZFSConfiguration", parameters, conf) = replaced BY DEF Replaced
<1>4. DOMAIN P \subseteq conf /\ \A name \in DOMAIN P : FitsField(P[name], name)
  BY DEF Fit
<1> HIDE DEF id, value, object, conf
<1>5. /\ DOMAIN parameters = DOMAIN P \cup {id} /\ parameters[id] = value
      /\ \A name \in DOMAIN P : parameters[name] = P[name]
  BY <1>1, <1>4 DEF Put
<1> HIDE DEF parameters
<1>6. ~PopulateFails(parameters, conf)
  BY <1>1, <1>2, <1>4, <1>5 DEF PopulateFails, FitsField
<1>7. DOMAIN rest = {id} /\ rest[id] = value BY <1>1, <1>4, <1>5 DEF Except, Restrict
<1> HIDE DEF rest
<1>8. /\ DOMAIN replaced = {id, "OpenZFSConfiguration"} /\ replaced[id] = value
      /\ replaced["OpenZFSConfiguration"] = object
  BY <1>1, <1>7 DEF Put
<1> HIDE DEF replaced
<1>9. ~PopulateFails(replaced, DeleteInput(type))
  BY <1>1, <1>2, <1>8, FieldTypes DEF PopulateFails
<1>10. set = {name \in DOMAIN P : P[name] # Null} BY <1>1, <1>4, <1>5
<1>11. DOMAIN d = set /\ \A name \in set : d[name] = parameters[name] BY DEF Restrict
<1>12. validateDeleteInput(parameters) <=> validateDeleteInput(P)
  BY <1>1, <1>5 DEF validateDeleteInput
<1> HIDE DEF set, d
<1>13. DOMAIN d = {name \in DOMAIN P : P[name] # Null} /\ \A name \in DOMAIN d : d[name] = P[name]
  BY <1>5, <1>10, <1>11
<1> QED BY <1>3, <1>6, <1>9, <1>12, <1>13
        DEF parameters, id, value, conf, set, d, WithId, Sent

\* A resource is created only by a class whose deletion parameters fit the
\* configuration, as far as they belong to it, and whose tags of the final backup
\* are complete.
LEMMA DeletionValuesFit ==
    ASSUME NEW c \in Classes, ~DeletionFails(c.resourceType, OnDeletion(c)),
           c.resourceType # "snapshot"
    PROVE  /\ \A name \in DOMAIN OnDeletion(c) :
                 name \in DeleteConfiguration(c.resourceType) =>
                     FitsField(OnDeletion(c)[name], name)
           /\ validateDeleteInput(OnDeletion(c))
<1> DEFINE D == OnDeletion(c)
           type == c.resourceType
           id == IdField(type)
           value == Quoted(<<"id">>)
           p == Put(D, id, value)
           conf == DeleteConfiguration(type)
<1>1. ~PopulateFails(p, conf) /\ validateDeleteInput(D) BY DEF DeletionFails
<1>2. id \notin conf BY DEF IdField, DeleteConfiguration
<1> HIDE DEF D, id, value, conf, type
<1>3. ASSUME NEW name \in DOMAIN D, name \in conf PROVE FitsField(D[name], name)
  <2>1. name \in DOMAIN p /\ p[name] = D[name] BY <1>2, <1>3 DEF Put
  <2> HIDE DEF p
  <2> QED BY <1>1, <1>3, <2>1 DEF PopulateFails, FitsField
<1> QED BY <1>1, <1>3 DEF D, conf, type

-----------------------------------------------------------------------------
(* The inductive invariant.                                                *)

\* Only a class that passes every check was ever used.
ClassInv ==
    /\ class = NoClass => deletion = {} /\ answer[1] # "Delete"
    /\ class # NoClass => /\ ~DeletionFails(class.resourceType, OnDeletion(class))
                          /\ class.resourceType = "snapshot" => DOMAIN OnDeletion(class) = {}

\* A deletion parameter that nobody edited is in its tag, and there is no other
\* deletion tag that nobody edited.
TagsKept ==
    class # NoClass =>
        /\ \A name \in DOMAIN OnDeletion(class) \ edited :
              /\ <<"OnDeletion", name>> \in DOMAIN tags
              /\ tags[<<"OnDeletion", name>>] = TagValue(OnDeletion(class)[name])
        /\ \A key \in DOMAIN tags :
              key[1] = "OnDeletion" /\ key[2] \notin edited => key[2] \in DOMAIN OnDeletion(class)

IInv == TypeOK /\ ClassInv /\ TagsKept /\ DeletionAsConfigured /\ OnlyFinalBackupTagsBlock

\* The initial states satisfy it.
LEMMA InitEstablishes == Init => IInv
<1> SUFFICES ASSUME Init PROVE IInv OBVIOUS
<1>1. DOMAIN tags = {} BY DEF Init
<1>2. TypeOK BY <1>1, ParametersAssumption DEF Init, TypeOK
<1>3. ClassInv /\ TagsKept /\ DeletionAsConfigured /\ OnlyFinalBackupTagsBlock
  BY DEF Init, ClassInv, TagsKept, DeletionAsConfigured, OnlyFinalBackupTagsBlock
<1> QED BY <1>2, <1>3 DEF IInv

\* A creation, refused or sent.
LEMMA CreatePreserves ==
    ASSUME IInv, NEW c \in Classes, NEW source \in BOOLEAN, Create(c, source)
    PROVE  IInv'
<1> USE DEF IInv
<1> DEFINE code == CreateCode(c, source)
<1>1. /\ class = NoClass /\ answer' = <<"Create", code>> /\ edited' = edited
      /\ deletion' = deletion /\ edits' = edits
      /\ code \in {"OK", "InvalidArgument", "Unimplemented", "Internal", "panic"}
  BY CreateCodes DEF Create
<1>2. deletion = {} BY <1>1 DEF ClassInv
<1>3. DeletionAsConfigured' /\ OnlyFinalBackupTagsBlock'
  BY <1>1, <1>2 DEF DeletionAsConfigured, OnlyFinalBackupTagsBlock
<1>4. CASE code # "OK"
  <2>1. class' = class /\ tags' = tags BY <1>4 DEF Create
  <2> HIDE DEF code
  <2>2. TypeOK' BY <1>1, <2>1 DEF TypeOK
  <2>3. ClassInv' /\ TagsKept' BY <1>1, <1>2, <2>1 DEF ClassInv, TagsKept
  <2> QED BY <1>3, <2>2, <2>3
<1>5. CASE code = "OK"
  <2>1. class' = c /\ tags' = AppendedTags(c)
    BY <1>5 DEF Create
  <2>2. /\ c # NoClass /\ ~DeletionFails(c.resourceType, OnDeletion(c))
        /\ c.resourceType = "snapshot" => DOMAIN OnDeletion(c) = {}
    BY <1>5, CreateCodes, ParametersAssumption
  <2> HIDE DEF code
  <2>4. TypeOK' BY <1>1, <2>1, AppendedTagsType DEF TypeOK
  <2>5. ClassInv' BY <2>1, <2>2 DEF ClassInv
  <2>6. TagsKept' BY <1>1, <2>1, AppendedTagsType DEF TagsKept
  <2> QED BY <1>3, <2>4, <2>5, <2>6
<1> QED BY <1>4, <1>5

\* An edit changes one deletion tag and marks it as edited.
LEMMA EditPreserves ==
    ASSUME IInv,
           NEW name \in EditableTags,
           RemoveTag(name) \/ \E value \in TagValues : EditTag(name, value)
    PROVE  IInv'
<1> USE DEF IInv
<1> DEFINE key == <<"OnDeletion", name>>
<1>1. /\ class # NoClass /\ edits < MaxEdits
      /\ edited' = edited \cup {name} /\ edits' = edits + 1
      /\ class' = class /\ deletion' = deletion /\ answer' = answer
  BY DEF RemoveTag, EditTag
<1>2. /\ DOMAIN tags' \subseteq DOMAIN tags \cup {key}
      /\ \A k \in DOMAIN tags \ {key} : k \in DOMAIN tags' /\ tags'[k] = tags[k]
  <2> HIDE DEF key
  <2>1. CASE tags' = Except(tags, {key}) BY <2>1, ExceptType
  <2>2. ASSUME NEW value, tags' = Put(tags, key, value)
        PROVE  <1>2!1 /\ <1>2!2
    BY <2>2 DEF Put
  <2>3. tags' = Except(tags, {key}) \/ \E value : tags' = Put(tags, key, value)
    BY DEF RemoveTag, EditTag, key
  <2> QED BY <2>1, <2>2, <2>3
<1>3. key[1] = "OnDeletion" /\ key[2] = name /\ key \in TagKeys BY DEF TagKeys
<1>4. TypeOK'
  <2> HIDE DEF key
  <2>1. DOMAIN tags' \subseteq TagKeys BY <1>2, <1>3 DEF TypeOK
  <2>2. edits' \in 0 .. MaxEdits
    <3>1. edits \in 0 .. MaxEdits /\ MaxEdits \in Nat BY ParametersAssumption DEF TypeOK
    <3> QED BY <1>1, <3>1
  <2> QED BY <1>1, <2>1, <2>2 DEF TypeOK
<1>5. TagsKept'
  <2>1. \A n : n # name => <<"OnDeletion", n>> # key OBVIOUS
  <2>2. DOMAIN OnDeletion(class)' \ edited' = (DOMAIN OnDeletion(class) \ edited) \ {name}
    BY <1>1
  <2> HIDE DEF key
  <2> QED BY <1>1, <1>2, <1>3, <2>1, <2>2 DEF TagsKept
<1>6. ClassInv' /\ DeletionAsConfigured' /\ OnlyFinalBackupTagsBlock'
  BY <1>1 DEF ClassInv, DeletionAsConfigured, OnlyFinalBackupTagsBlock
<1> QED BY <1>4, <1>5, <1>6

\* A tag that nobody edited is read as the storage class has it.
LEMMA UneditedReadsBack ==
    ASSUME IInv, class # NoClass,
           NEW name \in DOMAIN OnDeletion(class), name \notin edited,
           Unambiguous(OnDeletion(class)[name])
    PROVE  /\ <<"OnDeletion", name>> \in DOMAIN tags
           /\ DecodeDeletionTag(tags[<<"OnDeletion", name>>]) = OnDeletion(class)[name]
<1>1. class \in Classes BY DEF IInv, TypeOK
<1>2. /\ <<"OnDeletion", name>> \in DOMAIN tags
      /\ tags[<<"OnDeletion", name>>] = TagValue(OnDeletion(class)[name])
  BY DEF IInv, TagsKept
<1>3. OnDeletion(class)[name] \in Seq(STRING) BY <1>1, OnDeletionValues
<1> QED BY Zenon, <1>2, <1>3, TagReadsBack

\* A deletion that is sent has every parameter that nobody edited, and one that is
\* not has tags of a final backup that did not come from the storage class.
LEMMA DeletePreserves == ASSUME IInv, Delete PROVE IInv'
<1> DEFINE type == class.resourceType
           conf == DeleteConfiguration(type)
           P == GetDeleteParameters(type)
           d == Sent(type, P)
           D == OnDeletion(class)
           final == "FinalBackupTags"
<1>1. /\ Fit(P, conf)
      /\ \A name \in DOMAIN P : /\ <<"OnDeletion", name>> \in DOMAIN tags
                                /\ P[name] = DecodeDeletionTag(tags[<<"OnDeletion", name>>])
      /\ \A name : <<"OnDeletion", name>> \in DOMAIN tags /\ name \in conf
                   /\ FitsField(DecodeDeletionTag(tags[<<"OnDeletion", name>>]), name)
                   => name \in DOMAIN P
  BY GetDeleteParametersFit DEF IInv, TypeOK
<1>2. /\ ~PopulateFails(WithId(type, P), conf)
      /\ ~PopulateFails(Replaced("OpenZFSConfiguration", WithId(type, P), conf),
                        DeleteInput(type))
      /\ validateDeleteInput(WithId(type, P)) <=> validateDeleteInput(P)
      /\ DOMAIN d = {name \in DOMAIN P : P[name] # Null}
      /\ \A name \in DOMAIN d : d[name] = P[name]
  <2> HIDE DEF P, type
  <2>1. Fit(P, DeleteConfiguration(type)) BY <1>1
  <2> QED BY Zenon, <2>1, FitDeletes
<1>3. /\ class # NoClass /\ type # "snapshot"
      /\ answer' = <<"Delete", IF validateDeleteInput(P) THEN "OK" ELSE "Internal">>
      /\ deletion' = IF validateDeleteInput(P) THEN {d} ELSE deletion
      /\ UNCHANGED <<class, tags, edited, edits>>
  BY <1>2 DEF Delete, WithId, Sent
<1>4. class \in Classes /\ ~DeletionFails(type, D) BY <1>3 DEF IInv, TypeOK, ClassInv
<1>5. /\ \A name \in DOMAIN D : name \in conf => FitsField(D[name], name)
      /\ validateDeleteInput(D)
  BY <1>3, <1>4, DeletionValuesFit
<1>6. ASSUME NEW name \in DOMAIN D, name \notin edited, name \in conf, Unambiguous(D[name])
      PROVE  name \in DOMAIN P /\ P[name] = D[name]
  <2>1. /\ <<"OnDeletion", name>> \in DOMAIN tags
        /\ DecodeDeletionTag(tags[<<"OnDeletion", name>>]) = D[name]
    BY <1>3, <1>6, UneditedReadsBack
  <2> HIDE DEF P, D, conf
  <2> QED BY <1>1, <1>5, <1>6, <2>1
<1>7. final \in conf => type = "filesystem" BY DEF DeleteConfiguration
<1>8. final \in DOMAIN P /\ final \notin edited => final \in DOMAIN D
  <2>1. <<"OnDeletion", final>>[1] = "OnDeletion" /\ <<"OnDeletion", final>>[2] = final OBVIOUS
  <2> HIDE DEF P, final
  <2> QED BY Zenon, <1>1, <1>3, <2>1 DEF IInv, TagsKept
<1>9. ~validateDeleteInput(P) =>
          type = "filesystem" /\ (final \in edited \/ (final \in DOMAIN D /\ ~Unambiguous(D[final])))
  <2> SUFFICES ASSUME ~validateDeleteInput(P), final \notin edited, Unambiguous(D[final])
               PROVE  FALSE
    BY <1>1, <1>7, <1>8 DEF Fit, validateDeleteInput
  <2>1. final \in DOMAIN P /\ Incomplete(P[final]) BY DEF validateDeleteInput
  <2>2. final \in conf /\ final \in DOMAIN D BY <1>1, <1>8, <2>1 DEF Fit
  <2>3. P[final] = D[final] BY <1>6, <2>2
  <2> QED BY <1>5, <2>1, <2>2, <2>3 DEF validateDeleteInput
<1> HIDE DEF d, P, D, conf, type
<1>10. Fit(d, conf) BY <1>1, <1>2 DEF Fit
<1>11. ASSUME NEW name \in DOMAIN D, name \notin edited, name \in conf, Unambiguous(D[name])
       PROVE  IF D[name] = Null THEN name \notin DOMAIN d
              ELSE name \in DOMAIN d /\ d[name] = D[name]
  BY <1>2, <1>6, <1>11
<1>12. TypeOK' BY <1>3 DEF IInv, TypeOK
<1>13. DeletionAsConfigured'
  BY <1>3, <1>11 DEF IInv, DeletionAsConfigured, type, D, conf
<1>14. OnlyFinalBackupTagsBlock'
  <2>1. ~StrictPopulateFails(d, conf) BY <1>10, FitPopulates
  <2>2. /\ class' = class /\ edited' = edited
        /\ \A e \in deletion' : e \in deletion \/ e = d
        /\ answer'[2] # "OK" => ~validateDeleteInput(P)
    BY <1>3
  <2> QED BY <1>9, <2>1, <2>2 DEF IInv, OnlyFinalBackupTagsBlock, type, D, conf
<1>15. ClassInv' /\ TagsKept' BY <1>3 DEF IInv, ClassInv, TagsKept
<1> QED BY <1>12, <1>13, <1>14, <1>15 DEF IInv

\* The deletion of a snapshot has no parameters.
LEMMA DeleteSnapshotPreserves == ASSUME IInv, DeleteSnapshot PROVE IInv'
<1> USE DEF IInv
<1>1. /\ class # NoClass /\ class.resourceType = "snapshot"
      /\ answer' = <<"Delete", "OK">> /\ deletion' = {<<>>}
      /\ UNCHANGED <<class, tags, edited, edits>>
  BY DEF DeleteSnapshot
<1>2. DOMAIN OnDeletion(class) = {} BY <1>1 DEF ClassInv
<1>3. ~StrictPopulateFails(<<>>, DeleteConfiguration(class.resourceType))
  BY FitPopulates DEF Fit
<1>4. TypeOK' /\ ClassInv' /\ TagsKept' BY <1>1 DEF TypeOK, ClassInv, TagsKept
<1>5. DeletionAsConfigured' /\ OnlyFinalBackupTagsBlock'
  BY <1>1, <1>2, <1>3 DEF DeletionAsConfigured, OnlyFinalBackupTagsBlock
<1> QED BY <1>4, <1>5

\* The invariant holds in every state, for every set of classes and tag values.
THEOREM ParametersInvariance == Spec => []IInv
<1>1. ASSUME IInv, [Next]_vars PROVE IInv'
  <2>1. CASE UNCHANGED vars
    BY <1>1, <2>1 DEF vars, IInv, TypeOK, ClassInv, TagsKept, DeletionAsConfigured,
                      OnlyFinalBackupTagsBlock
  <2>2. CASE Next
    BY <1>1, <2>2, CreatePreserves, EditPreserves, DeletePreserves, DeleteSnapshotPreserves
       DEF Next
  <2> QED BY <1>1, <2>1, <2>2
<1> QED BY <1>1, InitEstablishes, PTL DEF Spec

-----------------------------------------------------------------------------
(* The theorems.                                                           *)

\* The types of the way of the parameters: TypeOK of Parameters.
THEOREM ParametersTypeCorrect == Spec => []TypeOK
<1>1. IInv => TypeOK BY DEF IInv
<1> QED BY <1>1, ParametersInvariance, PTL

\* A deletion parameter that nobody edited reaches the deletion as the storage class
\* has it, whatever its length and whatever happened to the other tags, if its value
\* can be read in one way only: through the encoding into the tag, which the creation
\* writes, and the six passes of the decoding.
THEOREM DeletionCorrect == Spec => []DeletionAsConfigured
<1>1. IInv => DeletionAsConfigured BY DEF IInv
<1> QED BY <1>1, ParametersInvariance, PTL

\* Whatever an administrator writes into the tags, in any combination, a deletion
\* fails only for tags of a final backup that are not those of the storage class,
\* and what is sent fits its fields.
THEOREM DeletionSentCorrect == Spec => []OnlyFinalBackupTagsBlock
<1>1. IInv => OnlyFinalBackupTagsBlock BY DEF IInv
<1> QED BY <1>1, ParametersInvariance, PTL

\* The decision about the final backup that a class makes, and must make, is in the
\* deletion, whatever was written into the other tags; a null is none.
THEOREM FinalBackupCorrect == Spec => []FinalBackupDecided
<1>1. ASSUME IInv PROVE FinalBackupDecided
  <2> DEFINE skip == "SkipFinalBackup"
             v == OnDeletion(class)[skip]
  <2> SUFFICES ASSUME NEW d \in deletion, class.resourceType = "filesystem", skip \notin edited
               PROVE  \/ skip \in DOMAIN d /\ d[skip] \in {<<"true">>, <<"false">>}
                      \/ skip \in DOMAIN OnDeletion(class) /\ v = Null
    BY DEF FinalBackupDecided
  <2>1. class # NoClass /\ class \in Classes
    BY <1>1 DEF IInv, ClassInv, TypeOK
  <2>2. skip \in DOMAIN OnDeletion(class) /\ skip \in DeleteConfiguration(class.resourceType)
    BY <1>1, <2>1 DEF IInv, ClassInv, DeletionFails, DeleteConfiguration
  <2>3. FitsField(v, skip)
    BY <1>1, <2>1, <2>2, DeletionValuesFit DEF IInv, ClassInv
  <2>4. JsonType(v) \in {"null", "bool"}
    BY <2>3 DEF FitsField, FieldType
  <2>5. v = Null \/ (v \in {<<"true">>, <<"false">>} /\ Unambiguous(v))
    BY <2>4, BooleanValue
  <2>6. v = Null \/ ~Unambiguous(v) \/ (skip \in DOMAIN d /\ d[skip] = v)
    BY <1>1, <2>2 DEF IInv, DeletionAsConfigured
  <2> QED BY <2>2, <2>5, <2>6
<1> QED BY <1>1, ParametersInvariance, PTL

=============================================================================
